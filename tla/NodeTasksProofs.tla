--------------------------- MODULE NodeTasksProofs ---------------------------
(***************************************************************************)
(* Theorems about NodeTasks, for any names, nodes, configuration, size of  *)
(* the peer table, and number of packets and commands: what the two tasks  *)
(* cannot do to each other although nothing is locked.                     *)
(***************************************************************************)
EXTENDS NodeTasks, FiniteSetTheorems, SequenceTheorems, WellFoundedInduction, TLAPS

-----------------------------------------------------------------------------
(* The table of peers: what a scan of it finds.                            *)

\* A non-empty set of natural numbers has a least element: what the scan of
\* findPeerIndex stops at.
LEMMA LeastExists ==
  ASSUME NEW T, T \subseteq Nat, T # {}
  PROVE  \E x \in T : \A y \in T : x <= y
<1> DEFINE U == {0 .. x : x \in T}
           R == StrictSubsetOrdering(Nat)
<1>1. U \subseteq FiniteSubsetsOf(Nat) /\ U # {}
  <2>1. \A x \in T : IsFiniteSet(0 .. x) /\ 0 .. x \in SUBSET Nat
    BY FS_Interval
  <2>2. QED
    BY <2>1 DEF FiniteSubsetsOf
<1>2. PICK u \in U : \A v \in U : ~ (<<v, u>> \in R)
  BY <1>1, FS_StrictSubsetOrderingWellFounded, WFMin
<1>3. PICK x \in T : u = 0 .. x
  BY <1>2
<1>4. ASSUME NEW y \in T, y < x
      PROVE  FALSE
  <2>1. 0 .. y \in U /\ 0 .. y \in SUBSET Nat /\ u \in SUBSET Nat
    BY <1>3
  <2>2. 0 .. y \subseteq u /\ 0 .. y # u
    BY <1>3, <1>4
  <2>3. <<0 .. y, u>> \in R
    BY <2>1, <2>2 DEF StrictSubsetOrdering
  <2>4. QED
    BY <1>2, <2>1, <2>3
<1>5. QED
  BY <1>4

\* A scan finds a slot of the set it looks for, if there is one.
LEMMA LowestFinds ==
  ASSUME NEW S, S \subseteq PeerSlots
  PROVE  /\ S = {} => Lowest(S) = NoSlot
         /\ S # {} => Lowest(S) \in S
         /\ Lowest(S) \in PeerSlots \cup {NoSlot}
<1>1. NoSlot \notin PeerSlots
  BY DEF NoSlot, PeerSlots
<1>2. CASE S = {}
  BY <1>2 DEF Lowest
<1>3. CASE S # {}
  <2>1. S \subseteq Nat
    BY PeerAssumption DEF PeerSlots
  <2>2. PICK x \in S : \A y \in S : x <= y
    BY <1>3, <2>1, LeastExists
  <2>3. Lowest(S) \in S
    BY <1>3, <2>2 DEF Lowest
  <2>4. QED
    BY <1>3, <2>3
<1>4. QED
  BY <1>2, <1>3

\* The slot that is found for a peer has its address, and there is none only if no
\* slot has.
LEMMA FindPeerFinds ==
  ASSUME NEW t, NEW m
  PROVE  LET i == FindPeer(t, m)
         IN  /\ i \in PeerSlots \cup {NoSlot}
             /\ i # NoSlot => i \in PeerSlots /\ t.mac[i] = m
             /\ i = NoSlot <=> \A j \in PeerSlots : t.mac[j] # m
<1> DEFINE S == {j \in PeerSlots : t.mac[j] = m}
<1>1. S \subseteq PeerSlots
  OBVIOUS
<1>2. NoSlot \notin PeerSlots
  BY DEF NoSlot, PeerSlots
<1>3. FindPeer(t, m) = Lowest(S)
  BY DEF FindPeer
<1>4. /\ S = {} => Lowest(S) = NoSlot
      /\ S # {} => Lowest(S) \in S
  BY <1>1, LowestFinds
<1>5. QED
  BY <1>2, <1>3, <1>4

\* Counters are of their type, zero for a peer that has no slot.
LEMMA CountersOf ==
  ASSUME NEW t \in TableType, NEW m
  PROVE  TxOf(t, m) \in Counters /\ RxOf(t, m) \in Counters
<1>1. 0 \in Counters
  BY PeerAssumption DEF Counters
<1>2. FindPeer(t, m) # NoSlot => FindPeer(t, m) \in PeerSlots
  BY FindPeerFinds
<1>3. QED
  BY <1>1, <1>2 DEF TxOf, RxOf, TableType

\* Below the modulus a counter goes up by one, and stays a counter in any case.
LEMMA BumpUp ==
  ASSUME NEW c \in Counters
  PROVE  /\ Bump(c) \in Counters
         /\ c + 1 < CounterModulus => Bump(c) = c + 1
         /\ Bump(c) = c + 1 \/ Bump(c) = 0
<1>1. CounterModulus \in Nat \ {0, 1}
  BY PeerAssumption
<1>2. CASE c + 1 < CounterModulus
  BY <1>1, <1>2 DEF Bump, Counters
<1>3. CASE c + 1 = CounterModulus
  BY <1>1, <1>3 DEF Bump, Counters
<1>4. QED
  BY <1>1, <1>2, <1>3 DEF Counters

\* The table of a configuration is well formed, and nothing is counted in it.
LEMMA ConfiguredTableType ==
  ASSUME NEW config \in Seq([mac : Nodes, key : Keys])
  PROVE  /\ ConfiguredTable(config) \in TableType
         /\ \A m : TxOf(ConfiguredTable(config), m) = 0 /\ RxOf(ConfiguredTable(config), m) = 0
<1> DEFINE t == ConfiguredTable(config)
<1>1. 0 \in Counters
  BY PeerAssumption DEF Counters
<1>2. \A i \in PeerSlots : i < Len(config) =>
        config[i + 1] \in [mac : Nodes, key : Keys]
  <2>1. \A i \in PeerSlots : i \in Int /\ i >= 0
    BY PeerAssumption DEF PeerSlots
  <2>2. Len(config) \in Nat /\ \A j \in 1 .. Len(config) : config[j] \in [mac : Nodes, key : Keys]
    BY LenProperties, ElementOfSeq
  <2>3. QED
    BY <2>1, <2>2
<1>3. t \in TableType
  BY <1>1, <1>2 DEF ConfiguredTable, TableType
<1>4. \A i \in PeerSlots : t.tx[i] = 0 /\ t.rx[i] = 0
  BY DEF ConfiguredTable
<1>5. \A m : FindPeer(t, m) # NoSlot => FindPeer(t, m) \in PeerSlots
  BY FindPeerFinds
<1>6. QED
  BY <1>3, <1>4, <1>5 DEF TxOf, RxOf

-----------------------------------------------------------------------------
(* The inductive invariant.                                                *)

\* The address of the peer configured i-th.
Mac(i) == Configured[i + 1].mac

\* The stages at which a task uses the slot it has found, or has just taken.
Using == {"verify", "check", "count", "store", "return", "sign"}

RadioStages == {"cs_find", "cs_get", "pit_save", "fib_get", "pit_find", "pit_get",
                "pit_remove", "cs_save"}

TaskType ==
  [ stage : {"idle", "find", "claim", "send", "clear_pit"} \cup Using \cup RadioStages,
    goal : {"idle", "verify", "check", "count", "sign"}, to : Nodes \cup {NoNode},
    slot : PeerSlots \cup {NoSlot}, old : Counters, counter : Counters,
    todo : SUBSET Nodes, packet : Packets ]

\* A task with these local variables is about to send a packet to one address.
Sending(r) ==
  \/ r.stage \in {"count", "store", "return", "sign"}
  \/ r.stage \in {"find", "claim"} /\ r.goal \in {"count", "sign"}

\* A task takes a slot only for a node that is not configured, and never a configured
\* one's; the slot it uses is a configured peer's exactly when it is about that peer.
TaskOK(r) ==
  /\ r \in TaskType
  /\ r.stage \in {"find", "claim"} \cup Using => r.to \in Nodes
  /\ r.stage \in {"find", "claim"} => r.goal \in Using
  /\ r.stage = "claim" => r.slot \in PeerSlots \ KnownSlots /\ r.to \notin Known
  /\ r.stage \in Using =>
       r.slot \in PeerSlots /\ \A i \in KnownSlots : r.slot = i <=> r.to = Mac(i)
  /\ Sending(r) => r.to \notin r.todo

\* The configured peers have the first slots, and no other.
PeersInv ==
  /\ peers \in TableType
  /\ \A i \in KnownSlots : peers.mac[i] = Mac(i)
  /\ \A j \in PeerSlots \ KnownSlots : peers.mac[j] \notin Known

\* The main loop is about the nodes that send_interest was told to write to.
MainOK(r) ==
  /\ r.todo \subseteq MainTargets
  /\ r.stage \in {"find", "claim"} \cup Using => r.to \in MainTargets

\* The Wi-Fi task has a packet of some node, with a counter that was counted.
GotInv ==
  /\ got.packet \in Packets /\ got.counter \in Counters
  /\ task["radio"].stage # "idle" => got.from \in Nodes /\ got.counter # 0
  /\ arrivals \in Nat /\ arrivals <= MaxArrivals

StoreInv ==
  /\ cs \in [Names -> Contents \cup {NoContent}]
  /\ pit \in [Names -> SUBSET Nodes]
  /\ given \in [Nodes -> Seq([counter : Counters, packet : Packets])]

\* The packet for m has been counted and is not yet given to the radio.
Counted(r, m) ==
  r.to = m /\ (r.stage \in {"return", "sign"} \/ (r.stage = "find" /\ r.goal = "sign"))

\* The packet in hand may still lead to one for m.
Ahead(r, m) ==
  /\ r.stage # "idle"
  /\ r.stage = "send" => m \in r.todo
  /\ Sending(r) => m \in r.todo \/ m = r.to

\* The configured peers that only the Wi-Fi task writes to.
Sole == {i \in KnownSlots : Mac(i) \notin MainTargets}

\* The counter of such a peer is that of the last packet built for it, plus one while
\* a packet has been counted; and a packet that arrives leads to at most one for it.
SoleInv(r, tx, sent) ==
  \A i \in Sole :
    /\ ~Counted(r, Mac(i)) => tx[i] = Len(sent[Mac(i)])
    /\ Counted(r, Mac(i)) => tx[i] = Len(sent[Mac(i)]) + 1
    /\ r.to = Mac(i) /\ r.stage = "store" => r.old = tx[i]
    /\ r.to = Mac(i) /\ r.stage = "return" => r.old + 1 = tx[i]
    /\ Counted(r, Mac(i)) /\ r.stage # "return" => r.counter = tx[i]
    /\ \A c \in 1 .. Len(sent[Mac(i)]) : sent[Mac(i)][c].counter = c

BoundInv(r, sent, n) ==
  \A i \in Sole : /\ Len(sent[Mac(i)]) <= n
                  /\ Ahead(r, Mac(i)) => Len(sent[Mac(i)]) + 1 <= n

IInv ==
  /\ task \in [Tasks -> TaskType] /\ \A t \in Tasks : TaskOK(task[t])
  /\ MainOK(task["main"]) /\ PeersInv /\ GotInv /\ StoreInv
  /\ SoleInv(task["radio"], peers.tx, given)
  /\ BoundInv(task["radio"], given, arrivals)

-----------------------------------------------------------------------------
(* The table of peers.                                                     *)

LEMMA KnownSlotsAre ==
  /\ KnownSlots \subseteq PeerSlots
  /\ \A i \in KnownSlots : Mac(i) \in Nodes /\ Mac(i) \in Known
  /\ \A m \in Known : \E i \in KnownSlots : m = Mac(i)
  /\ \A i, j \in KnownSlots : Mac(i) = Mac(j) => i = j
<1>1. Len(Configured) \in Nat /\ Len(Configured) <= MaxPeers /\ MaxPeers \in Nat
  BY TasksAssumption, PeerAssumption, LenProperties
<1>2. \A i : i \in KnownSlots <=> i \in Int /\ 0 <= i /\ i < Len(Configured)
  BY <1>1 DEF KnownSlots
<1>3. \A i \in KnownSlots : i + 1 \in 1 .. Len(Configured)
  BY <1>1, <1>2
<1>4. \A k \in 1 .. Len(Configured) : k - 1 \in KnownSlots /\ (k - 1) + 1 = k
  BY <1>1, <1>2
<1>5. \A k \in 1 .. Len(Configured) : Configured[k].mac \in Nodes
  <2>1. \A k \in 1 .. Len(Configured) : Configured[k] \in [mac : Nodes, key : Keys]
    BY TasksAssumption, ElementOfSeq
  <2>2. QED
    BY <2>1
<1>6. KnownSlots \subseteq PeerSlots
  BY <1>1, <1>2 DEF PeerSlots
<1>7. \A i \in KnownSlots : Mac(i) \in Nodes /\ Mac(i) \in Known
  BY <1>3, <1>5 DEF Mac, Known
<1>8. \A m \in Known : \E i \in KnownSlots : m = Mac(i)
  BY <1>4 DEF Mac, Known
<1>9. \A i, j \in KnownSlots : Mac(i) = Mac(j) => i = j
  <2> TAKE i, j \in KnownSlots
  <2> HAVE Mac(i) = Mac(j)
  <2>1. i + 1 = j + 1
    BY <1>3, TasksAssumption DEF Mac
  <2>2. QED
    BY <1>2, <2>1
<1>10. QED
  BY <1>6, <1>7, <1>8, <1>9

\* A look-up finds a configured peer, in its own slot, and takes no other node for one.
LEMMA LookUpKnown ==
  ASSUME PeersInv, NEW m \in Nodes
  PROVE  /\ m \in Known => FindPeer(peers, m) # NoSlot
         /\ FindPeer(peers, m) # NoSlot =>
              /\ FindPeer(peers, m) \in PeerSlots
              /\ \A i \in KnownSlots : FindPeer(peers, m) = i <=> m = Mac(i)
         /\ FindPeer(peers, NoNode) # NoSlot =>
              FindPeer(peers, NoNode) \in PeerSlots \ KnownSlots
<1>1. m \in Known => \E i \in PeerSlots : peers.mac[i] = m
  BY KnownSlotsAre DEF PeersInv
<1>2. m \in Known => FindPeer(peers, m) # NoSlot
  BY <1>1, FindPeerFinds
<1>3. ASSUME FindPeer(peers, m) # NoSlot
      PROVE  /\ FindPeer(peers, m) \in PeerSlots
             /\ \A i \in KnownSlots : FindPeer(peers, m) = i <=> m = Mac(i)
  <2> DEFINE k == FindPeer(peers, m)
  <2>1. k \in PeerSlots /\ peers.mac[k] = m
    BY <1>3, FindPeerFinds
  <2> HIDE DEF k
  <2>2. k \notin KnownSlots => m \notin Known
    BY <2>1 DEF PeersInv
  <2>3. k \in KnownSlots => m = Mac(k)
    BY <2>1 DEF PeersInv
  <2>4. \A i \in KnownSlots : k = i <=> m = Mac(i)
    BY <2>2, <2>3, KnownSlotsAre
  <2>5. QED
    BY <2>1, <2>4 DEF k
<1>4. ASSUME FindPeer(peers, NoNode) # NoSlot
      PROVE  FindPeer(peers, NoNode) \in PeerSlots \ KnownSlots
  <2> DEFINE k == FindPeer(peers, NoNode)
  <2>1. k \in PeerSlots /\ peers.mac[k] = NoNode
    BY <1>4, FindPeerFinds
  <2> HIDE DEF k
  <2>2. k \notin KnownSlots
    BY <2>1, KnownSlotsAre, PeerAssumption DEF PeersInv
  <2>3. QED
    BY <2>1, <2>2 DEF k
<1>5. QED
  BY <1>2, <1>3, <1>4
-----------------------------------------------------------------------------
(* Initial states, and what steps have in common.                          *)

LEMMA PacketTypes ==
  /\ NoPacket \in Packets
  /\ \A n \in Names : [kind |-> "INTEREST", name |-> n, content |-> NoContent] \in Packets
  /\ \A n \in Names, x \in Contents \cup {NoContent} :
       [kind |-> "DATA", name |-> n, content |-> x] \in Packets
BY TasksAssumption DEF NoPacket, Packets

LEMMA SlotTypes ==
  /\ NoSlot \notin PeerSlots /\ NoNode \notin Nodes /\ 0 \in Counters
  /\ NoPacket \in Packets
BY PacketTypes, PeerAssumption DEF NoSlot, PeerSlots, Counters

\* A task that begins to send to a set of nodes, or to none.
LEMMA SendingTask ==
  ASSUME NEW R \in SUBSET Nodes, NEW p \in Packets
  PROVE  LET r == [Idle EXCEPT !.stage = "send", !.todo = R, !.packet = p]
         IN  /\ TaskOK(r) /\ r.todo = R /\ r.stage = "send"
             /\ \A m : ~Counted(r, m) /\ (Ahead(r, m) <=> m \in R)
             /\ R \subseteq MainTargets => MainOK(r)
<1> DEFINE r == [Idle EXCEPT !.stage = "send", !.todo = R, !.packet = p]
<1>1. r.stage = "send" /\ r.todo = R
  BY DEF Idle
<1>2. r \in TaskType
  BY SlotTypes DEF Idle, TaskType
<1> HIDE DEF r
<1>3. /\ r.stage = "send" /\ r.todo = R
      /\ ~Sending(r)
  BY <1>1 DEF Sending
<1>4. TaskOK(r)
  BY <1>2, <1>3 DEF TaskOK, Using
<1>5. \A m : ~Counted(r, m) /\ (Ahead(r, m) <=> m \in R)
  BY <1>3 DEF Counted, Ahead
<1>6. R \subseteq MainTargets => MainOK(r)
  BY <1>3 DEF MainOK, Using
<1>7. QED
  BY <1>3, <1>4, <1>5, <1>6 DEF r

LEMMA IdleTask == TaskOK(Idle) /\ MainOK(Idle) /\ \A m : ~Counted(Idle, m) /\ ~Ahead(Idle, m)
<1>1. Idle \in TaskType
  BY SlotTypes DEF Idle, TaskType
<1>2. Idle.stage = "idle" /\ Idle.goal = "idle" /\ Idle.todo = {}
  BY DEF Idle
<1>3. ~Sending(Idle)
  BY <1>2 DEF Sending
<1>4. QED
  BY <1>1, <1>2, <1>3 DEF TaskOK, MainOK, Counted, Ahead, Using

LEMMA InitInv == Init => IInv
<1> SUFFICES ASSUME Init PROVE IInv
  OBVIOUS
<1>1. task["radio"] = Idle /\ task["main"] = Idle
  BY DEF Init, Tasks
<1>2. task \in [Tasks -> TaskType] /\ \A t \in Tasks : TaskOK(task[t])
  BY IdleTask DEF Init, TaskOK
<1>3. MainOK(task["main"])
  BY <1>1, IdleTask
<1>4. PeersInv
  <2>1. peers \in TableType
    BY ConfiguredTableType, TasksAssumption DEF Init
  <2>2. \A i \in PeerSlots : i \in KnownSlots <=> i < Len(Configured)
    <3>1. Len(Configured) \in Nat /\ MaxPeers \in Nat
      BY TasksAssumption, PeerAssumption, LenProperties
    <3>2. QED
      BY <3>1 DEF KnownSlots, PeerSlots
  <2>3. \A i \in PeerSlots : peers.mac[i] = IF i < Len(Configured) THEN Mac(i) ELSE NoNode
    BY DEF Init, ConfiguredTable, Mac
  <2>4. NoNode \notin Known
    BY KnownSlotsAre, SlotTypes
  <2>5. QED
    BY <2>1, <2>2, <2>3, <2>4, KnownSlotsAre DEF PeersInv
<1>5. GotInv
  BY <1>1, SlotTypes, TasksAssumption DEF Init, GotInv, Nothing, Idle
<1>6. StoreInv
  <2>1. <<>> \in Seq([counter : Counters, packet : Packets])
    OBVIOUS
  <2>2. QED
    BY <2>1 DEF Init, StoreInv
<1>7. \A i \in Sole : peers.tx[i] = 0 /\ Len(given[Mac(i)]) = 0
  BY KnownSlotsAre DEF Init, ConfiguredTable, Sole
<1>8. SoleInv(Idle, peers.tx, given)
  <2>1. Idle.stage = "idle" /\ \A m : ~Counted(Idle, m)
    BY IdleTask DEF Idle
  <2>2. QED
    BY <1>7, <2>1 DEF SoleInv
<1>9. BoundInv(Idle, given, arrivals)
  <2>1. arrivals = 0 /\ \A m : ~Ahead(Idle, m)
    BY IdleTask DEF Init
  <2>2. QED
    BY <1>7, <2>1 DEF BoundInv
<1>10. QED
  BY <1>1, <1>2, <1>3, <1>4, <1>5, <1>6, <1>8, <1>9 DEF IInv

\* What a step does to the local variables of one task concerns no other.
LEMMA TaskStep ==
  ASSUME IInv, NEW t \in Tasks, NEW r, TaskOK(r), t = "main" => MainOK(r),
         task' = [task EXCEPT ![t] = r]
  PROVE  /\ task' \in [Tasks -> TaskType] /\ \A u \in Tasks : TaskOK(task'[u])
         /\ MainOK(task'["main"])
         /\ task'[t] = r /\ \A u \in Tasks \ {t} : task'[u] = task[u]
<1>1. r \in TaskType
  BY DEF TaskOK
<1>2. task'[t] = r /\ \A u \in Tasks \ {t} : task'[u] = task[u]
  BY DEF IInv
<1>3. task' \in [Tasks -> TaskType]
  BY <1>1 DEF IInv
<1>4. QED
  BY <1>2, <1>3 DEF IInv, Tasks

\* A step that the peers with a single sender cannot tell.
LEMMA SoleUntouched ==
  ASSUME IInv, task'["radio"] = task["radio"], arrivals' = arrivals,
         \A i \in Sole : peers'.tx[i] = peers.tx[i] /\ given'[Mac(i)] = given[Mac(i)]
  PROVE  /\ SoleInv(task'["radio"], peers'.tx, given')
         /\ BoundInv(task'["radio"], given', arrivals')
BY DEF IInv, SoleInv, BoundInv

\* A step of the Wi-Fi task that counts no packet, and hands none to the radio.
LEMMA SoleWaiting ==
  ASSUME IInv, NEW r, arrivals' = arrivals, given' = given,
         \A i \in Sole :
           /\ peers'.tx[i] = peers.tx[i]
           /\ Counted(task["radio"], Mac(i)) <=> Counted(r, Mac(i))
           /\ Counted(r, Mac(i)) =>
                r.counter = task["radio"].counter /\ task["radio"].stage # "return"
           /\ Ahead(r, Mac(i)) => Ahead(task["radio"], Mac(i)),
         r.stage \notin {"store", "return"}
  PROVE  SoleInv(r, peers'.tx, given') /\ BoundInv(r, given', arrivals')
<1>1. \A i \in Sole : Mac(i) \in Nodes /\ Len(given[Mac(i)]) \in Nat
  BY KnownSlotsAre, LenProperties DEF Sole, IInv, StoreInv
<1>2. SoleInv(r, peers'.tx, given')
  BY <1>1 DEF IInv, SoleInv
<1>3. BoundInv(r, given', arrivals')
  BY <1>1 DEF IInv, BoundInv
<1>4. QED
  BY <1>2, <1>3

LEMMA GotKept ==
  ASSUME IInv, got' = got, arrivals' = arrivals,
         task'["radio"].stage # "idle" => task["radio"].stage # "idle"
  PROVE  GotInv'
BY DEF IInv, GotInv

\* What every step of one task has to keep.
LEMMA StepInv ==
  ASSUME IInv, NEW t \in Tasks, NEW r, TaskOK(r), task' = [task EXCEPT ![t] = r],
         PeersInv', StoreInv', GotInv',
         t = "main" =>
           /\ MainOK(r) /\ arrivals' = arrivals
           /\ \A i \in Sole : peers'.tx[i] = peers.tx[i] /\ given'[Mac(i)] = given[Mac(i)],
         t = "radio" => SoleInv(r, peers'.tx, given') /\ BoundInv(r, given', arrivals')
  PROVE  IInv'
<1>1. /\ task' \in [Tasks -> TaskType] /\ \A u \in Tasks : TaskOK(task'[u])
      /\ MainOK(task'["main"])
      /\ task'[t] = r /\ \A u \in Tasks \ {t} : task'[u] = task[u]
  BY TaskStep
<1>2. SoleInv(task'["radio"], peers'.tx, given') /\ BoundInv(task'["radio"], given', arrivals')
  <2>1. CASE t = "main"
    BY <1>1, <2>1, SoleUntouched DEF Tasks
  <2>2. CASE t = "radio"
    BY <1>1, <2>2
  <2>3. QED
    BY <2>1, <2>2 DEF Tasks
<1>3. QED
  BY <1>1, <1>2 DEF IInv

\* A step of one task that leaves the tables, the packets built and the packet in hand.
LEMMA LocalStepInv ==
  ASSUME IInv, NEW t \in Tasks, NEW r, TaskOK(r), task' = [task EXCEPT ![t] = r],
         peers' = peers, cs' = cs, pit' = pit, given' = given, got' = got, arrivals' = arrivals,
         r.stage # "idle" => task[t].stage # "idle",
         t = "main" => MainOK(r),
         t = "radio" => SoleInv(r, peers.tx, given) /\ BoundInv(r, given, arrivals)
  PROVE  IInv'
<1>1. PeersInv' /\ StoreInv'
  BY DEF IInv, PeersInv, StoreInv
<1>2. task'[t] = r /\ \A u \in Tasks \ {t} : task'[u] = task[u]
  BY TaskStep
<1>3. GotInv'
  BY <1>2, GotKept DEF Tasks
<1>4. QED
  BY <1>1, <1>3, StepInv

\* A task begins to send, or goes on with the addresses that are left.
LEMMA SendInv ==
  ASSUME IInv, NEW t \in Tasks, NEW R \in SUBSET Nodes, NEW p \in Packets, SendTo(t, R, p),
         peers' = peers, cs' = cs, pit' = pit, given' = given, got' = got, arrivals' = arrivals,
         task[t].stage # "idle",
         t = "main" => R \subseteq MainTargets,
         t = "radio" => \A i \in Sole : /\ ~Counted(task[t], Mac(i))
                                        /\ Mac(i) \in R => Ahead(task[t], Mac(i))
  PROVE  IInv'
<1> DEFINE r == [Idle EXCEPT !.stage = "send", !.todo = R, !.packet = p]
<1>1. task' = [task EXCEPT ![t] = r]
  BY DEF SendTo
<1>2. /\ TaskOK(r) /\ r.stage = "send"
      /\ \A m : ~Counted(r, m) /\ (Ahead(r, m) <=> m \in R)
      /\ R \subseteq MainTargets => MainOK(r)
  BY SendingTask
<1> HIDE DEF r
<1>3. t = "radio" => SoleInv(r, peers.tx, given) /\ BoundInv(r, given, arrivals)
  <2> SUFFICES ASSUME t = "radio"
               PROVE  SoleInv(r, peers'.tx, given') /\ BoundInv(r, given', arrivals')
    OBVIOUS
  <2>1. \A i \in Sole : /\ peers'.tx[i] = peers.tx[i]
                        /\ Counted(task["radio"], Mac(i)) <=> Counted(r, Mac(i))
                        /\ Counted(r, Mac(i)) =>
                             r.counter = task["radio"].counter /\ task["radio"].stage # "return"
                        /\ Ahead(r, Mac(i)) => Ahead(task["radio"], Mac(i))
    BY <1>2
  <2>2. r.stage \notin {"store", "return"}
    BY <1>2
  <2>3. QED
    BY <2>1, <2>2, SoleWaiting
<1>4. QED
  BY <1>1, <1>2, <1>3, LocalStepInv

-----------------------------------------------------------------------------
(* The steps of sendPacketToAddresses and of the look-up of a slot, which  *)
(* both tasks take.                                                        *)

LEMMA FindInv ==
  ASSUME IInv, NEW t \in Tasks, Find(t)
  PROVE  IInv'
<1>1. /\ task[t] \in TaskType /\ TaskOK(task[t]) /\ task[t].stage = "find"
      /\ task[t].to \in Nodes /\ task[t].goal \in Using
      /\ t = "main" => MainOK(task[t])
  BY DEF IInv, Find, At, TaskOK
<1>2. /\ peers' = peers /\ cs' = cs /\ pit' = pit /\ given' = given
      /\ got' = got /\ arrivals' = arrivals
  BY DEF Find, tables, bounds
<1>3. \A i \in Sole : Mac(i) \in Nodes /\ Mac(i) \in Known
  BY KnownSlotsAre DEF Sole
<1> DEFINE own == FindPeer(peers, task[t].to)
           free == FindPeer(peers, NoNode)
<1>4. CASE own = NoSlot /\ free = NoSlot
  <2>1. SendTo(t, task[t].todo, task[t].packet)
    BY <1>4 DEF Find, GoOn
  <2>2. /\ task[t].todo \in SUBSET Nodes /\ task[t].packet \in Packets
        /\ t = "main" => task[t].todo \subseteq MainTargets
    BY <1>1 DEF TaskType, MainOK
  <2>3. task[t].to \notin Known
    BY <1>1, <1>4, LookUpKnown DEF IInv
  <2>4. \A i \in Sole : /\ ~Counted(task[t], Mac(i))
                        /\ Mac(i) \in task[t].todo => Ahead(task[t], Mac(i))
    BY <1>1, <1>3, <2>3 DEF Counted, Ahead
  <2>5. QED
    BY <1>1, <1>2, <2>1, <2>2, <2>4, SendInv
<1>5. CASE ~ (own = NoSlot /\ free = NoSlot)
  <2> DEFINE slot == IF own # NoSlot THEN own ELSE free
             stage == IF own # NoSlot THEN task[t].goal ELSE "claim"
             r == [task[t] EXCEPT !.slot = slot, !.stage = stage]
  <2>1. task' = [task EXCEPT ![t] = r]
    BY <1>1, <1>5 DEF Find, IInv
  <2>2. /\ own # NoSlot => /\ own \in PeerSlots
                           /\ \A i \in KnownSlots : own = i <=> task[t].to = Mac(i)
        /\ own = NoSlot => task[t].to \notin Known /\ free \in PeerSlots \ KnownSlots
    BY <1>1, <1>5, LookUpKnown DEF IInv
  <2>3. /\ slot \in PeerSlots
        /\ stage = task[t].goal \/ stage = "claim"
        /\ stage = "claim" => slot \in PeerSlots \ KnownSlots /\ task[t].to \notin Known
        /\ stage # "claim" => \A i \in KnownSlots : slot = i <=> task[t].to = Mac(i)
    BY <1>1, <2>2 DEF Using
  <2> HIDE DEF slot, stage, own, free
  <2>4. stage \in Using \cup {"claim"}
    BY <1>1, <2>3
  <2>5. r \in TaskType
    BY <1>1, <2>3, <2>4 DEF TaskType
  <2>6. /\ r.to = task[t].to /\ r.goal = task[t].goal /\ r.counter = task[t].counter
        /\ r.todo = task[t].todo /\ r.stage = stage /\ r.slot = slot
    BY <1>1 DEF TaskType
  <2> HIDE DEF r
  <2>7. Sending(r) <=> Sending(task[t])
    <3>1. task[t].goal \in {"verify", "check", "count", "sign"}
      BY <1>1 DEF TaskType, Using
    <3>2. Sending(task[t]) <=> task[t].goal \in {"count", "sign"}
      BY <1>1 DEF Sending
    <3>3. CASE r.stage = "claim"
      BY <2>6, <3>2, <3>3 DEF Sending
    <3>4. CASE r.stage = task[t].goal
      BY <2>6, <3>1, <3>2, <3>4 DEF Sending
    <3>5. QED
      BY <2>3, <2>6, <3>3, <3>4
  <2>8. TaskOK(r)
    BY <1>1, <2>3, <2>4, <2>5, <2>6, <2>7 DEF TaskOK, Using
  <2>9. t = "main" => MainOK(r)
    BY <1>1, <2>6 DEF MainOK
  <2>10. \A m \in Known : Counted(r, m) <=> Counted(task[t], m)
    <3> SUFFICES ASSUME NEW m \in Known, task[t].to = m PROVE Counted(r, m) <=> Counted(task[t], m)
      BY <2>6 DEF Counted
    <3>1. r.stage = task[t].goal /\ r.to = m
      BY <2>3, <2>6
    <3>2. task[t].goal \in {"verify", "check", "count", "sign"}
      BY <1>1 DEF TaskType, Using
    <3>3. Counted(r, m) <=> task[t].goal = "sign"
      BY <3>1, <3>2 DEF Counted
    <3>4. Counted(task[t], m) <=> task[t].goal = "sign"
      BY <1>1 DEF Counted
    <3>5. QED
      BY <3>3, <3>4
  <2>11. \A m \in Nodes : Ahead(r, m) => Ahead(task[t], m)
    BY <1>1, <2>6, <2>7 DEF Ahead
  <2>12. r.stage \notin {"store", "return", "idle"}
    BY <1>1, <2>3, <2>6 DEF TaskType, Using
  <2>13. t = "radio" => SoleInv(r, peers.tx, given) /\ BoundInv(r, given, arrivals)
    <3> SUFFICES ASSUME t = "radio"
                 PROVE  SoleInv(r, peers'.tx, given') /\ BoundInv(r, given', arrivals')
      BY <1>2
    <3>1. \A i \in Sole : /\ peers'.tx[i] = peers.tx[i]
                          /\ Counted(task["radio"], Mac(i)) <=> Counted(r, Mac(i))
                          /\ Counted(r, Mac(i)) =>
                               r.counter = task["radio"].counter /\ task["radio"].stage # "return"
                          /\ Ahead(r, Mac(i)) => Ahead(task["radio"], Mac(i))
      BY <1>1, <1>2, <1>3, <2>6, <2>10, <2>11
    <3>2. QED
      BY <1>2, <2>12, <3>1, SoleWaiting
  <2>14. QED
    BY <1>1, <1>2, <2>1, <2>8, <2>9, <2>13, LocalStepInv
<1>6. QED
  BY <1>4, <1>5

LEMMA ClaimInv ==
  ASSUME IInv, NEW t \in Tasks, Claim(t)
  PROVE  IInv'
<1> DEFINE r == [task[t] EXCEPT !.stage = task[t].goal]
<1>1. /\ task[t] \in TaskType /\ TaskOK(task[t]) /\ task[t].stage = "claim"
      /\ task[t].to \in Nodes /\ task[t].to \notin Known
      /\ task[t].slot \in PeerSlots \ KnownSlots
      /\ task[t].goal \in {"verify", "check", "count", "sign"}
      /\ t = "main" => MainOK(task[t])
  BY DEF IInv, Claim, At, TaskOK, TaskType, Using
<1>2. /\ cs' = cs /\ pit' = pit /\ given' = given /\ got' = got /\ arrivals' = arrivals
      /\ task' = [task EXCEPT ![t] = r]
  BY <1>1 DEF Claim, bounds, Go, IInv
<1>3. PeersInv'
  <2> DEFINE i == task[t].slot
  <2>1. peers' = [ mac |-> [peers.mac EXCEPT ![i] = task[t].to], tx |-> [peers.tx EXCEPT ![i] = 0],
                   rx |-> [peers.rx EXCEPT ![i] = 0], key |-> [peers.key EXCEPT ![i] = NoKey] ]
    BY DEF Claim
  <2>2. i \in PeerSlots \ KnownSlots /\ peers \in TableType /\ 0 \in Counters
    BY <1>1, SlotTypes DEF IInv, PeersInv
  <2> HIDE DEF i
  <2>3. peers' \in TableType
    BY <1>1, <2>1, <2>2 DEF TableType
  <2>4. \A j \in PeerSlots : peers'.mac[j] = IF j = i THEN task[t].to ELSE peers.mac[j]
    BY <2>1, <2>2 DEF TableType
  <2>5. QED
    BY <1>1, <2>2, <2>3, <2>4, KnownSlotsAre DEF IInv, PeersInv
<1>4. StoreInv'
  BY <1>2 DEF IInv, StoreInv
<1>5. \A i \in Sole : /\ peers'.tx[i] = peers.tx[i]
                      /\ Mac(i) \in Nodes /\ Mac(i) \in Known
  BY <1>1, KnownSlotsAre DEF Claim, Sole, IInv, PeersInv, TableType
<1>6. /\ r.to = task[t].to /\ r.goal = task[t].goal /\ r.counter = task[t].counter
      /\ r.todo = task[t].todo /\ r.stage = task[t].goal /\ r.slot = task[t].slot
      /\ r \in TaskType
  BY <1>1 DEF TaskType, Using
<1> HIDE DEF r
<1>7. Sending(r) <=> Sending(task[t])
  BY <1>1, <1>6 DEF Sending
<1>8. TaskOK(r)
  BY <1>1, <1>6, <1>7, KnownSlotsAre DEF TaskOK, Using
<1>9. t = "main" => MainOK(r)
  BY <1>1, <1>6 DEF MainOK
<1>10. r.stage \notin {"store", "return", "idle"}
  BY <1>1, <1>6
<1>11. task'[t] = r /\ \A u \in Tasks \ {t} : task'[u] = task[u]
  BY <1>2, <1>8, <1>9, TaskStep
<1>12. GotInv'
  BY <1>1, <1>2, <1>11, GotKept DEF Tasks
<1>13. t = "radio" => SoleInv(r, peers'.tx, given') /\ BoundInv(r, given', arrivals')
  <2> SUFFICES ASSUME t = "radio"
               PROVE  SoleInv(r, peers'.tx, given') /\ BoundInv(r, given', arrivals')
    OBVIOUS
  <2>1. \A i \in Sole : ~Counted(r, Mac(i)) /\ ~Counted(task["radio"], Mac(i))
    BY <1>1, <1>5, <1>6 DEF Counted
  <2>2. \A i \in Sole : Ahead(r, Mac(i)) => Ahead(task["radio"], Mac(i))
    BY <1>1, <1>6, <1>7 DEF Ahead
  <2>3. QED
    BY <1>2, <1>5, <1>10, <2>1, <2>2, SoleWaiting
<1>14. QED
  BY <1>2, <1>3, <1>4, <1>5, <1>8, <1>9, <1>12, <1>13, StepInv

\* While a task counts a packet it stays with one address and its slot.
LEMMA SameAddress ==
  ASSUME IInv, NEW t \in Tasks, task[t].stage \in {"count", "store", "return"},
         NEW r \in TaskType, r.to = task[t].to, r.slot = task[t].slot, r.todo = task[t].todo,
         r.stage \in {"store", "return"} \/ (r.stage = "find" /\ r.goal = "sign")
  PROVE  /\ TaskOK(r) /\ (t = "main" => MainOK(r))
         /\ \A m : Ahead(r, m) => Ahead(task[t], m)
         /\ \A i \in KnownSlots : task[t].slot = i <=> task[t].to = Mac(i)
         /\ task[t].slot \in PeerSlots
         /\ t = "main" => \A i \in Sole : task[t].to # Mac(i)
<1>1. TaskOK(task[t]) /\ (t = "main" => MainOK(task[t]))
  BY DEF IInv
<1>2. Sending(task[t]) /\ Sending(r)
  BY DEF Sending
<1>3. TaskOK(r)
  BY <1>1, <1>2 DEF TaskOK, Using
<1>4. t = "main" => MainOK(r) /\ task[t].to \in MainTargets
  BY <1>1 DEF MainOK, Using
<1>5. \A m : Ahead(r, m) => Ahead(task[t], m)
  BY <1>2 DEF Ahead
<1>6. /\ \A i \in KnownSlots : task[t].slot = i <=> task[t].to = Mac(i)
      /\ task[t].slot \in PeerSlots
  BY <1>1 DEF TaskOK, Using
<1>7. QED
  BY <1>3, <1>4, <1>5, <1>6 DEF Sole

LEMMA ReadTxInv ==
  ASSUME IInv, NEW t \in Tasks, ReadTx(t)
  PROVE  IInv'
<1> DEFINE r == [task[t] EXCEPT !.stage = "store", !.old = peers.tx[task[t].slot]]
<1>1. task[t] \in TaskType /\ task[t].stage = "count" /\ task[t].slot \in PeerSlots
  BY DEF IInv, ReadTx, At, TaskOK, Using
<1>2. /\ peers' = peers /\ cs' = cs /\ pit' = pit /\ given' = given
      /\ got' = got /\ arrivals' = arrivals
      /\ task' = [task EXCEPT ![t] = r]
  BY <1>1 DEF ReadTx, tables, bounds, IInv
<1>3. peers.tx[task[t].slot] \in Counters
  BY <1>1 DEF IInv, PeersInv, TableType
<1>4. /\ r \in TaskType /\ r.to = task[t].to /\ r.slot = task[t].slot /\ r.todo = task[t].todo
      /\ r.stage = "store" /\ r.old = peers.tx[task[t].slot]
  BY <1>1, <1>3 DEF TaskType, Using
<1> HIDE DEF r
<1>5. /\ TaskOK(r) /\ (t = "main" => MainOK(r))
      /\ \A m : Ahead(r, m) => Ahead(task[t], m)
      /\ \A i \in KnownSlots : task[t].slot = i <=> task[t].to = Mac(i)
  <2>1. task[t].stage \in {"count", "store", "return"}
    BY <1>1
  <2>2. r.stage \in {"store", "return"} \/ (r.stage = "find" /\ r.goal = "sign")
    BY <1>4, Zenon
  <2>3. QED
    BY <1>4, <2>1, <2>2, SameAddress
<1>6. t = "radio" => SoleInv(r, peers.tx, given) /\ BoundInv(r, given, arrivals)
  <2> SUFFICES ASSUME t = "radio" PROVE SoleInv(r, peers.tx, given) /\ BoundInv(r, given, arrivals)
    OBVIOUS
  <2>1. \A m : ~Counted(r, m) /\ ~Counted(task[t], m)
    BY <1>1, <1>4 DEF Counted
  <2>2. \A i \in Sole : r.to = Mac(i) => r.old = peers.tx[i]
    BY <1>4, <1>5 DEF Sole
  <2>3. SoleInv(r, peers.tx, given)
    BY <1>4, <2>1, <2>2 DEF IInv, SoleInv
  <2>4. BoundInv(r, given, arrivals)
    BY <1>5 DEF IInv, BoundInv
  <2>5. QED
    BY <2>3, <2>4
<1>7. QED
  BY <1>1, <1>2, <1>4, <1>5, <1>6, LocalStepInv

LEMMA StoreTxInv ==
  ASSUME IInv, NEW t \in Tasks, StoreTx(t)
  PROVE  IInv'
<1> DEFINE r == [task[t] EXCEPT !.stage = "return"]
           k == task[t].slot
<1>1. task[t] \in TaskType /\ task[t].stage = "store" /\ task[t].old \in Counters
  BY DEF IInv, StoreTx, At, TaskOK, TaskType
<1>2. /\ cs' = cs /\ pit' = pit /\ given' = given /\ got' = got /\ arrivals' = arrivals
      /\ task' = [task EXCEPT ![t] = r]
      /\ peers' = [peers EXCEPT !.tx[k] = Bump(task[t].old)]
  BY <1>1 DEF StoreTx, bounds, Go, IInv
<1>3. /\ r \in TaskType /\ r.to = task[t].to /\ r.slot = task[t].slot /\ r.todo = task[t].todo
      /\ r.stage = "return" /\ r.old = task[t].old
  BY <1>1 DEF TaskType, Using
<1> HIDE DEF r
<1>4. /\ task[t].stage \in {"count", "store", "return"}
      /\ r.stage \in {"store", "return"} \/ (r.stage = "find" /\ r.goal = "sign")
  BY <1>1, <1>3
<1>5. /\ TaskOK(r) /\ (t = "main" => MainOK(r))
      /\ \A m : Ahead(r, m) => Ahead(task[t], m)
      /\ \A i \in KnownSlots : k = i <=> task[t].to = Mac(i)
      /\ k \in PeerSlots
      /\ t = "main" => \A i \in Sole : task[t].to # Mac(i)
  BY <1>3, <1>4, SameAddress
<1> HIDE DEF k
<1>6. /\ peers' \in TableType /\ peers'.mac = peers.mac
      /\ \A i \in PeerSlots : peers'.tx[i] = IF i = k THEN Bump(task[t].old) ELSE peers.tx[i]
  <2>1. Bump(task[t].old) \in Counters /\ peers \in TableType
    BY <1>1, BumpUp DEF IInv, PeersInv
  <2>2. peers' = [ mac |-> peers.mac, tx |-> [peers.tx EXCEPT ![k] = Bump(task[t].old)],
                   rx |-> peers.rx, key |-> peers.key ]
    BY <1>2, <2>1 DEF TableType
  <2>3. QED
    BY <1>5, <2>1, <2>2 DEF TableType
<1>7. PeersInv' /\ StoreInv'
  BY <1>2, <1>6 DEF IInv, PeersInv, StoreInv
<1>8. task'[t] = r /\ \A u \in Tasks \ {t} : task'[u] = task[u]
  BY <1>2, <1>5, TaskStep
<1>9. GotInv'
  BY <1>1, <1>2, <1>8, GotKept DEF Tasks
<1>10. \A i \in Sole : i \in PeerSlots /\ (k = i <=> task[t].to = Mac(i))
  BY <1>5, KnownSlotsAre DEF Sole
<1>11. t = "radio" => SoleInv(r, peers'.tx, given') /\ BoundInv(r, given', arrivals')
  <2> SUFFICES ASSUME t = "radio" PROVE SoleInv(r, peers'.tx, given') /\ BoundInv(r, given', arrivals')
    OBVIOUS
  <2>1. BoundInv(r, given', arrivals')
    BY <1>2, <1>5 DEF IInv, BoundInv
  <2>2. \A m : (Counted(r, m) <=> r.to = m) /\ ~Counted(task[t], m)
    BY <1>1, <1>3 DEF Counted
  <2>3. ASSUME NEW i \in Sole, task[t].to = Mac(i)
        PROVE  /\ peers'.tx[i] = Len(given[Mac(i)]) + 1
               /\ r.old + 1 = peers'.tx[i]
    <3>1. task[t].old = peers.tx[i] /\ peers.tx[i] = Len(given[Mac(i)])
      BY <1>1, <2>2, <2>3 DEF IInv, SoleInv
    <3>2. Ahead(task[t], Mac(i))
      BY <1>1, <2>3 DEF Ahead, Sending
    <3>3. Len(given[Mac(i)]) + 1 <= arrivals /\ arrivals \in Nat /\ arrivals <= MaxArrivals
      BY <3>2 DEF IInv, BoundInv, GotInv
    <3>4. task[t].old + 1 < CounterModulus
      BY <1>1, <3>1, <3>3, TasksAssumption, PeerAssumption DEF Counters
    <3>5. peers'.tx[i] = Bump(task[t].old)
      BY <1>6, <1>10, <2>3
    <3>6. QED
      BY <1>1, <1>3, <3>1, <3>4, <3>5, BumpUp
  <2>4. SoleInv(r, peers'.tx, given')
    <3> SUFFICES ASSUME NEW i \in Sole
                 PROVE  /\ ~Counted(r, Mac(i)) => peers'.tx[i] = Len(given'[Mac(i)])
                        /\ Counted(r, Mac(i)) => peers'.tx[i] = Len(given'[Mac(i)]) + 1
                        /\ r.to = Mac(i) /\ r.stage = "store" => r.old = peers'.tx[i]
                        /\ r.to = Mac(i) /\ r.stage = "return" => r.old + 1 = peers'.tx[i]
                        /\ Counted(r, Mac(i)) /\ r.stage # "return" => r.counter = peers'.tx[i]
                        /\ \A c \in 1 .. Len(given'[Mac(i)]) : given'[Mac(i)][c].counter = c
      BY DEF SoleInv
    <3>1. \A c \in 1 .. Len(given[Mac(i)]) : given[Mac(i)][c].counter = c
      BY DEF IInv, SoleInv
    <3>2. CASE task[t].to = Mac(i)
      BY <1>2, <1>3, <2>2, <2>3, <3>1, <3>2
    <3>3. CASE task[t].to # Mac(i)
      <4>1. peers'.tx[i] = peers.tx[i]
        BY <1>6, <1>10, <3>3
      <4>2. peers.tx[i] = Len(given[Mac(i)])
        BY <2>2 DEF IInv, SoleInv
      <4>3. QED
        BY <1>2, <1>3, <2>2, <3>1, <3>3, <4>1, <4>2
    <3>4. QED
      BY <3>2, <3>3
  <2>5. QED
    BY <2>1, <2>4
<1>12. t = "main" => \A i \in Sole : peers'.tx[i] = peers.tx[i] /\ given'[Mac(i)] = given[Mac(i)]
  BY <1>2, <1>5, <1>6, <1>10
<1>13. QED
  BY <1>2, <1>5, <1>7, <1>9, <1>11, <1>12, StepInv

LEMMA ReturnTxInv ==
  ASSUME IInv, NEW t \in Tasks, ReturnTx(t)
  PROVE  IInv'
<1>1. /\ task[t] \in TaskType /\ task[t].stage = "return" /\ task[t].old \in Counters
      /\ task[t].slot \in PeerSlots
  BY DEF IInv, ReturnTx, At, TaskOK, TaskType, Using
<1>2. PICK c \in {Bump(task[t].old), peers.tx[task[t].slot]} :
        task' = [task EXCEPT ![t].counter = c, ![t].stage = "find", ![t].goal = "sign"]
  BY DEF ReturnTx
<1> DEFINE r == [task[t] EXCEPT !.counter = c, !.stage = "find", !.goal = "sign"]
<1>3. /\ peers' = peers /\ cs' = cs /\ pit' = pit /\ given' = given
      /\ got' = got /\ arrivals' = arrivals
      /\ task' = [task EXCEPT ![t] = r]
  BY <1>1, <1>2 DEF ReturnTx, tables, bounds, IInv
<1>4. c \in Counters
  BY <1>1, BumpUp DEF IInv, PeersInv, TableType
<1>5. /\ r \in TaskType /\ r.to = task[t].to /\ r.slot = task[t].slot /\ r.todo = task[t].todo
      /\ r.stage = "find" /\ r.goal = "sign" /\ r.counter = c
  BY <1>1, <1>4 DEF TaskType
<1> HIDE DEF r
<1>6. /\ task[t].stage \in {"count", "store", "return"}
      /\ r.stage \in {"store", "return"} \/ (r.stage = "find" /\ r.goal = "sign")
  BY <1>1, <1>5
<1>7. /\ TaskOK(r) /\ (t = "main" => MainOK(r))
      /\ \A m : Ahead(r, m) => Ahead(task[t], m)
      /\ \A i \in KnownSlots : task[t].slot = i <=> task[t].to = Mac(i)
  BY <1>5, <1>6, SameAddress
<1>8. t = "radio" => SoleInv(r, peers.tx, given) /\ BoundInv(r, given, arrivals)
  <2> SUFFICES ASSUME t = "radio" PROVE SoleInv(r, peers.tx, given) /\ BoundInv(r, given, arrivals)
    OBVIOUS
  <2>1. BoundInv(r, given, arrivals)
    BY <1>7 DEF IInv, BoundInv
  <2>2. \A m : (Counted(r, m) <=> r.to = m) /\ (Counted(task[t], m) <=> r.to = m)
    BY <1>1, <1>5 DEF Counted
  <2>3. ASSUME NEW i \in Sole, r.to = Mac(i)
        PROVE  c = peers.tx[i]
    <3>1. task[t].old + 1 = peers.tx[i]
      BY <1>1, <1>5, <2>3 DEF IInv, SoleInv
    <3>2. task[t].slot = i /\ peers.tx[i] \in Counters
      BY <1>5, <1>7, <2>3, KnownSlotsAre DEF Sole, IInv, PeersInv, TableType
    <3>3. task[t].old + 1 < CounterModulus
      BY <3>1, <3>2, PeerAssumption DEF Counters
    <3>4. QED
      BY <1>1, <1>2, <3>1, <3>2, <3>3, BumpUp
  <2>4. SoleInv(r, peers.tx, given)
    BY <1>5, <2>2, <2>3 DEF IInv, SoleInv
  <2>5. QED
    BY <2>1, <2>4
<1>9. r.stage # "idle" => task[t].stage # "idle"
  BY <1>1
<1>10. QED
  BY <1>3, <1>7, <1>8, <1>9, LocalStepInv

LEMMA SignInv ==
  ASSUME IInv, NEW t \in Tasks, Sign(t)
  PROVE  IInv'
<1> DEFINE R == task[t].todo
           p == task[t].packet
           sent == [counter |-> task[t].counter, packet |-> p]
           r == [Idle EXCEPT !.stage = "send", !.todo = R, !.packet = p]
<1>1. /\ task[t] \in TaskType /\ TaskOK(task[t]) /\ task[t].stage = "sign"
      /\ task[t].to \in Nodes /\ task[t].to \notin R
      /\ t = "main" => R \subseteq MainTargets /\ task[t].to \in MainTargets
  BY DEF IInv, Sign, At, TaskOK, Sending, Using, MainOK
<1>2. /\ peers' = peers /\ cs' = cs /\ pit' = pit /\ got' = got /\ arrivals' = arrivals
      /\ given' = [given EXCEPT ![task[t].to] = Append(given[task[t].to], sent)]
      /\ task' = [task EXCEPT ![t] = r]
  BY DEF Sign, tables, bounds, GoOn, SendTo
<1>3. /\ R \in SUBSET Nodes /\ p \in Packets /\ sent \in [counter : Counters, packet : Packets]
      /\ sent.counter = task[t].counter
  BY <1>1 DEF TaskType
<1>4. /\ TaskOK(r) /\ r.stage = "send"
      /\ \A m : ~Counted(r, m) /\ (Ahead(r, m) <=> m \in R)
      /\ R \subseteq MainTargets => MainOK(r)
  <2> HIDE DEF R, p
  <2>1. QED
    BY <1>3, SendingTask
<1> HIDE DEF r, sent
<1>5. /\ \A m \in Nodes : given[m] \in Seq([counter : Counters, packet : Packets])
      /\ given' \in [Nodes -> Seq([counter : Counters, packet : Packets])]
      /\ given'[task[t].to] = Append(given[task[t].to], sent)
      /\ \A m \in Nodes : m # task[t].to => given'[m] = given[m]
  <2>1. given \in [Nodes -> Seq([counter : Counters, packet : Packets])]
    BY DEF IInv, StoreInv
  <2>2. Append(given[task[t].to], sent) \in Seq([counter : Counters, packet : Packets])
    BY <1>1, <1>3, <2>1, AppendProperties
  <2>3. QED
    BY <1>1, <1>2, <2>1, <2>2
<1>6. PeersInv' /\ StoreInv'
  BY <1>2, <1>5 DEF IInv, PeersInv, StoreInv
<1>7. task'[t] = r /\ \A u \in Tasks \ {t} : task'[u] = task[u]
  BY <1>1, <1>2, <1>4, TaskStep
<1>8. GotInv'
  BY <1>1, <1>2, <1>7, GotKept DEF Tasks
<1>9. \A i \in Sole : Mac(i) \in Nodes /\ Mac(i) \notin MainTargets
  BY KnownSlotsAre DEF Sole
<1>10. t = "radio" => SoleInv(r, peers'.tx, given') /\ BoundInv(r, given', arrivals')
  <2> SUFFICES ASSUME t = "radio",
                      NEW i \in Sole
               PROVE  /\ peers'.tx[i] = Len(given'[Mac(i)])
                      /\ \A c \in 1 .. Len(given'[Mac(i)]) : given'[Mac(i)][c].counter = c
                      /\ Len(given'[Mac(i)]) <= arrivals'
                      /\ Ahead(r, Mac(i)) => Len(given'[Mac(i)]) + 1 <= arrivals'
    BY <1>4 DEF SoleInv, BoundInv
  <2> DEFINE old == given[Mac(i)]
  <2>1. /\ old \in Seq([counter : Counters, packet : Packets]) /\ Len(old) \in Nat
        /\ Len(old) <= arrivals
        /\ Ahead(task[t], Mac(i)) => Len(old) + 1 <= arrivals
        /\ \A c \in 1 .. Len(old) : old[c].counter = c
    BY <1>5, <1>9, LenProperties DEF IInv, SoleInv, BoundInv
  <2>2. CASE task[t].to = Mac(i)
    <3>1. Counted(task[t], Mac(i)) /\ Ahead(task[t], Mac(i)) /\ ~Ahead(r, Mac(i))
      BY <1>1, <1>4, <2>2 DEF Counted, Ahead, Sending
    <3>2. peers.tx[i] = Len(old) + 1 /\ task[t].counter = peers.tx[i]
      BY <1>1, <3>1 DEF IInv, SoleInv
    <3>3. given'[Mac(i)] = Append(old, sent)
      BY <1>5, <2>2
    <3> HIDE DEF old
    <3>4. /\ Len(given'[Mac(i)]) = Len(old) + 1
          /\ \A c \in 1 .. Len(old) : given'[Mac(i)][c] = old[c]
          /\ given'[Mac(i)][Len(old) + 1] = sent
      BY <1>3, <2>1, <3>3, AppendProperties
    <3>5. \A c \in 1 .. Len(given'[Mac(i)]) : given'[Mac(i)][c].counter = c
      <4> TAKE c \in 1 .. Len(given'[Mac(i)])
      <4>1. c \in 1 .. Len(old) \/ c = Len(old) + 1
        BY <2>1, <3>4
      <4>2. QED
        BY <1>3, <2>1, <3>2, <3>4, <4>1
    <3>6. QED
      BY <1>2, <2>1, <3>1, <3>2, <3>4, <3>5
  <2>3. CASE task[t].to # Mac(i)
    <3>1. given'[Mac(i)] = old
      BY <1>5, <1>9, <2>3
    <3>2. ~Counted(task[t], Mac(i))
      BY <2>3 DEF Counted
    <3>3. peers.tx[i] = Len(old)
      BY <3>2 DEF IInv, SoleInv
    <3>4. Ahead(r, Mac(i)) => Ahead(task[t], Mac(i))
      BY <1>1, <1>4 DEF Ahead
    <3> HIDE DEF old
    <3>5. QED
      BY <1>2, <2>1, <3>1, <3>3, <3>4
  <2>4. QED
    BY <2>2, <2>3
<1>11. t = "main" => \A i \in Sole : peers'.tx[i] = peers.tx[i] /\ given'[Mac(i)] = given[Mac(i)]
  BY <1>1, <1>2, <1>5, <1>9
<1>12. QED
  BY <1>1, <1>2, <1>4, <1>6, <1>8, <1>10, <1>11, StepInv

LEMMA NextAddressInv ==
  ASSUME IInv, NEW t \in Tasks, NextAddress(t)
  PROVE  IInv'
<1>1. /\ task[t] \in TaskType /\ task[t].stage = "send"
      /\ t = "main" => task[t].todo \subseteq MainTargets
  BY DEF IInv, NextAddress, At, TaskOK, MainOK
<1>2. PICK m \in task[t].todo :
        task' = [task EXCEPT ![t].to = m, ![t].todo = @ \ {m},
                             ![t].stage = "find", ![t].goal = "count"]
  BY DEF NextAddress
<1> DEFINE r == [task[t] EXCEPT !.to = m, !.todo = @ \ {m}, !.stage = "find", !.goal = "count"]
<1>3. /\ peers' = peers /\ cs' = cs /\ pit' = pit /\ given' = given
      /\ got' = got /\ arrivals' = arrivals
      /\ task' = [task EXCEPT ![t] = r]
  BY <1>1, <1>2 DEF NextAddress, tables, bounds, IInv
<1>4. /\ r \in TaskType /\ r.to = m /\ r.todo = task[t].todo \ {m}
      /\ r.stage = "find" /\ r.goal = "count" /\ m \in Nodes
  BY <1>1 DEF TaskType
<1> HIDE DEF r
<1>5. TaskOK(r)
  BY <1>4 DEF TaskOK, Using
<1>6. t = "main" => MainOK(r)
  BY <1>1, <1>4 DEF MainOK
<1>7. \A x : ~Counted(r, x) /\ ~Counted(task[t], x) /\ (Ahead(r, x) => Ahead(task[t], x))
  BY <1>1, <1>4 DEF Counted, Ahead, Sending
<1>8. t = "radio" => SoleInv(r, peers.tx, given) /\ BoundInv(r, given, arrivals)
  <2> SUFFICES ASSUME t = "radio" PROVE SoleInv(r, peers.tx, given) /\ BoundInv(r, given, arrivals)
    OBVIOUS
  <2>1. SoleInv(r, peers.tx, given)
    BY <1>4, <1>7 DEF IInv, SoleInv
  <2>2. BoundInv(r, given, arrivals)
    BY <1>7 DEF IInv, BoundInv
  <2>3. QED
    BY <2>1, <2>2
<1>9. r.stage # "idle" => task[t].stage # "idle"
  BY <1>1
<1>10. QED
  BY <1>3, <1>5, <1>6, <1>8, <1>9, LocalStepInv

LEMMA FinishInv ==
  ASSUME IInv, NEW t \in Tasks, Finish(t)
  PROVE  IInv'
<1>1. task[t].stage = "send"
  BY DEF Finish, At
<1>2. /\ peers' = peers /\ cs' = cs /\ pit' = pit /\ given' = given /\ arrivals' = arrivals
      /\ task' = [task EXCEPT ![t] = Idle]
      /\ got' = IF t = "radio" THEN Nothing ELSE got
  BY DEF Finish, tables, bounds
<1>3. PeersInv' /\ StoreInv'
  BY <1>2 DEF IInv, PeersInv, StoreInv
<1>4. task'[t] = Idle /\ \A u \in Tasks \ {t} : task'[u] = task[u]
  BY <1>2, IdleTask, TaskStep
<1>5. GotInv'
  <2>1. CASE t = "radio"
    BY <1>2, <1>4, <2>1, SlotTypes DEF IInv, GotInv, Nothing, Idle
  <2>2. CASE t = "main"
    BY <1>2, <1>4, <2>2, GotKept DEF Tasks
  <2>3. QED
    BY <2>1, <2>2 DEF Tasks
<1>6. t = "radio" => SoleInv(Idle, peers'.tx, given') /\ BoundInv(Idle, given', arrivals')
  <2>1. Idle.stage = "idle" /\ \A m : ~Counted(Idle, m) /\ ~Ahead(Idle, m)
    BY IdleTask DEF Idle
  <2>2. ASSUME t = "radio" PROVE \A m : ~Counted(task["radio"], m)
    BY <1>1, <2>2 DEF Counted
  <2>3. QED
    BY <1>2, <2>1, <2>2 DEF IInv, SoleInv, BoundInv
<1>7. QED
  BY <1>2, <1>3, <1>5, <1>6, IdleTask, StepInv

LEMMA SendStepInv ==
  ASSUME IInv, NEW t \in Tasks, SendStep(t)
  PROVE  IInv'
BY FindInv, ClaimInv, ReadTxInv, StoreTxInv, ReturnTxInv, SignInv, NextAddressInv, FinishInv
DEF SendStep

-----------------------------------------------------------------------------
(* The steps of processReceivedPacket.                                     *)

LEMMA ArriveInv ==
  ASSUME IInv, NEW m \in Nodes, NEW c \in 1 .. MaxArrivals, NEW far, NEW p \in Packets,
         Arrive(m, c, far, p)
  PROVE  IInv'
<1> DEFINE r == [Idle EXCEPT !.stage = "find", !.goal = "verify", !.to = m]
<1>1. /\ peers' = peers /\ cs' = cs /\ pit' = pit /\ given' = given
      /\ task' = [task EXCEPT !["radio"] = r]
      /\ got' = [from |-> m, counter |-> c, far |-> far, packet |-> p]
      /\ arrivals' = arrivals + 1 /\ arrivals < MaxArrivals
      /\ task["radio"].stage = "idle" /\ "radio" \in Tasks
  BY DEF Arrive, At, tables, Tasks
<1>2. /\ r \in TaskType /\ r.stage = "find" /\ r.goal = "verify" /\ r.to = m
  BY SlotTypes DEF TaskType, Idle, Using
<1> HIDE DEF r
<1>3. TaskOK(r)
  <2>1. ~Sending(r)
    BY <1>2 DEF Sending
  <2>2. QED
    BY <1>2, <2>1 DEF TaskOK, Using
<1>4. PeersInv' /\ StoreInv'
  BY <1>1 DEF IInv, PeersInv, StoreInv
<1>5. GotInv'
  <2>1. arrivals \in Nat /\ MaxArrivals \in Nat /\ MaxArrivals < CounterModulus
        /\ CounterModulus \in Nat
    BY TasksAssumption, PeerAssumption DEF IInv, GotInv
  <2>2. c \in Counters /\ c # 0
    BY <2>1 DEF Counters
  <2>3. arrivals' \in Nat /\ arrivals' <= MaxArrivals
    BY <1>1, <2>1
  <2>4. QED
    BY <1>1, <2>2, <2>3 DEF GotInv
<1>6. SoleInv(r, peers'.tx, given')
  <2>1. \A x : ~Counted(task["radio"], x) /\ ~Counted(r, x)
    BY <1>1, <1>2 DEF Counted
  <2>2. QED
    BY <1>1, <1>2, <2>1 DEF IInv, SoleInv
<1>7. BoundInv(r, given', arrivals')
  <2> SUFFICES ASSUME NEW i \in Sole
               PROVE  Len(given[Mac(i)]) <= arrivals + 1 /\ Len(given[Mac(i)]) + 1 <= arrivals + 1
    BY <1>1 DEF BoundInv
  <2>1. Len(given[Mac(i)]) \in Nat
    BY KnownSlotsAre, LenProperties DEF Sole, IInv, StoreInv
  <2>2. Len(given[Mac(i)]) <= arrivals /\ arrivals \in Nat
    BY DEF IInv, BoundInv, GotInv
  <2>3. QED
    BY <2>1, <2>2
<1>8. QED
  BY <1>1, <1>3, <1>4, <1>5, <1>6, <1>7, StepInv

\* The Wi-Fi task goes on within one handler, from before it has sent anything.
LEMMA RadioGoInv ==
  ASSUME IInv, NEW r \in TaskType, task' = [task EXCEPT !["radio"] = r],
         task["radio"].stage \in RadioStages \cup {"verify", "check"},
         \/ r.stage \in RadioStages \cup {"send"}
         \/ r.stage = "find" /\ r.goal = "check" /\ r.to \in Nodes,
         PeersInv', peers'.tx = peers.tx, StoreInv',
         given' = given, got' = got, arrivals' = arrivals
  PROVE  IInv'
<1>1. "radio" \in Tasks /\ TaskOK(task["radio"])
  BY DEF Tasks, IInv
<1>2. /\ ~Sending(r) /\ ~Sending(task["radio"])
      /\ r.stage \notin {"claim", "idle", "store", "return", "sign"} \cup Using
  BY DEF Sending, RadioStages, Using
<1>3. r.stage = "find" => r.goal \in Using /\ r.to \in Nodes
  BY DEF RadioStages, Using
<1>4. TaskOK(r)
  BY <1>2, <1>3 DEF TaskOK
<1>5. \A m : /\ ~Counted(r, m) /\ ~Counted(task["radio"], m)
            /\ Ahead(task["radio"], m)
  <2>1. task["radio"].stage \notin {"idle", "send", "return", "sign", "find"}
    BY DEF RadioStages
  <2>2. r.stage \notin {"return", "sign"} /\ ~(r.stage = "find" /\ r.goal = "sign")
    <3>1. r.stage # "find" \/ r.goal = "check"
      BY DEF RadioStages
    <3>2. QED
      BY <1>2, <3>1
  <2>3. QED
    BY <1>2, <2>1, <2>2 DEF Counted, Ahead
<1>6. SoleInv(r, peers'.tx, given') /\ BoundInv(r, given', arrivals')
  BY <1>2, <1>5, SoleWaiting
<1>7. task'["radio"] = r
  BY <1>1, <1>4 DEF IInv
<1>8. GotInv'
  <2>1. task["radio"].stage # "idle"
    BY DEF RadioStages
  <2>2. QED
    BY <1>7, <2>1, GotKept
<1>9. QED
  BY <1>1, <1>4, <1>6, <1>8, StepInv

LEMMA VerifyInv ==
  ASSUME IInv, Verify
  PROVE  IInv'
<1> DEFINE r == [task["radio"] EXCEPT !.stage = "find", !.goal = "check"]
<1>1. /\ task["radio"] \in TaskType /\ task["radio"].stage = "verify"
      /\ task["radio"].to \in Nodes
  BY DEF IInv, Verify, At, TaskOK, Using, Tasks
<1>2. /\ peers' = peers /\ cs' = cs /\ pit' = pit /\ given' = given
      /\ got' = got /\ arrivals' = arrivals
      /\ task' = [task EXCEPT !["radio"] = r]
  BY <1>1 DEF Verify, tables, bounds, IInv
<1>3. r \in TaskType /\ r.stage = "find" /\ r.goal = "check" /\ r.to \in Nodes
  BY <1>1 DEF TaskType
<1> HIDE DEF r
<1>4. PeersInv' /\ StoreInv' /\ peers'.tx = peers.tx
  BY <1>2 DEF IInv, PeersInv, StoreInv
<1>5. task["radio"].stage \in RadioStages \cup {"verify", "check"}
  BY <1>1
<1>6. QED
  BY <1>2, <1>3, <1>4, <1>5, RadioGoInv

\* The Wi-Fi task begins to send, or drops the packet.
LEMMA RadioSendInv ==
  ASSUME IInv, NEW R \in SUBSET Nodes, NEW p \in Packets, SendTo("radio", R, p),
         peers' = peers, cs' = cs, pit' = pit, given' = given, got' = got, arrivals' = arrivals,
         task["radio"].stage \in RadioStages \cup {"check"}
  PROVE  IInv'
<1>1. \A m : ~Counted(task["radio"], m) /\ Ahead(task["radio"], m)
  <2>1. task["radio"].stage \notin {"idle", "send", "return", "sign", "find", "claim", "count", "store"}
    BY DEF RadioStages
  <2>2. QED
    BY <2>1 DEF Counted, Ahead, Sending
<1>2. task["radio"].stage # "idle" /\ "radio" \in Tasks /\ "radio" # "main"
  BY DEF RadioStages, Tasks
<1>3. QED
  BY <1>1, <1>2, SendInv

LEMMA CheckRxInv ==
  ASSUME IInv, CheckRx
  PROVE  IInv'
<1> DEFINE i == task["radio"].slot
           ok == got.counter = Bump(peers.rx[i])
<1>1. /\ task["radio"] \in TaskType /\ task["radio"].stage = "check" /\ i \in PeerSlots
      /\ got.counter \in Counters
  BY DEF IInv, CheckRx, At, TaskOK, Using, Tasks, GotInv
<1>2. cs' = cs /\ pit' = pit /\ given' = given /\ got' = got /\ arrivals' = arrivals
  BY DEF CheckRx, bounds
<1>3. CASE ok
  <2> DEFINE r == [task["radio"] EXCEPT !.stage = IF Kind = "INTEREST" THEN "cs_find" ELSE "pit_find"]
  <2>1. task' = [task EXCEPT !["radio"] = r]
    BY <1>1, <1>3 DEF CheckRx, Go, IInv
  <2>2. r \in TaskType /\ r.stage \in RadioStages
    BY <1>1 DEF TaskType, RadioStages
  <2> HIDE DEF r
  <2>3. /\ peers' \in TableType /\ peers'.mac = peers.mac /\ peers'.tx = peers.tx
    <3>1. peers \in TableType
      BY DEF IInv, PeersInv
    <3>2. peers' = [ mac |-> peers.mac, tx |-> peers.tx,
                     rx |-> [peers.rx EXCEPT ![i] = got.counter], key |-> peers.key ]
      BY <1>3, <3>1 DEF CheckRx, TableType
    <3> HIDE DEF i
    <3>3. QED
      BY <1>1, <3>1, <3>2 DEF TableType
  <2>4. PeersInv' /\ StoreInv'
    BY <1>2, <2>3 DEF IInv, PeersInv, StoreInv
  <2>5. task["radio"].stage \in RadioStages \cup {"verify", "check"}
    BY <1>1
  <2>6. QED
    BY <1>2, <2>1, <2>2, <2>3, <2>4, <2>5, RadioGoInv
<1>4. CASE ~ok
  <2>1. SendTo("radio", {}, NoPacket) /\ peers' = peers
    BY <1>4 DEF CheckRx, Drop
  <2>2. NoPacket \in Packets /\ task["radio"].stage \in RadioStages \cup {"check"}
    BY <1>1, SlotTypes
  <2>3. QED
    BY <1>2, <2>1, <2>2, RadioSendInv
<1>5. QED
  BY <1>3, <1>4

\* The searches and look-ups of the content store, the PIT and the FIB.
LEMMA HandlerInv ==
  ASSUME IInv, CsFind \/ CsGet \/ PitSave \/ FibGet \/ PitFind \/ PitGet \/ PitRemove \/ CsSave
  PROVE  IInv'
<1>1. /\ given' = given /\ got' = got /\ arrivals' = arrivals /\ peers' = peers
      /\ task["radio"].stage \in RadioStages /\ task["radio"].stage # "idle"
  BY DEF CsFind, CsGet, PitSave, FibGet, PitFind, PitGet, PitRemove, CsSave, tables, bounds,
         RadioStages, At
<1>2. task["radio"] \in TaskType /\ "radio" \in Tasks
  BY DEF IInv, Tasks
<1>3. got.from \in Nodes /\ got.packet \in Packets /\ Name \in Names
      /\ got.packet.content \in Contents \cup {NoContent}
  BY <1>1 DEF IInv, GotInv, Name, Packets
<1>4. /\ cs \in [Names -> Contents \cup {NoContent}] /\ pit \in [Names -> SUBSET Nodes]
      /\ PeersInv' /\ peers'.tx = peers.tx
  BY <1>1 DEF IInv, StoreInv, PeersInv
<1>5. ASSUME NEW s \in RadioStages \cup {"send"}, Go("radio", s), StoreInv'
      PROVE  IInv'
  <2> DEFINE r == [task["radio"] EXCEPT !.stage = s]
  <2>1. task' = [task EXCEPT !["radio"] = r]
    BY <1>2, <1>5 DEF Go, IInv
  <2>2. r \in TaskType /\ r.stage \in RadioStages \cup {"send"}
    BY <1>2, <1>5 DEF TaskType
  <2> HIDE DEF r
  <2>3. QED
    BY <1>1, <1>4, <1>5, <2>1, <2>2, RadioGoInv
<1>6. ASSUME NEW R \in SUBSET Nodes, NEW p \in Packets, SendTo("radio", R, p),
             cs' = cs, pit' = pit
      PROVE  IInv'
  BY <1>1, <1>6, RadioSendInv
<1>7. cs' = cs /\ pit' = pit => StoreInv'
  BY <1>1 DEF IInv, StoreInv
<1>8. CASE CsFind \/ PitFind
  <2>1. cs' = cs /\ pit' = pit
    BY <1>8 DEF CsFind, PitFind, tables
  <2>2. CASE Drop("radio")
    BY <1>6, <2>1, <2>2, SlotTypes DEF Drop
  <2>3. CASE ~Drop("radio")
    <3>1. Go("radio", "cs_get") \/ Go("radio", "pit_save") \/ Go("radio", "pit_get")
      BY <1>8, <2>3 DEF CsFind, PitFind
    <3>2. QED
      BY <1>5, <1>7, <2>1, <3>1 DEF RadioStages
  <2>4. QED
    BY <2>2, <2>3
<1>9. CASE CsGet
  <2>1. [kind |-> "DATA", name |-> Name, content |-> cs[Name]] \in Packets
    BY <1>3, <1>4, PacketTypes
  <2>2. QED
    BY <1>3, <1>6, <1>9, <2>1 DEF CsGet, tables
<1>10. CASE FibGet
  <2>1. /\ [kind |-> "INTEREST", name |-> Name, content |-> NoContent] \in Packets
        /\ NextHops[Name] \in SUBSET Nodes
    BY <1>3, PacketTypes, TasksAssumption
  <2>2. QED
    BY <1>6, <1>10, <2>1 DEF FibGet, tables
<1>11. CASE PitSave
  <2>1. pit' \in [Names -> SUBSET Nodes] /\ cs' = cs
    BY <1>3, <1>4, <1>11 DEF PitSave
  <2>2. QED
    BY <1>1, <1>5, <1>11, <2>1 DEF PitSave, RadioStages, IInv, StoreInv
<1>12. CASE PitRemove
  <2>1. pit' \in [Names -> SUBSET Nodes] /\ cs' = cs
    BY <1>3, <1>4, <1>12 DEF PitRemove
  <2>2. QED
    BY <1>1, <1>5, <1>12, <2>1 DEF PitRemove, RadioStages, IInv, StoreInv
<1>13. CASE CsSave
  <2>1. cs' \in [Names -> Contents \cup {NoContent}] /\ pit' = pit
    BY <1>3, <1>4, <1>13 DEF CsSave
  <2>2. QED
    BY <1>1, <1>5, <1>13, <2>1 DEF CsSave, IInv, StoreInv
<1>14. CASE PitGet
  <2> DEFINE r == [task["radio"] EXCEPT !.stage = "pit_remove", !.todo = pit[Name], !.packet = got.packet]
  <2>1. task' = [task EXCEPT !["radio"] = r] /\ cs' = cs /\ pit' = pit
    BY <1>2, <1>14 DEF PitGet, IInv, tables
  <2>2. r \in TaskType /\ r.stage \in RadioStages \cup {"send"}
    BY <1>2, <1>3, <1>4 DEF TaskType, RadioStages
  <2> HIDE DEF r
  <2>3. QED
    BY <1>1, <1>4, <1>7, <2>1, <2>2, RadioGoInv
<1>15. QED
  BY <1>8, <1>9, <1>10, <1>11, <1>12, <1>13, <1>14

-----------------------------------------------------------------------------
(* The commands.                                                           *)

LEMMA SendInterestInv ==
  ASSUME IInv, NEW m \in MainTargets, NEW n \in Names, SendInterest(m, n)
  PROVE  IInv'
<1> DEFINE p == [kind |-> "INTEREST", name |-> n, content |-> NoContent]
           R == {m}
           r == [Idle EXCEPT !.stage = "send", !.todo = R, !.packet = p]
<1>1. /\ peers' = peers /\ cs' = cs /\ pit' = pit /\ given' = given /\ got' = got
      /\ arrivals' = arrivals /\ "main" \in Tasks
      /\ task' = [task EXCEPT !["main"] = r]
  BY DEF SendInterest, Command, SendTo, tables, Tasks
<1>2. p \in Packets /\ R \in SUBSET Nodes /\ R \subseteq MainTargets
  BY PacketTypes, TasksAssumption
<1>3. TaskOK(r) /\ MainOK(r)
  <2> HIDE DEF p, R
  <2>1. QED
    BY <1>2, SendingTask
<1> HIDE DEF r
<1>4. PeersInv' /\ StoreInv'
  BY <1>1 DEF IInv, PeersInv, StoreInv
<1>5. task'["radio"] = task["radio"]
  BY <1>1, <1>3, TaskStep DEF Tasks
<1>6. GotInv'
  BY <1>1, <1>5, GotKept
<1>7. QED
  BY <1>1, <1>3, <1>4, <1>6, StepInv

LEMMA ClearInv ==
  ASSUME IInv, ReadSensor \/ ClearCs \/ ClearPit
  PROVE  IInv'
<1>1. /\ peers' = peers /\ given' = given /\ got' = got /\ arrivals' = arrivals
      /\ "main" \in Tasks
  BY DEF ReadSensor, ClearCs, ClearPit, Command, tables, bounds, Tasks
<1>2. PeersInv'
  BY <1>1 DEF IInv, PeersInv
<1>3. StoreInv'
  <2>1. cs' \in [Names -> Contents \cup {NoContent}] /\ pit' \in [Names -> SUBSET Nodes]
    BY TasksAssumption DEF ReadSensor, ClearCs, ClearPit, IInv, StoreInv
  <2>2. QED
    BY <1>1, <2>1 DEF IInv, StoreInv
<1>4. PICK s \in {"idle", "clear_pit"} :
        task' = [task EXCEPT !["main"] = [task["main"] EXCEPT !.stage = s]]
  <2>1. CASE ReadSensor
    <3>1. task["main"] \in TaskType /\ task["main"].stage = "idle"
      BY <1>1, <2>1 DEF IInv, ReadSensor, Command, At
    <3>2. task["main"] = [task["main"] EXCEPT !.stage = "idle"]
      BY <3>1 DEF TaskType
    <3>3. task' = [task EXCEPT !["main"] = task["main"]]
      BY <1>1, <2>1 DEF IInv, ReadSensor
    <3>4. QED
      BY <3>2, <3>3
  <2>2. CASE ClearCs \/ ClearPit
    <3>1. Go("main", "clear_pit") \/ Go("main", "idle")
      BY <2>2 DEF ClearCs, ClearPit
    <3>2. QED
      BY <1>1, <3>1 DEF Go, IInv
  <2>3. QED
    BY <2>1, <2>2
<1> DEFINE r == [task["main"] EXCEPT !.stage = s]
<1>5. /\ r \in TaskType /\ r.stage \in {"idle", "clear_pit"} /\ r.todo = task["main"].todo
      /\ task["main"].todo \subseteq MainTargets
  BY <1>1 DEF IInv, TaskType, MainOK
<1>6. task' = [task EXCEPT !["main"] = r]
  BY <1>4
<1> HIDE DEF r
<1>7. TaskOK(r) /\ MainOK(r)
  <2>1. r.stage \notin {"find", "claim"} \cup Using /\ ~Sending(r)
    BY <1>5 DEF Sending, Using
  <2>2. QED
    BY <1>5, <2>1 DEF TaskOK, MainOK
<1>8. task'["radio"] = task["radio"]
  BY <1>1, <1>6, <1>7, TaskStep DEF Tasks
<1>9. GotInv'
  BY <1>1, <1>8, GotKept
<1>10. QED
  BY <1>1, <1>2, <1>3, <1>6, <1>7, <1>9, StepInv

-----------------------------------------------------------------------------
(* Theorems.                                                               *)

LEMMA StepsKeepInv == IInv /\ [Next]_vars => IInv'
<1> SUFFICES ASSUME IInv, [Next]_vars PROVE IInv'
  OBVIOUS
<1>1. "radio" \in Tasks /\ "main" \in Tasks
  BY DEF Tasks
<1>2. CASE RadioStep
  BY <1>1, <1>2, SendStepInv, VerifyInv, CheckRxInv, HandlerInv DEF RadioStep
<1>3. CASE MainStep
  BY <1>1, <1>3, SendStepInv, ClearInv DEF MainStep
<1>4. ASSUME NEW m \in Askers, NEW c \in 1 .. MaxArrivals, NEW n \in Names, NEW far \in BOOLEAN,
             Arrive(m, c, far, [kind |-> "INTEREST", name |-> n, content |-> NoContent])
      PROVE  IInv'
  <2>1. /\ m \in Nodes
        /\ [kind |-> "INTEREST", name |-> n, content |-> NoContent] \in Packets
    BY TasksAssumption, PacketTypes
  <2>2. QED
    BY <1>4, <2>1, ArriveInv
<1>5. ASSUME NEW m \in Producers, NEW c \in 1 .. MaxArrivals, NEW n \in Names, NEW x \in Contents,
             Arrive(m, c, FALSE, [kind |-> "DATA", name |-> n, content |-> x])
      PROVE  IInv'
  <2>1. m \in Nodes /\ [kind |-> "DATA", name |-> n, content |-> x] \in Packets
    BY TasksAssumption, PacketTypes
  <2>2. QED
    BY <1>5, <2>1, ArriveInv
<1>6. ASSUME NEW m \in MainTargets, NEW n \in Names, SendInterest(m, n)
      PROVE  IInv'
  BY <1>6, SendInterestInv
<1>7. CASE ReadSensor \/ ClearCs
  BY <1>7, ClearInv
<1>8. CASE UNCHANGED vars
  <2>1. /\ peers' = peers /\ cs' = cs /\ pit' = pit /\ task' = task /\ got' = got
        /\ given' = given /\ arrivals' = arrivals
    BY <1>8 DEF vars
  <2>2. PeersInv' /\ GotInv' /\ StoreInv'
    BY <2>1 DEF IInv, PeersInv, GotInv, StoreInv
  <2>3. QED
    BY <2>1, <2>2 DEF IInv
<1>9. QED
  BY <1>2, <1>3, <1>4, <1>5, <1>6, <1>7, <1>8 DEF Next

LEMMA InvTypeOK == IInv => TypeOK
<1> SUFFICES ASSUME IInv PROVE TypeOK
  OBVIOUS
<1>1. ASSUME NEW t \in Tasks
      PROVE  /\ task[t].to \in Nodes \cup {NoNode} /\ task[t].todo \subseteq Nodes
             /\ task[t].old \in Counters /\ task[t].counter \in Counters
             /\ task[t].packet \in Packets
             /\ task[t].stage \in {"claim"} \cup Using => task[t].slot \in PeerSlots /\ task[t].to \in Nodes
  <2>1. task[t] \in TaskType /\ TaskOK(task[t])
    BY DEF IInv
  <2>2. QED
    BY <2>1 DEF TaskType, TaskOK
<1>2. /\ peers \in TableType /\ cs \in [Names -> Contents \cup {NoContent}]
      /\ pit \in [Names -> SUBSET Nodes]
      /\ got.counter \in Counters /\ got.packet \in Packets
      /\ given \in [Nodes -> Seq([counter : Counters, packet : Packets])]
  BY DEF IInv, PeersInv, GotInv, StoreInv
<1>3. QED
  BY <1>1, <1>2 DEF TypeOK, Using

LEMMA InvSoleSenderCounts == IInv => SoleSenderCounts
<1> SUFFICES ASSUME IInv, NEW m \in Known \ MainTargets, NEW c \in DOMAIN given[m]
             PROVE  given[m][c].counter = c
  BY DEF SoleSenderCounts
<1>1. PICK i \in KnownSlots : m = Mac(i)
  BY KnownSlotsAre
<1>2. i \in Sole /\ m \in Nodes
  BY <1>1, KnownSlotsAre DEF Sole
<1>3. given[m] \in Seq([counter : Counters, packet : Packets])
  BY <1>2 DEF IInv, StoreInv
<1>4. c \in 1 .. Len(given[m])
  BY <1>3, LenProperties
<1>5. QED
  BY <1>1, <1>2, <1>4 DEF IInv, SoleInv

\* The two writes to the counters of what was accepted, and to the addresses.
LEMMA StepKeepsKnown ==
  ASSUME IInv, [Next]_vars, NEW i \in KnownSlots
  PROVE  peers'.mac[i] = peers.mac[i] /\ peers'.rx[i] >= peers.rx[i]
<1>1. peers \in TableType /\ i \in PeerSlots /\ peers.rx[i] \in Counters /\ peers.rx[i] \in Int
  BY KnownSlotsAre, PeerAssumption DEF IInv, PeersInv, TableType, Counters
<1>2. CASE peers'.mac = peers.mac /\ peers'.rx = peers.rx
  BY <1>1, <1>2
<1>3. ASSUME NEW t \in Tasks, Claim(t)
      PROVE  peers'.mac[i] = peers.mac[i] /\ peers'.rx[i] = peers.rx[i]
  <2>1. task[t].slot \notin KnownSlots
    BY <1>3 DEF IInv, TaskOK, Claim, At
  <2>2. QED
    BY <1>1, <1>3, <2>1 DEF Claim, TableType
<1>4. ASSUME CheckRx PROVE peers'.mac[i] = peers.mac[i] /\ peers'.rx[i] >= peers.rx[i]
  <2>1. CASE task["radio"].slot # i \/ got.counter # Bump(peers.rx[i])
    BY <1>1, <1>4, <2>1 DEF CheckRx, TableType
  <2>2. CASE task["radio"].slot = i /\ got.counter = Bump(peers.rx[i])
    <3>1. peers'.mac[i] = peers.mac[i] /\ peers'.rx[i] = got.counter
      BY <1>1, <1>4, <2>2 DEF CheckRx, TableType
    <3>2. got.counter # 0
      BY <1>4 DEF CheckRx, At, IInv, GotInv
    <3>3. QED
      BY <1>1, <2>2, <3>1, <3>2, BumpUp
  <2>3. QED
    BY <2>1, <2>2
<1>5. ASSUME NEW t \in Tasks, StoreTx(t)
      PROVE  peers'.mac = peers.mac /\ peers'.rx = peers.rx
  BY <1>1, <1>5 DEF StoreTx, TableType
<1>6. \/ peers' = peers
      \/ \E t \in Tasks : Claim(t) \/ StoreTx(t)
      \/ CheckRx
  <2>1. ASSUME NEW t \in Tasks, SendStep(t)
        PROVE  peers' = peers \/ Claim(t) \/ StoreTx(t)
    BY <2>1 DEF SendStep, Find, ReadTx, ReturnTx, Sign, NextAddress, Finish, tables
  <2>2. CASE RadioStep
    BY <2>1, <2>2 DEF RadioStep, Tasks, Verify, CsFind, CsGet, PitSave, FibGet, PitFind, PitGet,
       PitRemove, CsSave, tables
  <2>3. CASE MainStep
    BY <2>1, <2>3 DEF MainStep, Tasks, ClearPit
  <2>4. CASE UNCHANGED vars
    BY <2>4 DEF vars
  <2>5. QED
    BY <2>2, <2>3, <2>4 DEF Next, Arrive, SendInterest, ReadSensor, ClearCs, tables
<1>7. QED
  BY <1>2, <1>3, <1>4, <1>5, <1>6, <1>1

-----------------------------------------------------------------------------
(* What the Wi-Fi task owes.                                               *)

\* The stages from the Interest that was accepted to its answer, or to the PIT.
Asking == {"cs_find", "cs_get", "pit_save"}

\* Whom the packet of a task may still be sent to.
Reach(r, m) == m \in r.todo \/ (Sending(r) /\ m = r.to)

\* The packet in hand leads to Data of name n for m: it is an Interest that is not yet
\* answered or noted, or Data that is not yet given to the radio.
Owes(r, g, m, n) ==
  \/ r.stage \in Asking /\ m = g.from /\ n = g.packet.name
  \/ r.packet.kind = "DATA" /\ r.packet.name = n /\ Reach(r, m)

\* The PIT promises m Data of n; of an entry just looked up it no longer does.
Waits(r, g, q, m, n) == m \in q[n] /\ ~(r.stage = "pit_remove" /\ n = g.packet.name)

One(x) == IF x THEN 1 ELSE 0

\* Data is in hand only while it is sent, or on its way from the PIT to the store.
PacketInv(r, g) ==
  /\ r.stage \in {"pit_find", "pit_get", "pit_remove", "cs_save"} => g.packet.kind = "DATA"
  /\ g.packet.kind = "DATA" => g.packet.content \in Contents
  /\ r.stage \in {"pit_remove", "cs_save"} => r.packet = g.packet
  /\ r.packet.kind = "DATA" => Sending(r) \/ r.stage \in {"send", "pit_remove", "cs_save"}

EmptyInv(r, g, c, o) ==
  /\ r.packet.kind = "DATA" /\ r.packet.content = NoContent => o
  /\ r.stage = "cs_get" /\ c[g.packet.name] = NoContent => o

\* Every Interest accepted is answered, or noted in the PIT, or in hand, at most once.
AskedInv ==
  /\ asked \in [Nodes -> [Names -> Nat]]
  /\ \A m \in Nodes, n \in Names :
       Answers(m, n) + One(Owes(task["radio"], got, m, n))
         + One(Waits(task["radio"], got, pit, m, n)) <= asked[m][n]

OwingInv ==
  /\ PacketInv(task["radio"], got) /\ EmptyInv(task["radio"], got, cs, overtaken) /\ AskedInv
  /\ task["main"].packet.kind = "INTEREST"

DataIn(s, n) == {i \in DOMAIN s : s[i].packet.kind = "DATA" /\ s[i].packet.name = n}

LEMMA DataInFinite ==
  ASSUME NEW T, NEW s \in Seq(T), NEW n
  PROVE  IsFiniteSet(DataIn(s, n)) /\ Cardinality(DataIn(s, n)) \in Nat
<1>1. DOMAIN s = 1 .. Len(s) /\ Len(s) \in Nat
  BY LenProperties
<1>2. IsFiniteSet(1 .. Len(s))
  BY <1>1, FS_Interval
<1>3. DataIn(s, n) \subseteq 1 .. Len(s)
  BY <1>1 DEF DataIn
<1>4. IsFiniteSet(DataIn(s, n))
  BY <1>2, <1>3, FS_Subset
<1>5. QED
  BY <1>4, FS_CardinalityType

\* One more packet is one more Data of its name, if it is Data.
LEMMA DataInAppend ==
  ASSUME NEW T, NEW s \in Seq(T), NEW e \in T, NEW n
  PROVE  /\ e.packet.kind = "DATA" /\ e.packet.name = n =>
              Cardinality(DataIn(Append(s, e), n)) = Cardinality(DataIn(s, n)) + 1
         /\ ~(e.packet.kind = "DATA" /\ e.packet.name = n) =>
              Cardinality(DataIn(Append(s, e), n)) = Cardinality(DataIn(s, n))
<1> DEFINE u == Append(s, e)
           k == Len(s) + 1
<1>1. /\ DOMAIN s = 1 .. Len(s) /\ Len(s) \in Nat
      /\ DOMAIN u = 1 .. k /\ u[k] = e /\ \A i \in 1 .. Len(s) : u[i] = s[i]
  BY LenProperties, AppendProperties
<1>2. /\ 1 .. k = (1 .. Len(s)) \cup {k} /\ k \notin 1 .. Len(s)
  BY <1>1
<1>3. IsFiniteSet(DataIn(s, n)) /\ Cardinality(DataIn(s, n)) \in Nat
  BY DataInFinite
<1> HIDE DEF u, k
<1>4. k \notin DataIn(s, n)
  BY <1>1, <1>2 DEF DataIn
<1>5. CASE e.packet.kind = "DATA" /\ e.packet.name = n
  <2>1. DataIn(u, n) = DataIn(s, n) \cup {k}
    BY <1>1, <1>2, <1>5 DEF DataIn
  <2>2. Cardinality(DataIn(u, n)) = Cardinality(DataIn(s, n)) + 1
    BY <1>3, <1>4, <2>1, FS_AddElement
  <2>3. QED
    BY <1>5, <2>2 DEF u
<1>6. CASE ~(e.packet.kind = "DATA" /\ e.packet.name = n)
  <2>1. DataIn(u, n) = DataIn(s, n)
    BY <1>1, <1>2, <1>6 DEF DataIn
  <2>2. QED
    BY <1>6, <2>1 DEF u
<1>7. QED
  BY <1>5, <1>6

LEMMA AnswersAre ==
  ASSUME StoreInv, NEW m \in Nodes, NEW n
  PROVE  Answers(m, n) = Cardinality(DataIn(given[m], n)) /\ Answers(m, n) \in Nat
<1>1. given[m] \in Seq([counter : Counters, packet : Packets])
  BY DEF StoreInv
<1>2. Cardinality(DataIn(given[m], n)) \in Nat
  BY <1>1, DataInFinite
<1>3. QED
  BY <1>2 DEF Answers, DataIn

\* A step that neither accepts an Interest nor hands over Data, and owes no more.
LEMMA AskedKept ==
  ASSUME StoreInv, StoreInv', AskedInv, asked' = asked,
         \A m \in Nodes, n \in Names : Answers(m, n)' = Answers(m, n),
         \A m \in Nodes, n \in Names :
           LET o1 == Owes(task["radio"], got, m, n)
               w1 == Waits(task["radio"], got, pit, m, n)
               o2 == Owes(task'["radio"], got', m, n)
               w2 == Waits(task'["radio"], got', pit', m, n)
           IN  (o2 \/ w2 => o1 \/ w1) /\ (o2 /\ w2 => o1 /\ w1)
  PROVE  AskedInv'
<1>1. asked' \in [Nodes -> [Names -> Nat]]
  BY DEF AskedInv
<1>2. ASSUME NEW m \in Nodes, NEW n \in Names
      PROVE  Answers(m, n)' + One(Owes(task'["radio"], got', m, n))
               + One(Waits(task'["radio"], got', pit', m, n)) <= asked'[m][n]
  <2> DEFINE o1 == Owes(task["radio"], got, m, n)
             w1 == Waits(task["radio"], got, pit, m, n)
             o2 == Owes(task'["radio"], got', m, n)
             w2 == Waits(task'["radio"], got', pit', m, n)
  <2>1. (o2 \/ w2 => o1 \/ w1) /\ (o2 /\ w2 => o1 /\ w1)
    OBVIOUS
  <2>2. Answers(m, n) + One(o1) + One(w1) <= asked[m][n] /\ asked[m][n] \in Nat
    BY DEF AskedInv
  <2>3. Answers(m, n) \in Nat
    BY AnswersAre
  <2>4. Answers(m, n)' = Answers(m, n) /\ asked'[m][n] = asked[m][n]
    OBVIOUS
  <2> HIDE DEF o1, w1, o2, w2
  <2>5. One(o2) + One(w2) <= One(o1) + One(w1) /\ One(o1) \in 0 .. 1 /\ One(o2) \in 0 .. 1
        /\ One(w1) \in 0 .. 1 /\ One(w2) \in 0 .. 1
    BY <2>1 DEF One
  <2>6. Answers(m, n) + One(o2) + One(w2) <= asked[m][n]
    BY <2>2, <2>3, <2>5
  <2>7. QED
    BY <2>4, <2>6 DEF o2, w2
<1>3. QED
  BY <1>1, <1>2 DEF AskedInv

\* While a task sends a packet it reaches nobody else with it.
LEMMA SendShape ==
  ASSUME IInv, NEW t \in Tasks,
         Find(t) \/ Claim(t) \/ ReadTx(t) \/ StoreTx(t) \/ ReturnTx(t) \/ NextAddress(t)
  PROVE  /\ cs' = cs /\ pit' = pit /\ given' = given /\ got' = got /\ asked' = asked
         /\ overtaken' = overtaken
         /\ \A u \in Tasks \ {t} : task'[u] = task[u]
         /\ task'[t].packet = task[t].packet
         /\ task[t].stage \notin RadioStages /\ task'[t].stage \notin RadioStages
         /\ Sending(task[t]) \/ task[t].stage = "send"
              => Sending(task'[t]) \/ task'[t].stage = "send"
         /\ \A m : Reach(task'[t], m) => Reach(task[t], m)
<1>1. /\ cs' = cs /\ pit' = pit /\ given' = given /\ got' = got /\ asked' = asked
      /\ overtaken' = overtaken
  BY DEF Find, Claim, ReadTx, StoreTx, ReturnTx, NextAddress, tables, bounds
<1>2. task[t] \in TaskType /\ TaskOK(task[t])
  BY DEF IInv
<1> DEFINE Shape(r) ==
      /\ r.packet = task[t].packet
      /\ r.stage \notin RadioStages
      /\ Sending(task[t]) \/ task[t].stage = "send" => Sending(r) \/ r.stage = "send"
      /\ \A m : Reach(r, m) => Reach(task[t], m)
<1>3. /\ task[t].stage \notin RadioStages
      /\ task[t].stage \in {"find", "claim"} => task[t].goal \in {"verify", "check", "count", "sign"}
  BY <1>2 DEF Find, Claim, ReadTx, StoreTx, ReturnTx, NextAddress, At, RadioStages, TaskOK, TaskType,
     Using
<1>4. SUFFICES ASSUME NEW r, task' = [task EXCEPT ![t] = r], Shape(r)
               PROVE  /\ \A u \in Tasks \ {t} : task'[u] = task[u]
                      /\ Shape(task'[t])
  <2>1. \E r : task' = [task EXCEPT ![t] = r] /\ Shape(r)
    <3>1. ASSUME NEW R, NEW s \in {"verify", "check", "count", "sign", "claim"},
                 Find(t) \/ Claim(t), R = [task[t] EXCEPT !.slot = R.slot, !.stage = s],
                 s = task[t].goal \/ (s = "claim" /\ Find(t)),
                 task' = [task EXCEPT ![t] = R]
          PROVE  \E r : task' = [task EXCEPT ![t] = r] /\ Shape(r)
      <4>1. /\ R.packet = task[t].packet /\ R.stage = s /\ R.todo = task[t].todo
            /\ R.to = task[t].to /\ R.goal = task[t].goal
        BY <1>2, <3>1 DEF TaskType
      <4>2. task[t].stage \in {"find", "claim"}
        BY <3>1 DEF Find, Claim, At
      <4>3. Sending(R) <=> Sending(task[t])
        BY <1>3, <3>1, <4>1, <4>2 DEF Sending
      <4>4. Shape(R)
        BY <3>1, <4>1, <4>2, <4>3 DEF Reach, RadioStages
      <4>5. QED
        BY <3>1, <4>4
    <3>2. CASE Find(t)
      <4> DEFINE own == FindPeer(peers, task[t].to)
                 free == FindPeer(peers, NoNode)
      <4>1. CASE own = NoSlot /\ free = NoSlot
        <5> DEFINE r == [Idle EXCEPT !.stage = "send", !.todo = task[t].todo, !.packet = task[t].packet]
        <5>1. task' = [task EXCEPT ![t] = r]
          BY <3>2, <4>1 DEF Find, GoOn, SendTo
        <5>2. r.stage = "send" /\ r.todo = task[t].todo /\ r.packet = task[t].packet
          BY DEF Idle
        <5> HIDE DEF r
        <5>3. Shape(r)
          BY <5>2 DEF RadioStages, Reach, Sending
        <5>4. QED
          BY <5>1, <5>3
      <4>2. CASE ~(own = NoSlot /\ free = NoSlot)
        <5> DEFINE s == IF own # NoSlot THEN task[t].goal ELSE "claim"
                   R == [task[t] EXCEPT !.slot = IF own # NoSlot THEN own ELSE free, !.stage = s]
        <5>1. task' = [task EXCEPT ![t] = R]
          BY <1>2, <3>2, <4>2 DEF Find, IInv
        <5>2. task[t].goal \in {"verify", "check", "count", "sign"}
          BY <1>3, <3>2 DEF Find, At
        <5> HIDE DEF own, free
        <5>3. R = [task[t] EXCEPT !.slot = R.slot, !.stage = s]
          BY <1>2 DEF TaskType
        <5>4. s \in {"verify", "check", "count", "sign", "claim"} /\ (s = task[t].goal \/ s = "claim")
          BY <5>2
        <5> HIDE DEF s, R
        <5>5. QED
          BY <3>1, <3>2, <5>1, <5>3, <5>4
      <4>3. QED
        BY <4>1, <4>2
    <3>3. CASE Claim(t)
      <4> DEFINE R == [task[t] EXCEPT !.stage = task[t].goal]
      <4>1. task' = [task EXCEPT ![t] = R]
        BY <1>2, <3>3 DEF Claim, Go, IInv
      <4>2. task[t].goal \in {"verify", "check", "count", "sign"}
        BY <1>3, <3>3 DEF Claim, At
      <4>3. R = [task[t] EXCEPT !.slot = R.slot, !.stage = task[t].goal]
        BY <1>2 DEF TaskType
      <4> HIDE DEF R
      <4>4. QED
        BY <3>1, <3>3, <4>1, <4>2, <4>3
    <3>4. CASE ReadTx(t)
      <4> DEFINE r == [task[t] EXCEPT !.stage = "store", !.old = peers.tx[task[t].slot]]
      <4>1. task' = [task EXCEPT ![t] = r] /\ task[t].stage = "count"
        BY <1>2, <3>4 DEF ReadTx, At, IInv
      <4>2. /\ r.stage = "store" /\ r.packet = task[t].packet
            /\ r.todo = task[t].todo /\ r.to = task[t].to
        BY <1>2 DEF TaskType
      <4> HIDE DEF r
      <4>3. Shape(r)
        BY <4>1, <4>2 DEF RadioStages, Reach, Sending
      <4>4. QED
        BY <4>1, <4>3
    <3>5. CASE StoreTx(t)
      <4> DEFINE r == [task[t] EXCEPT !.stage = "return"]
      <4>1. task' = [task EXCEPT ![t] = r] /\ task[t].stage = "store"
        BY <1>2, <3>5 DEF StoreTx, Go, At, IInv
      <4>2. /\ r.stage = "return" /\ r.packet = task[t].packet
            /\ r.todo = task[t].todo /\ r.to = task[t].to
        BY <1>2 DEF TaskType
      <4> HIDE DEF r
      <4>3. Shape(r)
        BY <4>1, <4>2 DEF RadioStages, Reach, Sending
      <4>4. QED
        BY <4>1, <4>3
    <3>6. CASE ReturnTx(t)
      <4>1. PICK c : task' = [task EXCEPT ![t].counter = c, ![t].stage = "find", ![t].goal = "sign"]
        BY <3>6 DEF ReturnTx
      <4> DEFINE r == [task[t] EXCEPT !.counter = c, !.stage = "find", !.goal = "sign"]
      <4>2. task' = [task EXCEPT ![t] = r] /\ task[t].stage = "return"
        BY <1>2, <3>6, <4>1 DEF ReturnTx, At, IInv
      <4>3. /\ r.stage = "find" /\ r.goal = "sign" /\ r.packet = task[t].packet
            /\ r.todo = task[t].todo /\ r.to = task[t].to
        BY <1>2 DEF TaskType
      <4> HIDE DEF r
      <4>4. Shape(r)
        BY <4>2, <4>3 DEF RadioStages, Reach, Sending
      <4>5. QED
        BY <4>2, <4>4
    <3>7. CASE NextAddress(t)
      <4>1. PICK m \in task[t].todo :
              task' = [task EXCEPT ![t].to = m, ![t].todo = @ \ {m},
                                   ![t].stage = "find", ![t].goal = "count"]
        BY <3>7 DEF NextAddress
      <4> DEFINE r == [task[t] EXCEPT !.to = m, !.todo = @ \ {m}, !.stage = "find", !.goal = "count"]
      <4>2. task' = [task EXCEPT ![t] = r] /\ task[t].stage = "send"
        BY <1>2, <3>7, <4>1 DEF NextAddress, At, IInv
      <4>3. /\ r.stage = "find" /\ r.goal = "count" /\ r.packet = task[t].packet
            /\ r.todo = task[t].todo \ {m} /\ r.to = m
        BY <1>2 DEF TaskType
      <4> HIDE DEF r
      <4>4. Shape(r)
        BY <4>1, <4>2, <4>3 DEF RadioStages, Reach, Sending
      <4>5. QED
        BY <4>2, <4>4
    <3>8. QED
      BY <3>2, <3>3, <3>4, <3>5, <3>6, <3>7
  <2> HIDE DEF Shape
  <2>2. QED
    BY <1>1, <1>3, <2>1 DEF Shape
<1>5. task'[t] = r /\ \A u \in Tasks \ {t} : task'[u] = task[u]
  BY <1>4 DEF IInv
<1> HIDE DEF Shape
<1>6. QED
  BY <1>4, <1>5

LEMMA AnswersSame ==
  ASSUME NEW m \in Nodes, given'[m] = given[m], NEW n
  PROVE  Answers(m, n)' = Answers(m, n)
BY DEF Answers

\* A step of the main loop that hands over no Data, and promises none.
LEMMA MainOwing ==
  ASSUME StoreInv, StoreInv', OwingInv, task'["radio"] = task["radio"], got' = got, asked' = asked,
         \A n \in Names : pit'[n] \subseteq pit[n],
         \A m \in Nodes, n \in Names : Answers(m, n)' = Answers(m, n),
         task'["main"].packet.kind = "INTEREST",
         EmptyInv(task["radio"], got, cs', overtaken')
  PROVE  OwingInv'
<1>1. AskedInv'
  <2>1. \A m \in Nodes, n \in Names :
           LET o1 == Owes(task["radio"], got, m, n)
               w1 == Waits(task["radio"], got, pit, m, n)
               o2 == Owes(task'["radio"], got', m, n)
               w2 == Waits(task'["radio"], got', pit', m, n)
           IN  (o2 \/ w2 => o1 \/ w1) /\ (o2 /\ w2 => o1 /\ w1)
    BY DEF Waits
  <2>2. QED
    BY <2>1, AskedKept DEF OwingInv
<1>2. QED
  BY <1>1 DEF OwingInv

\* A step of the Wi-Fi task that hands over no Data.
LEMMA RadioOwing ==
  ASSUME StoreInv, StoreInv', OwingInv, task'["main"] = task["main"],
         given' = given, asked' = asked,
         PacketInv(task'["radio"], got'), EmptyInv(task'["radio"], got', cs', overtaken'),
         \A m \in Nodes, n \in Names :
           LET o1 == Owes(task["radio"], got, m, n)
               w1 == Waits(task["radio"], got, pit, m, n)
               o2 == Owes(task'["radio"], got', m, n)
               w2 == Waits(task'["radio"], got', pit', m, n)
           IN  (o2 \/ w2 => o1 \/ w1) /\ (o2 /\ w2 => o1 /\ w1)
  PROVE  OwingInv'
<1>1. \A m \in Nodes, n \in Names : Answers(m, n)' = Answers(m, n)
  BY AnswersSame
<1>2. AskedInv'
  BY <1>1, AskedKept DEF OwingInv
<1>3. QED
  BY <1>2 DEF OwingInv

LEMMA SendShapeOwing ==
  ASSUME IInv, IInv', OwingInv, NEW t \in Tasks,
         Find(t) \/ Claim(t) \/ ReadTx(t) \/ StoreTx(t) \/ ReturnTx(t) \/ NextAddress(t)
  PROVE  OwingInv'
<1>1. /\ cs' = cs /\ pit' = pit /\ given' = given /\ got' = got /\ asked' = asked
      /\ overtaken' = overtaken
      /\ \A u \in Tasks \ {t} : task'[u] = task[u]
      /\ task'[t].packet = task[t].packet
      /\ task[t].stage \notin RadioStages /\ task'[t].stage \notin RadioStages
      /\ Sending(task[t]) \/ task[t].stage = "send"
           => Sending(task'[t]) \/ task'[t].stage = "send"
      /\ \A m : Reach(task'[t], m) => Reach(task[t], m)
  BY SendShape
<1>2. StoreInv /\ StoreInv'
  BY DEF IInv
<1>3. CASE t = "main"
  <2>1. task'["radio"] = task["radio"] /\ task'["main"].packet.kind = "INTEREST"
    BY <1>1, <1>3 DEF Tasks, OwingInv
  <2>2. \A m \in Nodes, n \in Names : Answers(m, n)' = Answers(m, n)
    BY <1>1, AnswersSame
  <2>3. EmptyInv(task["radio"], got, cs', overtaken')
    BY <1>1 DEF OwingInv
  <2>4. QED
    BY <1>1, <1>2, <2>1, <2>2, <2>3, MainOwing
<1>4. CASE t = "radio"
  <2> DEFINE r == task["radio"]
             z == task'["radio"]
  <2>1. /\ z.packet = r.packet /\ r.stage \notin RadioStages /\ z.stage \notin RadioStages
        /\ Sending(r) \/ r.stage = "send" => Sending(z) \/ z.stage = "send"
        /\ \A m : Reach(z, m) => Reach(r, m)
    BY <1>1, <1>4
  <2>2. task'["main"] = task["main"]
    BY <1>1, <1>4 DEF Tasks
  <2> HIDE DEF z, r
  <2>3. PacketInv(z, got')
    BY <1>1, <2>1 DEF OwingInv, PacketInv, RadioStages, r
  <2>4. EmptyInv(z, got', cs', overtaken')
    BY <1>1, <2>1 DEF OwingInv, EmptyInv, RadioStages, r
  <2>5. \A m, n : (Owes(z, got', m, n) => Owes(r, got, m, n))
    BY <1>1, <2>1 DEF Owes, Asking, RadioStages
  <2>6. \A m, n : (Waits(z, got', pit', m, n) <=> Waits(r, got, pit, m, n))
    BY <1>1, <2>1 DEF Waits, RadioStages
  <2>7. QED
    BY <1>1, <1>2, <2>2, <2>3, <2>4, <2>5, <2>6, RadioOwing DEF z, r
<1>5. QED
  BY <1>3, <1>4 DEF Tasks

\* The one step that hands a packet to the radio.
LEMMA SignOwing ==
  ASSUME IInv, IInv', OwingInv, NEW t \in Tasks, Sign(t)
  PROVE  OwingInv'
<1> DEFINE to == task[t].to
           p == task[t].packet
           sent == [counter |-> task[t].counter, packet |-> p]
           r == [Idle EXCEPT !.stage = "send", !.todo = task[t].todo, !.packet = p]
<1>1. /\ task[t] \in TaskType /\ TaskOK(task[t]) /\ task[t].stage = "sign"
      /\ to \in Nodes /\ to \notin task[t].todo
      /\ sent \in [counter : Counters, packet : Packets] /\ sent.packet = p
  BY DEF IInv, Sign, At, TaskOK, Sending, Using, TaskType
<1>2. /\ cs' = cs /\ pit' = pit /\ got' = got /\ asked' = asked /\ overtaken' = overtaken
      /\ given' = [given EXCEPT ![to] = Append(given[to], sent)]
      /\ task' = [task EXCEPT ![t] = r]
  BY DEF Sign, tables, bounds, GoOn, SendTo
<1>3. StoreInv /\ StoreInv' /\ given \in [Nodes -> Seq([counter : Counters, packet : Packets])]
  BY DEF IInv, StoreInv
<1>4. r.stage = "send" /\ r.todo = task[t].todo /\ r.packet = p
  BY DEF Idle
<1> HIDE DEF r, sent
<1>5. task'[t] = r /\ \A u \in Tasks \ {t} : task'[u] = task[u]
  BY <1>2 DEF IInv
<1>6. ASSUME NEW m \in Nodes, NEW n \in Names
      PROVE  Answers(m, n)' = Answers(m, n) + One(p.kind = "DATA" /\ p.name = n /\ m = to)
  <2>1. /\ Answers(m, n) = Cardinality(DataIn(given[m], n)) /\ Answers(m, n) \in Nat
        /\ Answers(m, n)' = Cardinality(DataIn(given'[m], n))
    BY <1>3, AnswersAre DEF Answers, DataIn
  <2>2. CASE m = to
    <3>1. given'[m] = Append(given[m], sent) /\ given[m] \in Seq([counter : Counters, packet : Packets])
      BY <1>1, <1>2, <1>3, <2>2
    <3> DEFINE T == [counter : Counters, packet : Packets]
               old == given[m]
    <3>2. old \in Seq(T) /\ sent \in T
      BY <1>1, <3>1
    <3> HIDE DEF T, old
    <3>3. /\ sent.packet.kind = "DATA" /\ sent.packet.name = n =>
               Cardinality(DataIn(Append(old, sent), n)) = Cardinality(DataIn(old, n)) + 1
          /\ ~(sent.packet.kind = "DATA" /\ sent.packet.name = n) =>
               Cardinality(DataIn(Append(old, sent), n)) = Cardinality(DataIn(old, n))
      BY <3>2, DataInAppend
    <3>4. /\ Answers(m, n)' = Cardinality(DataIn(Append(old, sent), n))
          /\ Answers(m, n) = Cardinality(DataIn(old, n))
      BY <2>1, <3>1 DEF old
    <3>5. QED
      BY <1>1, <2>1, <2>2, <3>3, <3>4 DEF One
  <2>3. CASE m # to
    BY <1>1, <1>2, <1>3, <2>1, <2>3 DEF One
  <2>4. QED
    BY <2>2, <2>3
<1>7. CASE t = "main"
  <2>1. task'["radio"] = task["radio"] /\ task'["main"].packet.kind = "INTEREST" /\ p.kind # "DATA"
    BY <1>4, <1>5, <1>7 DEF Tasks, OwingInv
  <2>2. \A m \in Nodes, n \in Names : Answers(m, n)' = Answers(m, n)
    <3> TAKE m \in Nodes, n \in Names
    <3>1. Answers(m, n) \in Nat
      BY <1>3, AnswersAre
    <3>2. QED
      BY <1>6, <2>1, <3>1 DEF One
  <2>3. EmptyInv(task["radio"], got, cs', overtaken')
    BY <1>2 DEF OwingInv
  <2>4. QED
    BY <1>2, <1>3, <2>1, <2>2, <2>3, MainOwing
<1>8. CASE t = "radio"
  <2>1. /\ task'["radio"] = r /\ task'["main"] = task["main"]
        /\ ~Sending(r) /\ Sending(task["radio"]) /\ p = task["radio"].packet
        /\ task["radio"].stage = "sign"
    BY <1>1, <1>4, <1>5, <1>8 DEF Tasks, Sending
  <2>2. PacketInv(r, got)
    BY <1>4, <2>1 DEF OwingInv, PacketInv
  <2>3. EmptyInv(r, got, cs, overtaken)
    BY <1>4, <2>1 DEF OwingInv, EmptyInv
  <2>4. ASSUME NEW m \in Nodes, NEW n \in Names
        PROVE  Answers(m, n)' + One(Owes(r, got, m, n)) + One(Waits(r, got, pit, m, n)) <= asked[m][n]
    <3> DEFINE gives == p.kind = "DATA" /\ p.name = n /\ m = to
               o1 == Owes(task["radio"], got, m, n)
               o2 == Owes(r, got, m, n)
               w1 == Waits(task["radio"], got, pit, m, n)
               w2 == Waits(r, got, pit, m, n)
    <3>1. Answers(m, n) + One(o1) + One(w1) <= asked[m][n] /\ asked[m][n] \in Nat
      BY DEF OwingInv, AskedInv
    <3>2. Answers(m, n) \in Nat /\ Answers(m, n)' = Answers(m, n) + One(gives)
      BY <1>3, <1>6, AnswersAre
    <3>3. w2 <=> w1
      BY <1>4, <2>1 DEF Waits
    <3>4. (gives => o1 /\ ~o2) /\ (o2 => o1)
      BY <1>1, <1>4, <1>8, <2>1 DEF Owes, Reach, Asking
    <3> HIDE DEF gives, o1, o2, w1, w2
    <3>5. One(gives) + One(o2) + One(w2) <= One(o1) + One(w1)
      BY <3>3, <3>4 DEF One
    <3>6. One(gives) \in Nat /\ One(o1) \in Nat /\ One(o2) \in Nat /\ One(w1) \in Nat /\ One(w2) \in Nat
      BY DEF One
    <3>7. Answers(m, n)' + One(o2) + One(w2) <= asked[m][n]
      BY <3>1, <3>2, <3>5, <3>6
    <3>8. QED
      BY <3>7 DEF o2, w2
  <2>5. AskedInv'
    BY <1>2, <2>1, <2>4 DEF OwingInv, AskedInv
  <2>6. QED
    BY <1>2, <2>1, <2>2, <2>3, <2>5 DEF OwingInv
<1>9. QED
  BY <1>7, <1>8 DEF Tasks

LEMMA FinishOwing ==
  ASSUME IInv, IInv', OwingInv, NEW t \in Tasks, Finish(t)
  PROVE  OwingInv'
<1>1. /\ task[t].stage = "send" /\ cs' = cs /\ pit' = pit /\ given' = given /\ asked' = asked
      /\ got' = IF t = "radio" THEN Nothing ELSE got
      /\ overtaken' = (overtaken /\ t # "radio")
      /\ task' = [task EXCEPT ![t] = Idle]
  BY DEF Finish, At, tables, bounds
<1>2. StoreInv /\ StoreInv' /\ task'[t] = Idle /\ \A u \in Tasks \ {t} : task'[u] = task[u]
  BY <1>1 DEF IInv
<1>3. Idle.packet.kind = "INTEREST" /\ Idle.stage = "idle" /\ Nothing.packet.kind = "INTEREST"
  BY DEF Idle, NoPacket, Nothing
<1>4. CASE t = "main"
  <2>1. task'["radio"] = task["radio"] /\ task'["main"] = Idle /\ got' = got
    BY <1>1, <1>2, <1>4 DEF Tasks
  <2>2. \A m \in Nodes, n \in Names : Answers(m, n)' = Answers(m, n)
    BY <1>1, AnswersSame
  <2>3. EmptyInv(task["radio"], got, cs', overtaken')
    BY <1>1, <1>4 DEF OwingInv, EmptyInv
  <2>4. QED
    BY <1>1, <1>2, <1>3, <2>1, <2>2, <2>3, MainOwing
<1>5. CASE t = "radio"
  <2>1. task'["radio"] = Idle /\ task'["main"] = task["main"] /\ got' = Nothing
    BY <1>1, <1>2, <1>5 DEF Tasks
  <2>2. PacketInv(Idle, Nothing) /\ EmptyInv(Idle, Nothing, cs', overtaken')
    BY <1>3 DEF PacketInv, EmptyInv
  <2>3. \A m, n : ~Owes(Idle, Nothing, m, n)
    BY <1>3 DEF Owes, Asking
  <2>4. \A m, n : Waits(Idle, Nothing, pit', m, n) => Waits(task["radio"], got, pit, m, n)
    BY <1>1, <1>5 DEF Waits
  <2>5. QED
    BY <1>1, <1>2, <2>1, <2>2, <2>3, <2>4, RadioOwing
<1>6. QED
  BY <1>4, <1>5 DEF Tasks

LEMMA ArriveOwing ==
  ASSUME IInv, IInv', OwingInv, NEW m, NEW c, NEW far, NEW p,
         p.kind = "DATA" => p.content \in Contents, Arrive(m, c, far, p)
  PROVE  OwingInv'
<1> DEFINE r == [Idle EXCEPT !.stage = "find", !.goal = "verify", !.to = m]
           g == [from |-> m, counter |-> c, far |-> far, packet |-> p]
<1>1. /\ cs' = cs /\ pit' = pit /\ given' = given /\ asked' = asked /\ overtaken' = overtaken
      /\ got' = g /\ task' = [task EXCEPT !["radio"] = r] /\ task["radio"].stage = "idle"
  BY DEF Arrive, At, tables
<1>2. StoreInv /\ StoreInv' /\ task'["radio"] = r /\ task'["main"] = task["main"]
  BY <1>1 DEF IInv, Tasks
<1>3. r.packet.kind = "INTEREST" /\ r.stage = "find" /\ g.packet = p
  BY DEF Idle, NoPacket
<1> HIDE DEF r, g
<1>4. PacketInv(r, g) /\ EmptyInv(r, g, cs', overtaken')
  BY <1>3 DEF PacketInv, EmptyInv
<1>5. \A q, n : ~Owes(r, g, q, n)
  BY <1>3 DEF Owes, Asking
<1>6. \A q, n : Waits(r, g, pit', q, n) => Waits(task["radio"], got, pit, q, n)
  BY <1>1 DEF Waits
<1>7. QED
  BY <1>1, <1>2, <1>4, <1>5, <1>6, RadioOwing

\* The packet in hand is accepted, or dropped.
LEMMA CheckOwing ==
  ASSUME IInv, IInv', OwingInv, Verify \/ CheckRx
  PROVE  OwingInv'
<1> DEFINE r == task["radio"]
           z == task'["radio"]
           ok == got.counter = Bump(peers.rx[r.slot])
<1>1. /\ cs' = cs /\ pit' = pit /\ given' = given /\ overtaken' = overtaken /\ got' = got
      /\ r \in TaskType /\ r.stage \in {"verify", "check"}
      /\ StoreInv /\ StoreInv' /\ r.packet.kind # "DATA"
  BY DEF Verify, CheckRx, At, tables, bounds, IInv, Tasks, OwingInv, PacketInv, Sending
<1>2. /\ task'["main"] = task["main"]
      /\ z.packet.kind # "DATA"
      /\ z.stage \in {"find", "send", "cs_find", "pit_find"}
      /\ z.stage = "cs_find" => CheckRx /\ ok /\ Kind = "INTEREST"
      /\ z.stage = "pit_find" => CheckRx /\ ok /\ Kind # "INTEREST"
  <2>1. CASE Verify
    <3>1. z = [r EXCEPT !.stage = "find", !.goal = "check"] /\ task'["main"] = task["main"]
      BY <1>1, <2>1 DEF Verify, IInv, Tasks
    <3>2. QED
      BY <1>1, <3>1 DEF TaskType
  <2>2. CASE CheckRx /\ ok
    <3>1. z = [r EXCEPT !.stage = IF Kind = "INTEREST" THEN "cs_find" ELSE "pit_find"]
          /\ task'["main"] = task["main"]
      BY <1>1, <2>2 DEF CheckRx, Go, IInv, Tasks
    <3>2. QED
      BY <1>1, <2>2, <3>1 DEF TaskType
  <2>3. CASE CheckRx /\ ~ok
    <3>1. z = [Idle EXCEPT !.stage = "send", !.todo = {}, !.packet = NoPacket]
          /\ task'["main"] = task["main"]
      BY <1>1, <2>3 DEF CheckRx, Drop, SendTo, IInv, Tasks
    <3>2. QED
      BY <3>1 DEF Idle, NoPacket
  <2>4. QED
    BY <1>1, <2>1, <2>2, <2>3
<1>3. Kind \in {"INTEREST", "DATA"} /\ Name \in Names
  BY DEF IInv, GotInv, Kind, Name, Packets
<1>4. \A m \in Nodes, n \in Names : Answers(m, n)' = Answers(m, n)
  BY <1>1, AnswersSame
<1>5. PacketInv(z, got) /\ EmptyInv(z, got, cs', overtaken')
  BY <1>1, <1>2, <1>3 DEF OwingInv, PacketInv, EmptyInv, Kind
<1>6. CASE asked' = asked /\ z.stage # "cs_find"
  <2>1. \A m, n : ~Owes(z, got, m, n)
    BY <1>2, <1>6 DEF Owes, Asking
  <2>2. \A m, n : Waits(z, got, pit', m, n) => Waits(r, got, pit, m, n)
    BY <1>1 DEF Waits
  <2> HIDE DEF z, r
  <2>3. QED
    BY <1>1, <1>2, <1>5, <1>6, <2>1, <2>2, RadioOwing DEF z, r
<1>7. CASE CheckRx /\ ok /\ Kind = "INTEREST"
  <2>1. /\ asked' = [asked EXCEPT ![got.from][Name] = @ + 1]
        /\ got.from \in Nodes /\ asked \in [Nodes -> [Names -> Nat]]
    BY <1>1, <1>7 DEF CheckRx, IInv, GotInv, OwingInv, AskedInv
  <2>2. /\ asked' \in [Nodes -> [Names -> Nat]]
        /\ \A m \in Nodes, n \in Names :
             asked'[m][n] = IF m = got.from /\ n = Name THEN asked[m][n] + 1 ELSE asked[m][n]
    <3> DEFINE row == [asked[got.from] EXCEPT ![Name] = @ + 1]
    <3>1. asked' = [asked EXCEPT ![got.from] = row]
      BY <2>1
    <3>2. asked[got.from] \in [Names -> Nat]
      BY <2>1
    <3>3. /\ row \in [Names -> Nat]
          /\ \A n \in Names : row[n] = IF n = Name THEN asked[got.from][n] + 1 ELSE asked[got.from][n]
      BY <1>3, <3>2
    <3> HIDE DEF row
    <3>4. QED
      BY <2>1, <3>1, <3>3
  <2>3. ASSUME NEW m \in Nodes, NEW n \in Names
        PROVE  Answers(m, n)' + One(Owes(z, got, m, n)) + One(Waits(z, got, pit, m, n)) <= asked'[m][n]
    <3> DEFINE o1 == Owes(r, got, m, n)
               o2 == Owes(z, got, m, n)
               w1 == Waits(r, got, pit, m, n)
               w2 == Waits(z, got, pit, m, n)
    <3>1. /\ Answers(m, n) + One(o1) + One(w1) <= asked[m][n] /\ asked[m][n] \in Nat
          /\ Answers(m, n) \in Nat /\ Answers(m, n)' = Answers(m, n)
      BY <1>1, <1>4, AnswersAre DEF OwingInv, AskedInv
    <3>2. ~o1 /\ (o2 => m = got.from /\ n = Name)
      BY <1>1, <1>2 DEF Owes, Asking, Name
    <3>3. w2 <=> w1
      BY <1>1, <1>2 DEF Waits
    <3> HIDE DEF o1, o2, w1, w2
    <3>4. One(o1) = 0 /\ One(w2) = One(w1) /\ One(w1) \in Nat
      BY <3>2, <3>3 DEF One
    <3>5. One(o2) \in 0 .. 1 /\ (One(o2) = 1 => m = got.from /\ n = Name)
      BY <3>2 DEF One
    <3>6. Answers(m, n)' + One(o2) + One(w2) <= asked'[m][n]
      BY <2>2, <3>1, <3>4, <3>5
    <3>7. QED
      BY <3>6 DEF o2, w2
  <2>4. AskedInv'
    BY <1>1, <2>2, <2>3 DEF AskedInv
  <2>5. QED
    BY <1>1, <1>2, <1>5, <2>4 DEF OwingInv
<1>8. QED
  <2>1. CASE Verify
    <3>1. asked' = asked /\ z.stage # "cs_find"
      BY <1>2, <2>1, <1>1 DEF Verify, CheckRx, At
    <3>2. QED
      BY <1>6, <3>1
  <2>2. CASE CheckRx
    BY <1>2, <1>6, <1>7, <2>2 DEF CheckRx
  <2>3. QED
    BY <2>1, <2>2

\* The searches and look-ups of the content store, the PIT and the FIB.
LEMMA HandlerOwing ==
  ASSUME IInv, IInv', OwingInv,
         CsFind \/ CsGet \/ PitSave \/ FibGet \/ PitFind \/ PitGet \/ PitRemove \/ CsSave
  PROVE  OwingInv'
<1> DEFINE r == task["radio"]
           z == task'["radio"]
           sent(R, p) == [Idle EXCEPT !.stage = "send", !.todo = R, !.packet = p]
<1>1. /\ given' = given /\ got' = got /\ asked' = asked
      /\ r \in TaskType /\ r.stage \in RadioStages /\ StoreInv /\ StoreInv'
      /\ Name \in Names /\ got.packet \in Packets /\ got.from \in Nodes
      /\ PacketInv(r, got) /\ EmptyInv(r, got, cs, overtaken)
  BY DEF CsFind, CsGet, PitSave, FibGet, PitFind, PitGet, PitRemove, CsSave, At, tables, bounds,
         IInv, Tasks, GotInv, Name, Packets, OwingInv, RadioStages
<1>2. task'["main"] = task["main"]
  BY DEF CsFind, CsGet, PitSave, FibGet, PitFind, PitGet, PitRemove, CsSave, Go, Drop, SendTo, IInv, Tasks
<1>3. \A R, p : /\ sent(R, p).stage = "send" /\ sent(R, p).todo = R /\ sent(R, p).packet = p
                /\ ~Sending(sent(R, p))
  BY DEF Idle, Sending
<1>4. /\ cs \in [Names -> Contents \cup {NoContent}] /\ pit \in [Names -> SUBSET Nodes]
      /\ NoPacket.kind = "INTEREST"
  BY <1>1 DEF StoreInv, NoPacket
<1>5. ASSUME NEW s, Go("radio", s)
      PROVE  z = [r EXCEPT !.stage = s] /\ z.stage = s /\ z.todo = r.todo /\ z.packet = r.packet
             /\ z.to = r.to /\ z.goal = r.goal
  BY <1>1, <1>5 DEF Go, IInv, Tasks, TaskType
<1>6. ASSUME NEW R, NEW p, SendTo("radio", R, p)
      PROVE  z.stage = "send" /\ z.todo = R /\ z.packet = p
  <2>1. z = sent(R, p)
    BY <1>6 DEF SendTo, IInv, Tasks
  <2> HIDE DEF sent
  <2>2. QED
    BY <1>3, <2>1
<1>7. ~Sending(r) /\ (r.packet.kind = "DATA" => r.stage \in {"pit_remove", "cs_save"})
  BY <1>1 DEF Sending, RadioStages, PacketInv
<1> HIDE DEF sent
<1>8. SUFFICES /\ PacketInv(z, got) /\ EmptyInv(z, got, cs', overtaken')
               /\ \A m \in Nodes, n \in Names :
                    LET o1 == Owes(r, got, m, n)
                        w1 == Waits(r, got, pit, m, n)
                        o2 == Owes(z, got, m, n)
                        w2 == Waits(z, got, pit', m, n)
                    IN  (o2 \/ w2 => o1 \/ w1) /\ (o2 /\ w2 => o1 /\ w1)
  <2>1. ASSUME PacketInv(z, got), EmptyInv(z, got, cs', overtaken'),
               \A m \in Nodes, n \in Names :
                    LET o1 == Owes(r, got, m, n)
                        w1 == Waits(r, got, pit, m, n)
                        o2 == Owes(z, got, m, n)
                        w2 == Waits(z, got, pit', m, n)
                    IN  (o2 \/ w2 => o1 \/ w1) /\ (o2 /\ w2 => o1 /\ w1)
        PROVE  OwingInv'
    BY <1>1, <1>2, <2>1, RadioOwing
  <2>2. QED
    BY <2>1
<1> HIDE DEF z, r
<1>9. CASE (CsFind \/ PitFind) /\ Drop("radio")
  <2>1. z.stage = "send" /\ z.packet.kind = "INTEREST"
    BY <1>4, <1>6, <1>9 DEF Drop
  <2>2. pit' = pit /\ r.stage \in {"cs_find", "pit_find"}
    BY <1>9 DEF CsFind, PitFind, tables, At, r
  <2>3. QED
    BY <1>1, <2>1, <2>2 DEF PacketInv, EmptyInv, Owes, Waits, Asking
<1>10. CASE CsFind /\ ~Drop("radio")
  <2>1. PICK s \in {"cs_get", "pit_save"} :
          Go("radio", s) /\ (s = "cs_get" => cs[Name] # NoContent)
    BY <1>10 DEF CsFind
  <2>2. z.stage = s /\ z.todo = r.todo /\ z.packet = r.packet /\ z.to = r.to /\ z.goal = r.goal
    BY <1>5, <2>1
  <2>3. pit' = pit /\ cs' = cs /\ r.stage = "cs_find"
    BY <1>10 DEF CsFind, tables, At, r
  <2>4. PacketInv(z, got) /\ EmptyInv(z, got, cs', overtaken')
    BY <1>1, <1>7, <2>1, <2>2, <2>3 DEF PacketInv, EmptyInv, Name
  <2>5. QED
    BY <1>7, <2>1, <2>2, <2>3, <2>4 DEF Owes, Waits, Asking
<1>11. CASE PitFind /\ ~Drop("radio")
  <2>1. Go("radio", "pit_get")
    BY <1>11 DEF PitFind
  <2>2. z.stage = "pit_get" /\ z.todo = r.todo /\ z.packet = r.packet /\ z.to = r.to /\ z.goal = r.goal
    BY <1>5, <2>1
  <2>3. pit' = pit /\ cs' = cs /\ r.stage = "pit_find"
    BY <1>11 DEF PitFind, tables, At, r
  <2>4. PacketInv(z, got) /\ EmptyInv(z, got, cs', overtaken')
    BY <1>1, <1>7, <2>2, <2>3 DEF PacketInv, EmptyInv
  <2>5. QED
    BY <1>7, <2>2, <2>3, <2>4 DEF Owes, Waits, Asking
<1>12. CASE CsGet
  <2>1. /\ z.stage = "send" /\ z.todo = {got.from}
        /\ z.packet = [kind |-> "DATA", name |-> Name, content |-> cs[Name]]
    BY <1>6, <1>12 DEF CsGet
  <2>2. pit' = pit /\ cs' = cs /\ overtaken' = overtaken /\ r.stage = "cs_get"
    BY <1>12 DEF CsGet, tables, At, r
  <2>3. z.packet.kind = "DATA" /\ z.packet.name = Name /\ z.packet.content = cs[Name]
    BY <2>1
  <2>4. PacketInv(z, got) /\ EmptyInv(z, got, cs', overtaken')
    BY <1>1, <2>1, <2>2, <2>3 DEF PacketInv, EmptyInv, Name
  <2>5. ~Sending(z)
    BY <2>1 DEF Sending
  <2>6. \A m, n : Owes(z, got, m, n) => Owes(r, got, m, n)
    BY <1>1, <2>1, <2>2, <2>3, <2>5 DEF Owes, Reach, Asking, Name
  <2>7. \A m, n : Waits(z, got, pit', m, n) <=> Waits(r, got, pit, m, n)
    BY <2>1, <2>2 DEF Waits
  <2>8. QED
    BY <2>4, <2>6, <2>7
<1>13. CASE FibGet
  <2>1. z.stage = "send" /\ z.packet.kind = "INTEREST"
    BY <1>6, <1>13 DEF FibGet
  <2>2. pit' = pit /\ r.stage = "fib_get"
    BY <1>13 DEF FibGet, tables, At, r
  <2>3. QED
    BY <1>1, <2>1, <2>2 DEF PacketInv, EmptyInv, Owes, Waits, Asking
<1>14. CASE PitSave
  <2>1. z.stage = "fib_get" /\ z.packet = r.packet
    BY <1>5, <1>14 DEF PitSave
  <2>2. pit' = [pit EXCEPT ![Name] = @ \cup {got.from}] /\ cs' = cs /\ r.stage = "pit_save"
    BY <1>14 DEF PitSave, At, r
  <2>3. PacketInv(z, got) /\ EmptyInv(z, got, cs', overtaken')
    BY <1>1, <1>7, <2>1, <2>2 DEF PacketInv, EmptyInv
  <2>4. \A m, n : ~Owes(z, got, m, n)
    BY <1>7, <2>1, <2>2 DEF Owes, Asking
  <2>5. \A m \in Nodes, n \in Names :
          Waits(z, got, pit', m, n) => Owes(r, got, m, n) \/ Waits(r, got, pit, m, n)
    BY <1>1, <1>4, <2>2 DEF Waits, Owes, Asking, Name
  <2>6. QED
    BY <2>3, <2>4, <2>5
<1>15. CASE PitGet
  <2>1. /\ z = [r EXCEPT !.stage = "pit_remove", !.todo = pit[Name], !.packet = got.packet]
        /\ pit' = pit /\ cs' = cs /\ r.stage = "pit_get" /\ got.packet.kind = "DATA"
        /\ got.packet.content \in Contents
    BY <1>1, <1>15 DEF PitGet, IInv, Tasks, tables, At, z, r, PacketInv
  <2>2. z.stage = "pit_remove" /\ z.todo = pit[Name] /\ z.packet = got.packet
    BY <1>1, <2>1 DEF TaskType
  <2>3. ~Sending(z)
    BY <2>2 DEF Sending
  <2>4. PacketInv(z, got) /\ EmptyInv(z, got, cs', overtaken')
    BY <2>1, <2>2, TasksAssumption DEF PacketInv, EmptyInv
  <2>5. \A m \in Nodes, n \in Names :
          /\ Owes(z, got, m, n) => Waits(r, got, pit, m, n) /\ ~Waits(z, got, pit', m, n)
          /\ Waits(z, got, pit', m, n) => Waits(r, got, pit, m, n)
    BY <2>1, <2>2, <2>3 DEF Owes, Waits, Reach, Asking, Name
  <2>6. QED
    BY <2>4, <2>5
<1>16. CASE PitRemove
  <2>1. z.stage = "cs_save" /\ z.todo = r.todo /\ z.packet = r.packet /\ z.to = r.to /\ z.goal = r.goal
    BY <1>5, <1>16 DEF PitRemove
  <2>2. /\ pit' = [pit EXCEPT ![Name] = {}] /\ cs' = cs /\ r.stage = "pit_remove"
        /\ overtaken' = overtaken
    BY <1>16 DEF PitRemove, At, r
  <2>3. PacketInv(z, got) /\ EmptyInv(z, got, cs', overtaken')
    BY <1>1, <2>1, <2>2 DEF PacketInv, EmptyInv
  <2>4. ~Sending(z)
    BY <2>1 DEF Sending
  <2>5. \A m, n : Owes(z, got, m, n) => Owes(r, got, m, n)
    BY <2>1, <2>2, <2>4 DEF Owes, Reach, Asking
  <2>6. \A m \in Nodes, n \in Names : Waits(z, got, pit', m, n) => Waits(r, got, pit, m, n)
    BY <1>1, <1>4, <2>2 DEF Waits, Name
  <2>7. QED
    BY <2>3, <2>5, <2>6
<1>17. CASE CsSave
  <2>1. z.stage = "send" /\ z.todo = r.todo /\ z.packet = r.packet /\ z.to = r.to /\ z.goal = r.goal
    BY <1>5, <1>17 DEF CsSave
  <2>2. pit' = pit /\ r.stage = "cs_save" /\ overtaken' = overtaken
    BY <1>17 DEF CsSave, At, r
  <2>3. PacketInv(z, got) /\ EmptyInv(z, got, cs', overtaken')
    BY <1>1, <2>1, <2>2 DEF PacketInv, EmptyInv
  <2>4. ~Sending(z)
    BY <2>1 DEF Sending
  <2>5. \A m, n : Owes(z, got, m, n) => Owes(r, got, m, n)
    BY <2>1, <2>2, <2>4 DEF Owes, Reach, Asking
  <2>6. \A m, n : Waits(z, got, pit', m, n) => Waits(r, got, pit, m, n)
    BY <2>1, <2>2 DEF Waits
  <2>7. QED
    BY <2>3, <2>5, <2>6
<1>18. QED
  BY <1>9, <1>10, <1>11, <1>12, <1>13, <1>14, <1>15, <1>16, <1>17

LEMMA CommandOwing ==
  ASSUME IInv, IInv', OwingInv,
         \/ \E m \in MainTargets, n \in Names : SendInterest(m, n)
         \/ ReadSensor \/ ClearCs \/ ClearPit
  PROVE  OwingInv'
<1>1. /\ given' = given /\ got' = got /\ asked' = asked
      /\ task'["radio"] = task["radio"] /\ task["main"] \in TaskType
      /\ task["main"].packet.kind = "INTEREST"
      /\ StoreInv /\ StoreInv'
      /\ PacketInv(task["radio"], got) /\ EmptyInv(task["radio"], got, cs, overtaken)
  BY DEF SendInterest, ReadSensor, ClearCs, ClearPit, Command, SendTo, Go, bounds, IInv, Tasks, OwingInv
<1>2. \A m \in Nodes, n \in Names : Answers(m, n)' = Answers(m, n)
  BY <1>1, AnswersSame
<1>3. /\ cs \in [Names -> Contents \cup {NoContent}] /\ pit \in [Names -> SUBSET Nodes]
      /\ got.packet.name \in Names
  BY <1>1 DEF StoreInv, IInv, GotInv, Packets
<1>4. task'["main"].packet.kind = "INTEREST"
  <2>1. CASE \E m \in MainTargets, n \in Names : SendInterest(m, n)
    <3>1. PICK m \in MainTargets, n \in Names : SendInterest(m, n)
      BY <2>1
    <3> DEFINE p == [kind |-> "INTEREST", name |-> n, content |-> NoContent]
    <3>2. task'["main"] = [Idle EXCEPT !.stage = "send", !.todo = {m}, !.packet = p]
      BY <3>1 DEF SendInterest, SendTo, IInv, Tasks
    <3>3. p.kind = "INTEREST"
      OBVIOUS
    <3> HIDE DEF p
    <3>4. QED
      BY <3>2, <3>3 DEF Idle
  <2>2. CASE ReadSensor
    BY <1>1, <2>2 DEF ReadSensor
  <2>3. CASE ClearCs \/ ClearPit
    <3>1. PICK s : task'["main"] = [task["main"] EXCEPT !.stage = s]
      BY <2>3 DEF ClearCs, ClearPit, Go, IInv, Tasks
    <3>2. task'["main"].packet = task["main"].packet
      BY <1>1, <3>1 DEF TaskType
    <3>3. QED
      BY <1>1, <3>2
  <2>4. QED
    BY <2>1, <2>2, <2>3
<1>5. \A n \in Names : pit'[n] \subseteq pit[n]
  BY <1>3 DEF SendInterest, ReadSensor, ClearCs, ClearPit, tables
<1>6. EmptyInv(task["radio"], got, cs', overtaken')
  <2>1. CASE ClearCs \/ ClearPit
    <3>1. overtaken' = ~At("radio", "idle")
      BY <2>1 DEF ClearCs, ClearPit
    <3>2. CASE At("radio", "idle")
      <4>1. task["radio"].stage = "idle" /\ task["radio"].packet.kind # "DATA"
        BY <1>1, <3>2 DEF At, PacketInv, Sending
      <4>2. QED
        BY <4>1 DEF EmptyInv
    <3>3. CASE ~At("radio", "idle")
      BY <3>1, <3>3 DEF EmptyInv
    <3>4. QED
      BY <3>2, <3>3
  <2>2. CASE ReadSensor
    BY <1>1, <1>3, <2>2, TasksAssumption DEF ReadSensor, EmptyInv
  <2>3. CASE \E m \in MainTargets, n \in Names : SendInterest(m, n)
    BY <1>1, <2>3 DEF SendInterest, tables
  <2>4. QED
    BY <2>1, <2>2, <2>3
<1>7. QED
  BY <1>1, <1>2, <1>4, <1>5, <1>6, MainOwing

LEMMA InitOwing == Init => OwingInv
<1> SUFFICES ASSUME Init PROVE OwingInv
  OBVIOUS
<1>1. /\ task["radio"] = Idle /\ task["main"] = Idle /\ got = Nothing
      /\ Idle.packet.kind = "INTEREST" /\ Idle.stage = "idle" /\ Nothing.packet.kind = "INTEREST"
  BY DEF Init, Tasks, Idle, Nothing, NoPacket
<1>2. PacketInv(Idle, Nothing) /\ EmptyInv(Idle, Nothing, cs, overtaken)
  BY <1>1 DEF PacketInv, EmptyInv
<1>3. AskedInv
  <2>1. asked \in [Nodes -> [Names -> Nat]] /\ \A m \in Nodes, n \in Names : asked[m][n] = 0
    BY DEF Init
  <2>2. ASSUME NEW m \in Nodes, NEW n \in Names
        PROVE  Answers(m, n) + One(Owes(Idle, Nothing, m, n)) + One(Waits(Idle, Nothing, pit, m, n)) <= 0
    <3>1. {i \in DOMAIN given[m] : given[m][i].packet.kind = "DATA" /\ given[m][i].packet.name = n} = {}
      BY DEF Init
    <3>2. Answers(m, n) = 0
      BY <3>1, FS_EmptySet DEF Answers
    <3>3. ~Owes(Idle, Nothing, m, n)
      BY <1>1 DEF Owes, Asking
    <3>4. ~Waits(Idle, Nothing, pit, m, n)
      BY DEF Init, Waits
    <3>5. QED
      BY <3>2, <3>3, <3>4 DEF One
  <2>3. QED
    BY <1>1, <2>1, <2>2 DEF AskedInv
<1>4. QED
  BY <1>1, <1>2, <1>3 DEF OwingInv

LEMMA StepsKeepOwing == IInv /\ OwingInv /\ [Next]_vars => OwingInv'
<1> SUFFICES ASSUME IInv, OwingInv, [Next]_vars PROVE OwingInv'
  OBVIOUS
<1>1. IInv' /\ "radio" \in Tasks /\ "main" \in Tasks
  BY StepsKeepInv DEF Tasks
<1>2. ASSUME NEW t \in Tasks, SendStep(t)
      PROVE  OwingInv'
  BY <1>1, <1>2, SendShapeOwing, SignOwing, FinishOwing DEF SendStep
<1>3. CASE RadioStep
  BY <1>1, <1>2, <1>3, CheckOwing, HandlerOwing DEF RadioStep
<1>4. CASE MainStep
  BY <1>1, <1>2, <1>4, CommandOwing DEF MainStep
<1>5. ASSUME NEW m \in Askers, NEW c \in 1 .. MaxArrivals, NEW n \in Names, NEW far \in BOOLEAN,
             Arrive(m, c, far, [kind |-> "INTEREST", name |-> n, content |-> NoContent])
      PROVE  OwingInv'
  BY <1>1, <1>5, ArriveOwing
<1>6. ASSUME NEW m \in Producers, NEW c \in 1 .. MaxArrivals, NEW n \in Names, NEW x \in Contents,
             Arrive(m, c, FALSE, [kind |-> "DATA", name |-> n, content |-> x])
      PROVE  OwingInv'
  BY <1>1, <1>6, ArriveOwing
<1>7. CASE (\E m \in MainTargets, n \in Names : SendInterest(m, n)) \/ ReadSensor \/ ClearCs
  BY <1>1, <1>7, CommandOwing
<1>8. CASE UNCHANGED vars
  <2>1. /\ cs' = cs /\ pit' = pit /\ task' = task /\ got' = got /\ given' = given
        /\ asked' = asked /\ overtaken' = overtaken
    BY <1>8 DEF vars
  <2>2. \A m \in Nodes, n \in Names : Answers(m, n)' = Answers(m, n)
    BY <2>1, AnswersSame
  <2>3. QED
    BY <2>1, <2>2 DEF OwingInv, AskedInv
<1>9. QED
  BY <1>3, <1>4, <1>5, <1>6, <1>7, <1>8 DEF Next

LEMMA InvAnswersAsked == IInv /\ OwingInv => AnswersAsked
<1> SUFFICES ASSUME IInv, OwingInv, NEW m \in Nodes, NEW n \in Names
             PROVE  Answers(m, n) <= asked[m][n]
  BY DEF AnswersAsked
<1> DEFINE o == Owes(task["radio"], got, m, n)
           w == Waits(task["radio"], got, pit, m, n)
<1>1. Answers(m, n) + One(o) + One(w) <= asked[m][n] /\ asked[m][n] \in Nat
  BY DEF OwingInv, AskedInv
<1>2. Answers(m, n) \in Nat
  BY AnswersAre DEF IInv
<1> HIDE DEF o, w
<1>3. One(o) \in Nat /\ One(w) \in Nat
  BY DEF One
<1>4. QED
  BY <1>1, <1>2, <1>3

-----------------------------------------------------------------------------

\* Every variable keeps its type and a task that uses a slot has one, for any
\* configuration and any interleaving of the two tasks.
THEOREM TypeTheorem == Spec => []TypeOK
<1>1. IInv /\ [Next]_vars => IInv'
  BY StepsKeepInv
<1>2. QED
  BY InitInv, InvTypeOK, <1>1, PTL DEF Spec

\* Whatever send_interest writes to other nodes, and whichever slots the two tasks give
\* to nodes that are not configured, a configured peer that only the Wi-Fi task writes
\* to is sent the counters 1, 2, 3 and so on.
THEOREM SoleSenderTheorem == Spec => []SoleSenderCounts
BY InitInv, StepsKeepInv, InvSoleSenderCounts, PTL DEF Spec

\* No step of either task takes the slot of a configured peer, or sets the counter of
\* what was accepted from it back.
THEOREM KnownPeersTheorem == Spec => KnownPeersKept
<1> DEFINE Kept == \A i \in KnownSlots :
             peers'.mac[i] = peers.mac[i] /\ peers'.rx[i] >= peers.rx[i]
<1>1. IInv /\ [Next]_vars => Kept
  BY StepKeepsKnown
<1>2. Spec => [][Kept]_vars
  BY InitInv, StepsKeepInv, <1>1, PTL DEF Spec
<1>3. QED
  BY <1>2 DEF KnownPeersKept

\* The Wi-Fi task sends empty content to nobody, unless clear_cache ran while it had
\* the packet in hand, whatever else the main loop stores or sends meanwhile.
THEOREM EmptyTheorem == Spec => []EmptyOnlyIfCleared
<1>1. OwingInv => EmptyOnlyIfCleared
  BY DEF OwingInv, EmptyInv, EmptyOnlyIfCleared
<1>2. QED
  BY InitInv, StepsKeepInv, InitOwing, StepsKeepOwing, <1>1, PTL DEF Spec

\* No node is sent more Data of a name than Interests were accepted from it, although
\* nothing ties the search of the PIT to the look-up and the removal that follow.
THEOREM AnswersTheorem == Spec => []AnswersAsked
BY InitInv, StepsKeepInv, InitOwing, StepsKeepOwing, InvAnswersAsked, PTL DEF Spec
=============================================================================
