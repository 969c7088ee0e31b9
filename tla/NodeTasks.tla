----------------------------- MODULE NodeTasks -----------------------------
(***************************************************************************)
(* One node with HMAC enabled, and its two tasks.  The Wi-Fi task calls    *)
(* onDataReceive for every packet, and the main loop runs the commands     *)
(* send_interest, clear_cache and read_sensor.  They share the peer table, *)
(* the content store and the PIT, and nothing is locked: there is one      *)
(* action for every call of a table, and within PeerCounterManager one for *)
(* every access to a slot, and the tasks take turns between any two.       *)
(*                                                                         *)
(* Packets that arrive are authentic, for a key is configured for every    *)
(* node; they may be repeated, or come after one that was lost.  The       *)
(* tables have room for all names; ForwardingOps has what they do when     *)
(* full.  The FIB does not change once the node has started.               *)
(***************************************************************************)
EXTENDS PeerCounterOps, FiniteSets

CONSTANTS
  Names, Contents,
  Configured,     \* the peers with a key of their own, and so with a slot from the start
  NextHops,       \* what the FIB has for each name, empty where it misses
  MainTargets,    \* the nodes send_interest is told to write to
  Askers, Producers,   \* the nodes that Interests, and Data, arrive from
  SensorName, SensorContent,
  NoContent,
  MaxArrivals, MaxCommands   \* bounds: packets that arrive, commands

ASSUME TasksAssumption ==
  /\ Configured \in Seq([mac : Nodes, key : Keys]) /\ Len(Configured) <= MaxPeers
  /\ \A i, j \in 1 .. Len(Configured) : Configured[i].mac = Configured[j].mac => i = j
  /\ NextHops \in [Names -> SUBSET Nodes] /\ MainTargets \subseteq Nodes
  /\ Askers \subseteq Nodes /\ Producers \subseteq Nodes
  /\ SensorName \in Names /\ SensorContent \in Contents
  /\ NoContent \notin Contents
  /\ MaxArrivals \in Nat /\ MaxCommands \in Nat
  /\ MaxArrivals < CounterModulus

Tasks == {"radio", "main"}

\* The packets built, and those received.
Packets == [kind : {"INTEREST", "DATA"}, name : Names, content : Contents \cup {NoContent}]

VARIABLES
  peers,      \* the table of PeerCounterManager
  cs,         \* the content stored under each name, or NoContent
  pit,        \* who waits for each name
  task,       \* where each task is, and its local variables
  got,        \* the packet that the radio task handles
  given,      \* the packets built for each node, with their counters, in order
  overtaken,  \* clear_cache has run since the content store or the PIT was searched
  owed,       \* the nodes that Data found or received should go to; after clear_cache, none
  asked,      \* the Interests accepted from each node for each name
  arrivals, commands

vars == <<peers, cs, pit, task, got, given, overtaken, owed, asked, arrivals, commands>>
tables == <<peers, cs, pit>>
bounds == <<arrivals, commands>>

NoPacket == [kind |-> "INTEREST", name |-> SensorName, content |-> NoContent]

Nothing  == [from |-> NoNode, counter |-> 0, far |-> FALSE, packet |-> NoPacket]

\* stage is what the task does next, and goal what it does with the slot it looks for.
Idle == [ stage |-> "idle", goal |-> "idle", to |-> NoNode, slot |-> NoSlot, old |-> 0,
          counter |-> 0, todo |-> {}, packet |-> NoPacket ]

Init ==
  /\ peers = ConfiguredTable(Configured)
  /\ cs = [n \in Names |-> NoContent]
  /\ pit = [n \in Names |-> {}]
  /\ task = [t \in Tasks |-> Idle]
  /\ got = Nothing
  /\ given = [m \in Nodes |-> <<>>]
  /\ overtaken = FALSE /\ owed = {}
  /\ asked = [m \in Nodes |-> [n \in Names |-> 0]]
  /\ arrivals = 0 /\ commands = 0

At(t, stage) == task[t].stage = stage

\* Task t goes on with another stage.
Go(t, stage) == task' = [task EXCEPT ![t].stage = stage]

\* Task t sends packet p to a set of nodes.
SendTo(t, R, p) ==
  task' = [task EXCEPT ![t] = [Idle EXCEPT !.stage = "send", !.todo = R, !.packet = p]]

\* It goes on to the next address, if any; a packet that is dropped has none.
GoOn(t) == SendTo(t, task[t].todo, task[t].packet)
Drop(t) == SendTo(t, {}, NoPacket)

-----------------------------------------------------------------------------
(* findOrCreatePeerIndex, and what is done with the slot.                  *)

\* Faulty: nobody looks whether there was a free slot.
FindUnchecked(t) ==
  /\ At(t, "find")
  /\ LET own == FindPeer(peers, task[t].to)
         free == FindPeer(peers, NoNode)
     IN  task' = [task EXCEPT ![t].slot  = IF own # NoSlot THEN own ELSE free,
                              ![t].stage = IF own # NoSlot THEN task[t].goal ELSE "claim"]
  /\ UNCHANGED <<tables, got, given, overtaken, owed, asked, bounds>>

\* Faulty: a new peer takes the first slot when all are taken.
FindEvicting(t) ==
  /\ At(t, "find")
  /\ LET own == FindPeer(peers, task[t].to)
         free == FindPeer(peers, NoNode)
     IN  task' = [task EXCEPT
           ![t].slot  = IF own # NoSlot THEN own ELSE IF free # NoSlot THEN free ELSE 0,
           ![t].stage = IF own # NoSlot THEN task[t].goal ELSE "claim"]
  /\ UNCHANGED <<tables, got, given, overtaken, owed, asked, bounds>>

\* Without a slot the packet is given up.
Find(t) ==
  /\ At(t, "find")
  /\ LET own == FindPeer(peers, task[t].to)
         free == FindPeer(peers, NoNode)
     IN  IF own = NoSlot /\ free = NoSlot THEN GoOn(t)
         ELSE task' = [task EXCEPT ![t].slot  = IF own # NoSlot THEN own ELSE free,
                                   ![t].stage = IF own # NoSlot THEN task[t].goal ELSE "claim"]
  /\ UNCHANGED <<tables, got, given, overtaken, owed, asked, bounds>>

\* The slot seen to be free is taken, whoever took it meanwhile.
Claim(t) ==
  LET i == task[t].slot
  IN  /\ At(t, "claim")
      /\ peers' = [ mac |-> [peers.mac EXCEPT ![i] = task[t].to], tx |-> [peers.tx EXCEPT ![i] = 0],
                    rx |-> [peers.rx EXCEPT ![i] = 0], key |-> [peers.key EXCEPT ![i] = NoKey] ]
      /\ Go(t, task[t].goal)
      /\ UNCHANGED <<cs, pit, got, given, overtaken, owed, asked, bounds>>

\* incrementTxCounter is tx_counter++ ...
ReadTx(t) ==
  /\ At(t, "count")
  /\ task' = [task EXCEPT ![t].stage = "store", ![t].old = peers.tx[task[t].slot]]
  /\ UNCHANGED <<tables, got, given, overtaken, owed, asked, bounds>>

StoreTx(t) ==
  /\ At(t, "store")
  /\ peers' = [peers EXCEPT !.tx[task[t].slot] = Bump(task[t].old)]
  /\ Go(t, "return")
  /\ UNCHANGED <<cs, pit, got, given, overtaken, owed, asked, bounds>>

\* Faulty: the value before the increment is returned.
ReturnOld(t) ==
  /\ At(t, "return")
  /\ task' = [task EXCEPT ![t].counter = task[t].old, ![t].stage = "find", ![t].goal = "sign"]
  /\ UNCHANGED <<tables, got, given, overtaken, owed, asked, bounds>>

\* ... and the value that is returned is loaded again, or not.
ReturnTx(t) ==
  /\ At(t, "return")
  /\ \E c \in {Bump(task[t].old), peers.tx[task[t].slot]} :
       task' = [task EXCEPT ![t].counter = c, ![t].stage = "find", ![t].goal = "sign"]
  /\ UNCHANGED <<tables, got, given, overtaken, owed, asked, bounds>>

\* The packet is authenticated and given to the radio, which may refuse it: the node
\* keeps no trace of that.
Sign(t) ==
  /\ At(t, "sign")
  /\ given' = [given EXCEPT ![task[t].to] =
       Append(@, [counter |-> task[t].counter, packet |-> task[t].packet])]
  /\ owed' = IF task[t].packet.kind = "DATA" THEN owed \ {task[t].to} ELSE owed
  /\ GoOn(t)
  /\ UNCHANGED <<tables, got, overtaken, asked, bounds>>

\* sendPacketToAddresses goes on to one of the addresses that are left.
NextAddress(t) ==
  /\ At(t, "send")
  /\ \E m \in task[t].todo :
       task' = [task EXCEPT ![t].to = m, ![t].todo = @ \ {m},
                            ![t].stage = "find", ![t].goal = "count"]
  /\ UNCHANGED <<tables, got, given, overtaken, owed, asked, bounds>>

\* Faulty: the loop over the addresses may be left early.
FinishEarly(t) ==
  /\ At(t, "send")
  /\ task' = [task EXCEPT ![t] = Idle]
  /\ got' = IF t = "radio" THEN Nothing ELSE got
  /\ overtaken' = (overtaken /\ t # "radio")
  /\ owed' = IF overtaken /\ t = "radio" THEN {} ELSE owed
  /\ UNCHANGED <<tables, given, asked, bounds>>

Finish(t) ==
  /\ At(t, "send") /\ task[t].todo = {}
  /\ task' = [task EXCEPT ![t] = Idle]
  /\ got' = IF t = "radio" THEN Nothing ELSE got
  /\ overtaken' = (overtaken /\ t # "radio")
  /\ owed' = IF overtaken /\ t = "radio" THEN {} ELSE owed
  /\ UNCHANGED <<tables, given, asked, bounds>>

SendStep(t) ==
  Find(t) \/ Claim(t) \/ ReadTx(t) \/ StoreTx(t) \/ ReturnTx(t) \/ Sign(t)
    \/ NextAddress(t) \/ Finish(t)

-----------------------------------------------------------------------------
(* processReceivedPacket, in the Wi-Fi task.                               *)

Arrive(m, c, far, p) ==
  /\ At("radio", "idle") /\ arrivals < MaxArrivals
  /\ arrivals' = arrivals + 1
  /\ got' = [from |-> m, counter |-> c, far |-> far, packet |-> p]
  /\ task' = [task EXCEPT !["radio"] =
       [Idle EXCEPT !.stage = "find", !.goal = "verify", !.to = m]]
  /\ UNCHANGED <<tables, given, overtaken, owed, asked, commands>>

\* The code is right; validateRxCounter looks for the slot again.
Verify ==
  /\ At("radio", "verify")
  /\ task' = [task EXCEPT !["radio"].stage = "find", !["radio"].goal = "check"]
  /\ UNCHANGED <<tables, got, given, overtaken, owed, asked, bounds>>

Kind == got.packet.kind
Name == got.packet.name

\* A repeated packet, or one after a gap, is dropped.
CheckRx ==
  LET i  == task["radio"].slot
      ok == got.counter = Bump(peers.rx[i])
  IN  /\ At("radio", "check")
      /\ peers' = IF ok THEN [peers EXCEPT !.rx[i] = got.counter] ELSE peers
      /\ IF ok THEN Go("radio", IF Kind = "INTEREST" THEN "cs_find" ELSE "pit_find") ELSE Drop("radio")
      /\ asked' = IF ok /\ Kind = "INTEREST" THEN [asked EXCEPT ![got.from][Name] = @ + 1] ELSE asked
      /\ UNCHANGED <<cs, pit, got, given, overtaken, owed, bounds>>

\* Faulty: the content store is read without being searched.
CsFindNothing ==
  /\ At("radio", "cs_find")
  /\ Go("radio", "cs_get")
  /\ overtaken' = FALSE
  /\ UNCHANGED <<tables, got, given, owed, asked, bounds>>

\* handleInterestReceive.  An Interest that came too far is dropped.
CsFind ==
  /\ At("radio", "cs_find")
  /\ IF got.far THEN Drop("radio")
     ELSE Go("radio", IF cs[Name] # NoContent THEN "cs_get" ELSE "pit_save")
  /\ overtaken' = FALSE
  /\ owed' = IF ~got.far /\ cs[Name] # NoContent THEN owed \cup {got.from} ELSE owed
  /\ UNCHANGED <<tables, got, given, asked, bounds>>

CsGet ==
  /\ At("radio", "cs_get")
  /\ SendTo("radio", {got.from}, [kind |-> "DATA", name |-> Name, content |-> cs[Name]])
  /\ UNCHANGED <<tables, got, given, overtaken, owed, asked, bounds>>

PitSave ==
  /\ At("radio", "pit_save")
  /\ pit' = [pit EXCEPT ![Name] = @ \cup {got.from}]
  /\ Go("radio", "fib_get")
  /\ UNCHANGED <<peers, cs, got, given, overtaken, owed, asked, bounds>>

FibGet ==
  /\ At("radio", "fib_get")
  /\ SendTo("radio", NextHops[Name], [kind |-> "INTEREST", name |-> Name, content |-> NoContent])
  /\ UNCHANGED <<tables, got, given, overtaken, owed, asked, bounds>>

\* handleDataReceive.
PitFind ==
  /\ At("radio", "pit_find")
  /\ IF pit[Name] = {} THEN Drop("radio") ELSE Go("radio", "pit_get")
  /\ overtaken' = FALSE
  /\ owed' = owed \cup pit[Name]
  /\ UNCHANGED <<tables, got, given, asked, bounds>>

PitGet ==
  /\ At("radio", "pit_get")
  /\ task' = [task EXCEPT !["radio"].stage = "pit_remove", !["radio"].todo = pit[Name],
                          !["radio"].packet = got.packet]
  /\ UNCHANGED <<tables, got, given, overtaken, owed, asked, bounds>>

\* Faulty: the entry outlives the Data.
PitKeep ==
  /\ At("radio", "pit_remove")
  /\ Go("radio", "cs_save")
  /\ UNCHANGED <<tables, got, given, overtaken, owed, asked, bounds>>

PitRemove ==
  /\ At("radio", "pit_remove")
  /\ pit' = [pit EXCEPT ![Name] = {}]
  /\ Go("radio", "cs_save")
  /\ UNCHANGED <<peers, cs, got, given, overtaken, owed, asked, bounds>>

CsSave ==
  /\ At("radio", "cs_save")
  /\ cs' = [cs EXCEPT ![Name] = got.packet.content]
  /\ Go("radio", "send")
  /\ UNCHANGED <<peers, pit, got, given, overtaken, owed, asked, bounds>>

RadioStep ==
  \/ SendStep("radio") \/ Verify \/ CheckRx
  \/ CsFind \/ CsGet \/ PitSave \/ FibGet
  \/ PitFind \/ PitGet \/ PitRemove \/ CsSave

-----------------------------------------------------------------------------
(* The commands, in the main loop.                                         *)

Command ==
  /\ At("main", "idle") /\ commands < MaxCommands
  /\ commands' = commands + 1
  /\ UNCHANGED <<got, given, owed, asked, arrivals>>

SendInterest(m, n) ==
  /\ Command
  /\ SendTo("main", {m}, [kind |-> "INTEREST", name |-> n, content |-> NoContent])
  /\ UNCHANGED <<tables, overtaken>>

ReadSensor ==
  /\ Command
  /\ cs' = [cs EXCEPT ![SensorName] = SensorContent]
  /\ UNCHANGED <<peers, pit, task, overtaken>>

\* clear_cache empties the content store, and then the PIT.
ClearCs ==
  /\ Command
  /\ cs' = [n \in Names |-> NoContent]
  /\ overtaken' = ~At("radio", "idle")
  /\ Go("main", "clear_pit")
  /\ UNCHANGED <<peers, pit>>

ClearPit ==
  /\ At("main", "clear_pit")
  /\ pit' = [n \in Names |-> {}]
  /\ overtaken' = ~At("radio", "idle")
  /\ Go("main", "idle")
  /\ UNCHANGED <<peers, cs, got, given, owed, asked, bounds>>

MainStep == SendStep("main") \/ ClearPit

Next ==
  \/ RadioStep \/ MainStep
  \/ \E m \in Askers, c \in 1 .. MaxArrivals, n \in Names, far \in BOOLEAN :
       Arrive(m, c, far, [kind |-> "INTEREST", name |-> n, content |-> NoContent])
  \/ \E m \in Producers, c \in 1 .. MaxArrivals, n \in Names, x \in Contents :
       Arrive(m, c, FALSE, [kind |-> "DATA", name |-> n, content |-> x])
  \/ \E m \in MainTargets, n \in Names : SendInterest(m, n)
  \/ ReadSensor \/ ClearCs

\* Each task goes on when it can: the main loop waits in every round, and the Wi-Fi
\* task is only busy while it handles a packet.
Spec == Init /\ [][Next]_vars /\ WF_vars(RadioStep) /\ WF_vars(MainStep)

-----------------------------------------------------------------------------
(* Properties.                                                             *)

\* The tables stay well formed, and a task that uses a slot has one, whatever the two
\* tasks do to the table between its look-up and its use.
TypeOK ==
  /\ peers \in TableType
  /\ cs \in [Names -> Contents \cup {NoContent}]
  /\ pit \in [Names -> SUBSET Nodes]
  /\ \A t \in Tasks :
       /\ task[t].to \in Nodes \cup {NoNode} /\ task[t].todo \subseteq Nodes
       /\ task[t].old \in Counters /\ task[t].counter \in Counters
       /\ task[t].packet \in Packets
       /\ task[t].stage \in {"claim", "verify", "check", "count", "store", "return", "sign"}
            => task[t].slot \in PeerSlots /\ task[t].to \in Nodes
  /\ got.counter \in Counters /\ got.packet \in Packets
  /\ given \in [Nodes -> Seq([counter : Counters, packet : Packets])]

KnownSlots == 0 .. Len(Configured) - 1
Known == {Configured[i].mac : i \in 1 .. Len(Configured)}

\* The packets for a configured peer that only the Wi-Fi task writes to are counted
\* 1, 2, 3 and so on, whatever the main loop sends to others meanwhile: the peer
\* accepts nothing else.
SoleSenderCounts ==
  \A m \in Known \ MainTargets : \A i \in DOMAIN given[m] : given[m][i].counter = i

\* A configured peer keeps its slot, and the counter of what was accepted from it does
\* not go back, whichever nodes the two tasks give slots to, or the same slot.
KnownPeersKept ==
  [][\A i \in KnownSlots :
       peers'.mac[i] = peers.mac[i] /\ peers'.rx[i] >= peers.rx[i]]_vars

\* An Interest is answered with empty content only if clear_cache came between the
\* two searches of the content store.
EmptyOnlyIfCleared ==
  task["radio"].packet.kind = "DATA" /\ task["radio"].packet.content = NoContent => overtaken

Answers(m, n) ==
  Cardinality({i \in DOMAIN given[m] : /\ given[m][i].packet.kind = "DATA"
                                       /\ given[m][i].packet.name = n})

\* Nobody is sent more Data of a name than it sent Interests, though clear_cache may
\* come between the search of the PIT, the look-up and the removal.
AnswersAsked == \A m \in Nodes, n \in Names : Answers(m, n) <= asked[m][n]

\* Content that an Interest of a configured peer has found, and Data for which such a
\* peer was found waiting, are sent to that peer in the end, unless clear_cache came
\* while the packet was handled.
OwedDataGoesOut == \A m \in Known : m \in owed ~> m \notin owed

\* incrementTxCounter returns the counter it has incremented, so no two packets for a
\* configured peer have the same counter.
CountersDiffer ==
  \A m \in Known : \A i, j \in DOMAIN given[m] :
    i # j => given[m][i].counter # given[m][j].counter
=============================================================================
