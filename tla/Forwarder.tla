----------------------------- MODULE Forwarder -----------------------------
(***************************************************************************)
(* One node and the neighbours around it.  The radio task hands each       *)
(* packet to UseCaseInteractor (ESP_NOWController::receiveMessage) and     *)
(* sends what it answers; the main loop executes the serial commands       *)
(* read_sensor, send_interest and clear_cache.  Neighbours may send any    *)
(* packet at any time.  clear_cache empties the content store and the PIT  *)
(* in two calls, and a packet may be handled between them.                 *)
(***************************************************************************)
EXTENDS ForwardingOps

CONSTANT NextHops    \* what the FIB answers for each name

ASSUME NextHopsAssumption == NextHops \in [Names -> SUBSET Neighbours]

VARIABLES
  pit, cs,
  call,      \* the last packet or command; memory: whether there was a buffer to be had
  sent,      \* the packets it handed to the radio
  clearing   \* the main loop is between the two calls of clear_cache

vars == <<pit, cs, call, sent, clearing>>

Init ==
  /\ pit = EmptyCache
  /\ cs = [n \in Names |-> NoContent]
  /\ call = <<>>
  /\ sent = {}
  /\ clearing = FALSE

ReceiveInterest(m, n, h) ==
  /\ call' = <<"INTEREST", m, n, h>>
  /\ pit' = PitAfterInterest(pit, cs, m, n, h)
  /\ sent' = InterestOut(cs, m, n, h, NextHops[n])
  /\ UNCHANGED <<cs, clearing>>

\* Who sent the Data is not looked at.
ReceiveData(n, h, c, memory) ==
  /\ call' = <<"DATA", n, h, c, memory>>
  /\ pit' = PitAfterData(pit, n)
  /\ cs' = CsAfterData(pit, cs, n, c, memory)
  /\ sent' = DataOut(pit, n, h, c)
  /\ UNCHANGED clearing

\* The node's own reading answers nobody who waits for it.
ReadSensor(n, c, memory) ==
  /\ ~clearing
  /\ call' = <<"read_sensor", n, c, memory>>
  /\ cs' = SaveContent(cs, n, c, memory)
  /\ sent' = {}
  /\ UNCHANGED <<pit, clearing>>

\* The node's own Interest goes out with hop count 1 and leaves no trace in its PIT.
SendInterest(m, n) ==
  /\ ~clearing
  /\ call' = <<"send_interest", m, n>>
  /\ sent' = {Interest(m, n, 1)}
  /\ UNCHANGED <<pit, cs, clearing>>

ClearCS ==
  /\ ~clearing
  /\ call' = <<"clearCSCache">>
  /\ cs' = [n \in Names |-> NoContent]
  /\ sent' = {}
  /\ clearing' = TRUE
  /\ UNCHANGED pit

ClearPIT ==
  /\ clearing
  /\ call' = <<"clearPITCache">>
  /\ pit' = ClearCache(pit)
  /\ sent' = {}
  /\ clearing' = FALSE
  /\ UNCHANGED cs

Next ==
  \/ \E m \in Neighbours, n \in Names, h \in HopCounts : ReceiveInterest(m, n, h)
  \/ \E n \in Names, h \in HopCounts, c \in Contents, memory \in BOOLEAN :
       ReceiveData(n, h, c, memory)
  \/ \E n \in Names, c \in Contents, memory \in BOOLEAN : ReadSensor(n, c, memory)
  \/ \E m \in Neighbours, n \in Names : SendInterest(m, n)
  \/ ClearCS
  \/ ClearPIT

Spec == Init /\ [][Next]_vars

-----------------------------------------------------------------------------
(* Properties.                                                             *)

\* The tables are well formed: no entry holds more requesters than it has room
\* for, and every hop count sent fits the byte it travels in.
TypeOK ==
  /\ pit \in CacheType
  /\ cs \in [Names -> Contents \cup {NoContent}]
  /\ sent \subseteq Packets
  /\ clearing \in BOOLEAN

Waiting == [n \in Names |-> Requesters(pit, n)]

Promise == INSTANCE ForwarderSpec WITH waiting <- Waiting, store <- cs

\* The node does what ForwarderSpec says: the cache behind the PIT loses nobody who
\* waits and invents nobody, through any sequence of saves, removals and clears.
ImplementsForwarder == Promise!Spec
=============================================================================
