--------------------------- MODULE ForwarderSpec ---------------------------
(***************************************************************************)
(* What a node promises its neighbours, whatever its tables are made of:   *)
(* who waits for a name is recorded until the Data comes, the Data then    *)
(* goes to those and to nobody else, and only Data that was waited for is  *)
(* kept.  The table of who waits is bounded: when PitEntries names are     *)
(* waited for, an Interest for another name is forwarded unrecorded.       *)
(***************************************************************************)
EXTENDS Integers, FiniteSets

CONSTANTS
  Names, Contents, Neighbours, PitEntries, RequestersPerEntry, CsEntries,
  HopLimit, HopModulus, NextHops, NoContent

VARIABLES
  waiting,   \* the neighbours who wait for each name
  store,     \* the content kept for each name
  call,      \* the last packet or command
  sent,      \* the packets it handed to the radio
  clearing   \* clear_cache has emptied the store and not yet the table

vars == <<waiting, store, call, sent, clearing>>

WaitedFor == {n \in Names : waiting[n] # {}}
Kept == {n \in Names : store[n] # NoContent}

Init ==
  /\ waiting = [n \in Names |-> {}] /\ store = [n \in Names |-> NoContent]
  /\ call = <<>> /\ sent = {} /\ clearing = FALSE

Recorded(n, m) ==
  IF n \notin WaitedFor /\ Cardinality(WaitedFor) >= PitEntries THEN {}
  ELSE IF Cardinality(waiting[n]) >= RequestersPerEntry THEN waiting[n]
  ELSE waiting[n] \cup {m}

Keep(n, c, memory) ==
  IF memory /\ Cardinality(Kept) < CsEntries THEN [store EXCEPT ![n] = c] ELSE store

Packet(kind, m, n, h, c) == [kind |-> kind, to |-> m, name |-> n, hop |-> h, content |-> c]

InterestTooFar(m, n, h) ==
  /\ call' = <<"INTEREST", m, n, h>> /\ h + 1 >= HopLimit
  /\ sent' = {}
  /\ UNCHANGED <<store, waiting, clearing>>

InterestHit(m, n, h) ==
  /\ call' = <<"INTEREST", m, n, h>> /\ h + 1 < HopLimit /\ n \in Kept
  /\ sent' = {Packet("DATA", m, n, 0, store[n])}
  /\ UNCHANGED <<store, waiting, clearing>>

InterestMiss(m, n, h) ==
  /\ call' = <<"INTEREST", m, n, h>> /\ h + 1 < HopLimit /\ n \notin Kept
  /\ waiting' = [waiting EXCEPT ![n] = Recorded(n, m)]
  /\ sent' = {Packet("INTEREST", x, n, h + 1, NoContent) : x \in NextHops[n]}
  /\ UNCHANGED <<store, clearing>>

DataWanted(n, h, c, memory) ==
  /\ call' = <<"DATA", n, h, c, memory>> /\ n \in WaitedFor
  /\ waiting' = [waiting EXCEPT ![n] = {}]
  /\ store' = Keep(n, c, memory)
  /\ sent' = {Packet("DATA", x, n, (h + 1) % HopModulus, c) : x \in waiting[n]}
  /\ UNCHANGED clearing

DataUnwanted(n, h, c, memory) ==
  /\ call' = <<"DATA", n, h, c, memory>> /\ n \notin WaitedFor
  /\ sent' = {}
  /\ UNCHANGED <<store, waiting, clearing>>

Sensor(n, c, memory) ==
  /\ call' = <<"read_sensor", n, c, memory>>
  /\ store' = Keep(n, c, memory) /\ sent' = {}
  /\ UNCHANGED <<waiting, clearing>>

Request(m, n) ==
  /\ call' = <<"send_interest", m, n>>
  /\ sent' = {Packet("INTEREST", m, n, 1, NoContent)}
  /\ UNCHANGED <<store, waiting, clearing>>

ClearStore ==
  /\ call' = <<"clearCSCache">> /\ clearing' = TRUE
  /\ store' = [n \in Names |-> NoContent] /\ sent' = {}
  /\ UNCHANGED waiting

ClearWaiting ==
  /\ call' = <<"clearPITCache">> /\ clearing /\ clearing' = FALSE
  /\ waiting' = [n \in Names |-> {}] /\ sent' = {}
  /\ UNCHANGED store

HopCounts == 0 .. HopModulus - 1

Next ==
  \/ \E m \in Neighbours, n \in Names, h \in HopCounts :
       InterestTooFar(m, n, h) \/ InterestHit(m, n, h) \/ InterestMiss(m, n, h)
  \/ \E n \in Names, h \in HopCounts, c \in Contents, memory \in BOOLEAN :
       DataWanted(n, h, c, memory) \/ DataUnwanted(n, h, c, memory)
  \/ \E n \in Names, c \in Contents, memory \in BOOLEAN : Sensor(n, c, memory)
  \/ \E m \in Neighbours, n \in Names : Request(m, n)
  \/ ClearStore \/ ClearWaiting

Spec == Init /\ [][Next]_vars
=============================================================================
