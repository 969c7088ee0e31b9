---------------------------- MODULE NodeStartup ----------------------------
(***************************************************************************)
(* A node from power-up: setup with initializeCommunication, any step of   *)
(* which may fail, and then loop with its tickers and send_interest, which *)
(* runs also when setup has failed half-way.  The radio, outside the code, *)
(* keeps the peers registered with it and their keys: it refuses a peer    *)
(* when it is full or not initialised, and sometimes for reasons of its    *)
(* own.                                                                    *)
(*                                                                         *)
(* A file that cannot be mounted, opened or parsed is one problem.         *)
(***************************************************************************)
EXTENDS StartupOps, FiniteSets

CONSTANTS
  Documents,     \* the configuration files looked at
  Groups,        \* the broadcast and multicast addresses among Nodes
  RadioPeers,    \* the most peers the radio takes
  AutoSensor,    \* AUTO_SENSOR_ENABLED
  PerfBuild      \* ICSN_PERF_ENABLED

ASSUME StartupAssumption ==
  /\ Documents \subseteq DocumentType
  /\ Groups \subseteq Nodes /\ IsFiniteSet(Nodes)
  /\ RadioPeers \in Nat
  /\ AutoSensor \in BOOLEAN /\ PerfBuild \in BOOLEAN

\* What a peer is registered with: a key, or in clear, or not at all.
CONSTANTS Clear, Absent

ASSUME CipherAssumption == Clear \notin Keys /\ Absent \notin Keys /\ Clear # Absent

Tickers == {"sensor", "memory"}

VARIABLES
  doc,         \* the file in flash
  config,      \* systemConfig
  step,        \* the next step of setup; "loop" afterwards
  initialised, \* esp_now_init succeeded
  pmk,         \* the PMK given to the radio
  registered,  \* the radio's peers
  listening,   \* the callbacks are registered
  routes,      \* the routes given to addRoute, in order
  attached,    \* the tickers that run
  requested,   \* the flags they set
  serving,     \* the ticker whose work the loop does, if any
  turn,        \* what the loop looks at next
  due,         \* the tickers that fired since their work last began
  reply        \* what the last send_interest printed, its target, and the key that the
               \* code of its packet was made with

radioVars == <<initialised, pmk, registered, listening>>
loopVars  == <<attached, requested, serving, turn, due, reply>>
vars == <<doc, config, step, radioVars, routes, loopVars>>

Silent == [to |-> NoNode, outcome |-> "none", code |-> NoKey]

Init ==
  /\ doc \in Documents
  /\ config = NoConfig
  /\ step = "config"
  /\ initialised = FALSE /\ pmk = NoKey /\ listening = FALSE
  /\ registered = [m \in Nodes |-> Absent]
  /\ routes = <<>>
  /\ attached = {} /\ requested = {} /\ serving = "nothing" /\ turn = "sensor" /\ due = {}
  /\ reply = Silent

-----------------------------------------------------------------------------
(* Peers of the radio.                                                     *)

Peers == {m \in Nodes : registered[m] # Absent}

\* Faulty: a peer for which there is no key is registered in clear.
CipherLenient(m) ==
  IF config.encryption /\ m \notin Groups /\ EspNowLmk(config, m) # NoKey
  THEN EspNowLmk(config, m) ELSE Clear

\* The key that registerPeerIfNeeded gives with m; NoKey if it has none and gives up.
Cipher(m) ==
  IF config.encryption /\ m \notin Groups THEN EspNowLmk(config, m) ELSE Clear

\* The radio may be asked to take m.
CanRegister(m) ==
  initialised /\ Cipher(m) # NoKey /\ Cardinality(Peers) < RadioPeers

\* registerPeerIfNeeded(m) returns TRUE.
Registered(m) ==
  IF m \in Peers THEN UNCHANGED registered
  ELSE CanRegister(m) /\ registered' = [registered EXCEPT ![m] = Cipher(m)]

-----------------------------------------------------------------------------
(* setup.                                                                  *)

\* setup returns early, and the loop runs all the same.
Fail ==
  /\ step \in {"config", "channel", "init", "mac"} \/ (step = "pmk" /\ config.encryption)
  /\ step' = "loop"
  /\ UNCHANGED <<doc, config, radioVars, routes, loopVars>>

LoadAndApplyConfig ==
  /\ step = "config"
  /\ config' = LoadConfig(doc)
  /\ routes' = config'.fib
  /\ step' = "channel"
  /\ UNCHANGED <<doc, radioVars, loopVars>>

SetChannel ==
  /\ step = "channel"
  /\ step' = "init"
  /\ UNCHANGED <<doc, config, radioVars, routes, loopVars>>

InitEspNow ==
  /\ step = "init"
  /\ initialised' = TRUE
  /\ step' = "pmk"
  /\ UNCHANGED <<doc, config, pmk, registered, listening, routes, loopVars>>

SetPmk ==
  /\ step = "pmk"
  /\ pmk' = IF config.encryption THEN config.pmk ELSE pmk
  /\ step' = "peers"
  /\ UNCHANGED <<doc, config, initialised, registered, listening, routes, loopVars>>

ListedPeers == {config.lmks[i].mac : i \in DOMAIN config.lmks}

\* Some of the peers listed are registered, and none beyond what the radio takes.
RegisterSome(S) ==
  /\ S \subseteq {m \in ListedPeers \ Peers : Cipher(m) # NoKey}
  /\ Cardinality(Peers \cup S) <= RadioPeers
  /\ registered' = [m \in Nodes |-> IF m \in S THEN Cipher(m) ELSE registered[m]]

\* Faulty: a peer that could not be registered is passed over.
RegisterAnyPeers ==
  /\ step = "peers"
  /\ \E S \in SUBSET ListedPeers : RegisterSome(S)
  /\ step' = "mac"
  /\ UNCHANGED <<doc, config, initialised, pmk, listening, routes, loopVars>>

\* registerConfiguredEspNowPeers tries all of them, and fails unless all succeed.
RegisterConfiguredPeers ==
  /\ step = "peers"
  /\ \E S \in SUBSET ListedPeers :
       /\ RegisterSome(S)
       /\ step' = IF ListedPeers \subseteq Peers \cup S THEN "mac" ELSE "loop"
  /\ UNCHANGED <<doc, config, initialised, pmk, listening, routes, loopVars>>

\* The MAC address is read, the callbacks are registered, and setup ends.
RegisterCallbacks ==
  /\ step = "mac"
  /\ listening' = TRUE
  /\ attached' = (IF AutoSensor THEN {"sensor"} ELSE {}) \cup (IF PerfBuild THEN {"memory"} ELSE {})
  /\ requested' = IF AutoSensor THEN {"sensor"} ELSE {}
  /\ step' = "loop"
  /\ UNCHANGED <<doc, config, initialised, pmk, registered, routes, serving, turn, due, reply>>

Setup ==
  \/ LoadAndApplyConfig \/ SetChannel \/ InitEspNow \/ SetPmk
  \/ RegisterConfiguredPeers \/ RegisterCallbacks

-----------------------------------------------------------------------------
(* loop, and the callbacks.                                                *)

\* A ticker may fire at any time.
Tick(k) ==
  /\ k \in attached
  /\ requested' = requested \cup {k}
  /\ due' = due \cup {k}
  /\ UNCHANGED <<doc, config, step, radioVars, routes, attached, serving, turn, reply>>

NextTurn == [sensor |-> "memory", memory |-> "serial", serial |-> "sensor"]

\* The flag is reset before the work begins.
Turn(k) ==
  /\ step = "loop" /\ turn = k /\ serving = "nothing"
  /\ turn' = NextTurn[k]
  /\ IF k \in requested
     THEN serving' = k /\ requested' = requested \ {k} /\ due' = due \ {k}
     ELSE UNCHANGED <<serving, requested, due>>
  /\ UNCHANGED <<doc, config, step, radioVars, routes, attached, reply>>

\* Faulty: the flag is reset when the work is done.
ServeAndReset(k) ==
  /\ serving = k
  /\ serving' = "nothing"
  /\ requested' = requested \ {k}
  /\ UNCHANGED <<doc, config, step, radioVars, routes, attached, turn, due, reply>>

Serve(k) ==
  /\ serving = k
  /\ serving' = "nothing"
  /\ UNCHANGED <<doc, config, step, radioVars, routes, attached, requested, turn, due, reply>>

Serial ==
  /\ step = "loop" /\ turn = "serial" /\ serving = "nothing"
  /\ turn' = NextTurn[turn]
  /\ UNCHANGED <<doc, config, step, initialised, pmk, listening, routes, attached, requested,
                 serving, due>>

NoCommand == Serial /\ reply' = Silent /\ UNCHANGED registered

\* The address is nobody's or a group's, or the content name does not begin with a slash.
Invalid(m) ==
  /\ Serial
  /\ reply' = [to |-> m, outcome |-> "invalid", code |-> NoKey]
  /\ UNCHANGED registered

\* A code can be made for packets to m; without one, buildPacketForAddress gives up.
CanBuild(m) == HmacKey(config, m) # NoKey

\* send_interest: the packet is built, the peer registered and the packet sent.
Sent(m) ==
  /\ Serial
  /\ m \in Nodes \ Groups
  /\ CanBuild(m) /\ Registered(m) /\ initialised
  /\ reply' = [to |-> m, outcome |-> "sent", code |-> HmacKey(config, m)]

\* One of these fails; the peer stays registered when only the last does.
SendFailed(m) ==
  /\ Serial
  /\ m \in Nodes \ Groups
  /\ \/ UNCHANGED registered
     \/ CanBuild(m) /\ Registered(m)
  /\ reply' = [to |-> m, outcome |-> "failed", code |-> NoKey]

\* A packet arrives, and its sender is registered with the radio if it can be.
Receive(m) ==
  /\ listening
  /\ m \in Nodes \ Groups
  /\ Registered(m)
  /\ UNCHANGED <<doc, config, step, initialised, pmk, listening, routes, loopVars>>

LoopStep ==
  \/ \E k \in Tickers : Turn(k) \/ Serve(k)
  \/ NoCommand
  \/ \E m \in Nodes \cup {NoNode} : Invalid(m) \/ Sent(m) \/ SendFailed(m)

Next ==
  \/ Setup \/ Fail \/ LoopStep
  \/ \E k \in Tickers : Tick(k)
  \/ \E m \in Nodes : Receive(m)

\* The loop task always gets on with its round.
Spec == Init /\ [][Next]_vars /\ WF_vars(LoopStep)

-----------------------------------------------------------------------------
(* Properties.                                                             *)

\* The keys and routes loaded fit the arrays they are loaded into, whatever the file.
TypeOK ==
  /\ config.encryption \in BOOLEAN /\ config.hmac \in BOOLEAN
  /\ {config.pmk, config.defaultLmk, config.hmacKey, pmk} \subseteq Keys \cup {NoKey}
  /\ config.lmks \in Seq(PeerEntries) /\ Len(config.lmks) <= MaxPeerKeyEntries
  /\ config.hmacKeys \in Seq(PeerEntries) /\ Len(config.hmacKeys) <= MaxPeerKeyEntries
  /\ routes \in Seq([name : Names, hop : Nodes]) /\ Len(routes) <= MaxFibInit
  /\ step \in {"config", "channel", "init", "pmk", "peers", "mac", "loop"}
  /\ initialised \in BOOLEAN /\ listening \in BOOLEAN
  /\ registered \in [Nodes -> Keys \cup {Clear, Absent}]
  /\ Cardinality(Peers) <= RadioPeers
  /\ attached \subseteq Tickers /\ requested \subseteq attached /\ due \subseteq attached
  /\ serving \in Tickers \cup {"nothing"} /\ turn \in {"sensor", "memory", "serial"}
  /\ reply \in [to : Nodes \cup {NoNode}, outcome : {"none", "invalid", "sent", "failed"},
                code : Keys \cup {NoKey}]

\* A node that hears others has all that its file says: the radio has the PMK and all
\* the peers listed, and keeps them however many others are met; the routes are there.
DeafUnlessReady ==
  listening =>
    /\ initialised
    /\ pmk = (IF config.encryption THEN doc.pmk ELSE NoKey)
    /\ ListedPeers \subseteq Peers
    /\ routes = LoadFibInit(doc.fib)

\* With encryption on no node is registered in clear, or under a key that the file has
\* for another one, in whichever state setup was left.
NobodyInClear ==
  config.encryption =>
    \A m \in Peers \ Groups :
      \/ registered[m] = doc.lmk
      \/ \E i \in DOMAIN doc.peers : doc.peers[i].mac = m /\ doc.peers[i].key = registered[m]

\* What a file says of the HMAC: the older format has the keys of the radio for it.
HmacWanted(d)     == IF d.legacy THEN d.lmk # NoKey ELSE d.hmacEnabled
CodeEntries(d)    == IF d.legacy THEN d.peers ELSE d.hmacPeers
DefaultCodeKey(d) == IF d.legacy THEN d.lmk ELSE d.hmacKey

\* A key was loaded for m alone.
HasCodeKey(m) == \E i \in DOMAIN config.hmacKeys : config.hmacKeys[i].mac = m

\* With HMAC enabled in the file, "INTEREST sent" is printed only for a packet that was
\* given to a radio that knows its target, and that carries a code made with a key that
\* the file has for the target alone, or with the file's default if none was loaded.
SentIsAuthentic ==
  reply.outcome = "sent" /\ HmacWanted(doc) =>
    /\ initialised /\ reply.to \in Peers /\ reply.code # NoKey
    /\ IF HasCodeKey(reply.to)
       THEN \E i \in DOMAIN CodeEntries(doc) : /\ CodeEntries(doc)[i].mac = reply.to
                                               /\ CodeEntries(doc)[i].key = reply.code
       ELSE reply.code = DefaultCodeKey(doc)

\* The newer form of a file in the older format.
Migrated(d) ==
  [ d EXCEPT !.legacy = FALSE, !.enabled = TRUE, !.hmacEnabled = (d.lmk # NoKey),
             !.hmacKey = d.lmk, !.hmacPeers = d.peers ]

\* A file in the older format sets a node up exactly as its newer form does.
LegacyAsSeparated == doc.legacy => LoadConfig(doc) = LoadConfig(Migrated(doc))

\* A ticker that fires has its work done by a round that begins afterwards, also when
\* it fires while that work is being done.
TicksAreServed == \A k \in Tickers : k \in due ~> k \notin due
=============================================================================
