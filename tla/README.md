# A TLA+ model of the ESP32 ICSN sensor node

The program is the firmware of a node in an interest-centric sensor network: nodes
ask their neighbours for named contents (INTEREST), the Interests are forwarded
towards the node that has the sensor, and the content (DATA) comes back along the
path the Interests took. Everything is carried by ESP-NOW unicast frames, with a
counter and an HMAC per packet.

All paths below are relative to `src/lib/ICSN/` unless they start with `src/`.

## 1. The system

| Component | State | Operations | Used by |
|---|---|---|---|
| `FixedSizeLRUCache` (`infrastructure/data_access`) | entries on a doubly linked list, an open-addressing hash table of twice as many slots, head, tail, size | `put`, `get`, `contains`, `remove`, `clear` | CS, PIT, FIB |
| Content store, `LRUContentStore` | a cache from names to payload slots; heap or PSRAM buffers | `save`, `get`, `find`, `remove`, `clear` | use cases |
| Pending interest table, `LRUPendingInterestTable`, `FixedNodeIdSet` | a cache from names to bounded sets of requesters | `save`, `get`, `find`, `remove`, `clear` | use cases |
| FIB, `LRUForwardingInformationBase` | a cache from prefixes to entries, real (next hops) or virtual (marks at `maxVirtualDepth`) | `save`, `saveVirtualEntry`, `find`, `get`, `remove` | RIB, use cases |
| RIB, `PrefixTreeRIB` | the routes | `addRoute`, `removeRoute` | use cases at start |
| `UseCaseInteractor` | none of its own | `handleInterestReceive`, `handleDataReceive`, `handleSensorDataReceive`, `clearCSCache`, `clearPITCache`, `initFIBEntry` | controller |
| `PeerCounterManager` | 20 slots: address, tx counter, rx counter, key | `incrementTxCounter`, `validateRxCounter`, `computeHMAC`, `verifyHMAC`, `setPeerLMK` | controller |
| `ESP_NOWController` | flags, PMK, the radio's peers | start, `processReceivedPacket`, `sendPacketToAddresses`, `registerPeerIfNeeded`, `sendInterest`, `sendSensorData` | radio callback, main loop |
| Main loop (`src/src/main.cpp`) | request flags set by tickers | `setup`, `loop`, serial commands | operator |
| Configuration (`config`) | one `SystemConfig` | `loadSystemConfig`, in two formats | controller at start |
| `InterestPacketTimingBuffer` (`performance`) | up to `MAX_MEASUREMENTS` entries, the entry in progress | `record...`, `reset`, the dump | radio callback, main loop, in perf builds |
| Memory statistics, sensors, profile generator, logging | | | |

**Interactions.** The Wi-Fi task calls `onDataReceive`, which verifies the packet,
runs the use case on the tables, and sends what it answers, all in one call. The main
loop runs the serial commands, which use the same tables, counters and radio, in
another task; there is no lock. Tickers set flags that the loop reads. Nodes interact
through packets alone, and a packet is never sent again.

**What is hard here.** A hash table with linear probing whose removal leaves no
tombstone; a list that is relinked field by field; a save that is several steps of
which some may fail; tables that refuse silently when full; Interests that meet at a
relay; forwarding cycles; a counter that must match exactly over a radio that loses
packets, and that is forgotten in a restart; a two-stage prefix match over a table that
its own look-ups write to; a peer slot seen to be free and taken a moment later; a
counter that two tasks increment; a measurement that is reset while it is taken; a
start that fails half-way and a loop that runs all the same. `PROJECT.json` lists these
under `hazards`, each at its line.

**What makes each part correct.** The cache: entries, hash table and list agree, and
it is a bounded map. The content store: each payload slot has one owner, and `get`
returns what was last saved. A node: those who wait for a content are those who get it,
also when commands run at any point of a packet's handling. The link: packets are
accepted once and in order. The routing tables: the look-up is the longest prefix
match. The network: requests are answered and traffic ends. The timing buffer: the
count stays within it, and a dump shows whole measurements. The start: a node that
hears others is set up completely, and no peer is registered in clear by accident.

## 2. The modules

```
 LRUCacheOps ---- FixedSizeLRUCache ---> BoundedMap            (state machine ---> abstraction)
   |                 \- LRUCacheHistory                         MCFixedSizeLRUCache; LRUCacheProofs
   +- LRUContentStore ---> ContentStoreSpec                     MCLRUContentStore; LRUContentStoreProofs
   +- ForwardingOps -- Forwarder ---> ForwarderSpec
   |                 |    \- ForwarderHistory                   MCForwarder; ForwardingProofs
   |                 \- IcsnNetwork                             MCIcsnNetwork; ForwardingProofs
   \- LRUCacheOpsProofs: the lemmas about the cache as a data structure that
      LRUCacheProofs, LRUContentStoreProofs and ForwardingProofs extend
 PeerCounterOps -+- SecureLink                                  MCSecureLink; SecureLinkProofs
                 \- NodeTasks                                   MCNodeTasks; NodeTasksProofs
 FIBOps ----------- RoutingTables                               MCRoutingTables; ConfigurationProofs
 StartupOps ------- NodeStartup                                 MCNodeStartup; ConfigurationProofs
                    TimingBuffer                                TimingBufferProofs
```

- **LRUCacheOps** is the cache as a data structure: a record with one function per
  field of the C++ entries, and an operator per method that maps a cache to the cache
  it leaves. The probe loops are written as "the first slot the probe meets of a set".
  `Removable` is the set of keys the owner of a cache removes: none for the content
  store and the FIB, all for the PIT. **FixedSizeLRUCache** calls the operators in any
  order and remembers what each call returned. **BoundedMap** is what users of a cache
  expect, and **LRUCacheHistory** adds to the cache which name was used after which.
- **LRUContentStore** has the cache of names (the `Keys`, `MaxSize` and `Values` of the
  cache are the names, the capacity and the indices of the payload slots) and the
  slots; `Save` is the whole of `save`, with the allocation that may fail as a
  parameter. **ContentStoreSpec** is
  what it promises, the refusal of updates when full included.
- **ForwardingOps** holds what the PIT and the use cases do with a packet, as functions
  of the tables: the PIT is a cache of LRUCacheOps, the content store the map that
  LRUContentStore implements, the FIB a function to sets of next hops.
  **Forwarder** is one node with neighbours who may send anything, `ReceiveInterest`
  and `ReceiveData` for the radio task, `SendInterest`, `ReadSensor`, `ClearCS` and
  `ClearPIT` for the main loop (`clear_cache` is two actions, and packets may be
  handled in between). **ForwarderSpec** is the same node with an ideal table of who
  waits for what, and **ForwarderHistory** adds to Forwarder who asked for what and has
  not had it, whatever the tables say.
- **PeerCounterOps** is the peer table; **SecureLink** the sending and verifying of
  packets between nodes, over a radio that keeps every packet it was ever given: one
  may arrive late, again, or never. `counted` and `accepted` are histories. One
  action stands for each place where sending may end: no slot, no key, refused by
  registration or radio, gone. `Reboot` empties the table but for the configured keys.
- **NodeTasks** is one node from the inside: each task has a record with its stage and
  its local variables, and there is one action for every call of a table and every
  access to a slot of `PeerCounterManager`, so that the tasks take turns anywhere in
  between. `tx_counter++` is `ReadTx`, `StoreTx` and `ReturnTx`: the value returned
  may or may not be loaded again. Two actions take several accesses to a slot together:
  `Claim` initialises the slot it takes, and `CheckRx` reads and sets the receive counter.
  What could come in between shows only in slots of peers that are not configured, and
  no property here speaks of those slots. `given`, `asked`, `owed` and `overtaken` are histories.
- **TimingBuffer** has the same granularity for the measurements of a perf build.
- **StartupOps** is what `loadSystemConfig` makes of a file, and which key a look-up
  then finds. **NodeStartup** is `setup` with `initializeCommunication`, any step of
  which may fail, and `loop` afterwards with its flags, `send_interest` and the
  registration of peers with the radio. `reply` is what `send_interest` printed, its
  target, and the key that the code of its packet was made with.
- **FIBOps** is the two-stage match with real and virtual entries, names being
  sequences of components; **RoutingTables** is the RIB and the FIB, with routes added
  at start and names looked up afterwards.
- **IcsnNetwork** puts several nodes together with links that deliver in order, and
  may lose packets where `Lossy` says so. Every node uses ForwardingOps. `open` is the history
  of who asked for a content that existed and has had no Data. Its names differ from
  those of Forwarder, whose lemmas on the PIT its proofs share.

The three abstract specifications share with the detailed ones a variable `call`, the
last call or packet with its arguments, so that a refinement says of every single call
that it does what was asked, and not that some call could have had that effect.

A definition whose comment begins with "Faulty" is not part of the model: it is a
variant, next to the definition it could replace, with a mistake that this kind of
code invites. `PROJECT.json` pairs each with the property that notices it.

## 3. The runs

Each cfg is run with the module named in `PROJECT.json`.

| Run | Checks | Bounds, and why they are enough |
|---|---|---|
| Cache | `TypeOK`, `IndexInv`, `LinksInv`, `ListCoversEntries`, `NoLostEntry`, `RecencyOrder`, `ImplementsBoundedMap` | 4 names, 2 values, 3 entries, 6 slots. Three names share the last slot as home and wrap around, the fourth, which is also removed, has a slot to itself. The cache can be full with one name left, and the list has a head, a middle and a tail, each of which is moved and removed. |
| ContentStore | `TypeOK`, `SlotsOwned`, `ImplementsContentStore` | 3 names, two of which collide and one of which is also removed; 2 places, 2 contents; each allocation may fail. |
| Node | `TypeOK`, `ImplementsForwarder`, `OnlyAskedAnswered` | 3 neighbours and 2 names for a PIT of one entry of 2 requesters, so that the table and the set are full in turn; hop counts 0 and 1 with limit 2, so one is let in and one is not, and one wraps. What a larger table does is checked, and proved, in the cache below it. |
| Link | `TypeOK`, `CountersTakenOnce`, `AcceptedIsPrefix`, `NothingPastAGap`, `PeersKept` | 4 nodes: a and b verify; c does not, and restarts; d has no key; b has 2 slots, one configured for d, so that a and c compete for the other. 3 packets from c, which can be heard, restart, repeat a counter and reach the next; 2 from a to b, so that the first may be lost; 1 on the other links; 2 payloads, symmetric, for no action compares them. |
| Tasks | `TypeOK`, `SoleSenderCounts`, `EmptyOnlyIfCleared`, `AnswersAsked`, `KnownPeersKept`, `OwedDataGoesOut` | Both tasks, 3 packets that arrive, 2 commands. a and b are configured, c, who asks, and d, to whom the operator writes, compete for the one slot left, so that they claim the same slot, and either finds none. One name: two would not meet anywhere but in the cache, which has its own run. |
| Perf | `TypeOK`, `EntriesMeasured`, `StrayOnlyByReset`, `DumpIsStable` | 3 entries and 5 Interests: the buffer fills with Interests to spare, and a reset may come twice. |
| Startup | `TypeOK`, `DeafUnlessReady`, `NobodyInClear`, `SentIsAuthentic`, `LegacyAsSeparated`, `TicksAreServed` | 204 files: every combination of flags and keys, in both formats, with no peers, with unreadable and repeated entries, and with more entries than fit. 3 nodes and a multicast address for a radio that takes 2 peers. |
| Routing | `RoutingTypeOK`, `LpmExact` | Eight routes of depth 1 to 4 with `MaxVirtualDepth` 2: two below a mark that is itself a route, one above, one beside, and two below another mark, which are removed again; 2 hops. The RIB holds 4 of the routes; the FIB those and their marks, and little more, so copies made by look-ups sometimes find no room. The mark itself is not looked up (see RoutingLookupOverwrites). |
| Network | `NetworkTypeOK`, `NobodyWaitsForStored`, `TrafficEnds`, `RequestsAreAnswered` | 3 nodes in a cycle of next hops, one of which has the sensor and one of which asks, and a fourth that asks too; 3 requests, so that they meet; hop limit 5 lets an Interest go round more than once. The link between the sensor and the first relay loses packets; the other way back does not. |
| ForwarderCollision | `DropsOnlyUnasked` fails | 2 names with one home, 2 entries. |
| RoutingLookupOverwrites | `LookUpKeepsAnswers` fails | 6 of the names of Routing, the mark itself among those looked up. |
| TasksCounters | `CountersDiffer` fails | As Tasks, with the operator writing to a configured peer that also asks. |

The counter modulus stands for 2^32 and the hop modulus for 2^8; `MaxSends` and
`MaxArrivals` keep counters below the modulus (a link sends 2^32 packets in no plausible
lifetime, and the assumptions say so), `MaxCommands` and `MaxRequests` bound what is
typed in, and `MaxInterests` what a timing buffer sees. Link, Tasks and TasksCounters do
not check for deadlock: once these bounds are used up, nothing is left to do. All others
do.

**Fairness.** Nothing is assumed of the operator, the sensors, the tickers or the other
nodes. What is assumed is that code that has begun goes on:

- IcsnNetwork: a packet in the air is handled or lost in the end, as the radio stack
  calls the callback for each packet it received, and the callback returns. It is weak
  fairness per link, written without `ENABLED`, since the handling of a packet is
  possible exactly when there is one. `RequestsAreAnswered` also needs a way back that
  loses nothing, as the code does not repeat a lost packet, and a PIT that has room.
- NodeTasks: `WF_vars(RadioStep)` and `WF_vars(MainStep)`, as neither task waits for
  anything within a handler or a command, and both tasks are scheduled. With it,
  `OwedDataGoesOut`.
- NodeStartup: `WF_vars(LoopStep)`, as `loop` is called for ever, and takes its flags
  and the serial line in turn. With it, `TicksAreServed`.

**Findings.** Three runs end in a violation, each of a sentence in the repository's own
comments; `PROJECT.json` quotes them:

1. `FixedSizeLRUCache::remove` empties a slot in the middle of a probe sequence, and a
   colliding name behind it is out of reach, or is stored a second time. In the PIT it
   makes a node drop Data that a neighbour waits for (ForwarderCollision).
2. Looking up a name that is a virtual entry overwrites it (RoutingLookupOverwrites).
3. Both tasks may count a packet for one peer at the same time, and both packets get
   the same counter (TasksCounters). If the value returned is loaded again after both
   increments, both packets have the second value, the peer never sees the first, and
   accepts nothing more, with no packet lost at all.

**Further behaviours.** The models have these too, and no run ends in them. In two of
them, `hmac_enabled` and the counter under *Links*, the code differs from what
`src/README.md` says; the others are described in a document, or none says that they
should be otherwise.

- *Links.* A link ends with the first lost packet: `validateRxCounter` wants exactly the
  next counter. `src/README.md:31` says that values up to the last one are discarded
  ("既知の値以下の場合は破棄"), other documents describe the rule as it is.
  `src/README.md:112` has `icsn_security.hmac_enabled` enable both the verification and
  the attachment of codes ("ICSN パケットの HMAC 検証/付与を有効化するフラグ"). The code
  lets the flag govern verification alone: with it off, incoming packets are not checked
  (`ESP-NOWController.cpp:488`), but `buildPacketForAddress` still makes a code for every
  outgoing packet (`:476`), with the peer's own key, which is loaded whatever the flag says
  (`:42`), and the packet is dropped when the peer has none, as the default key is loaded
  only with the flag on (`:37`). The models follow the code. `SentIsAuthentic` speaks only of
  files with HMAC enabled, so it neither asserts nor refutes what that line says of the
  others. A node that restarted is not heard
  until it has counted past what its peers remember.
- *Forwarding.* A full PIT refuses an Interest that is then forwarded all the same. A
  full content store refuses to update a name it holds, as the new payload needs a slot
  before the old one is released. A node stores and passes on Data for an Interest it
  forwarded, but not for one that its operator typed in, which is in no PIT. Removing
  the last deep route below a name removes that name's own route from the FIB
  (`FibWithoutRoute`; the program never calls `removeRoute`).
- *Two tasks.* Two peers that are not configured can claim the same slot, and the first
  loses it with its counters. The tx counter of a peer to which both tasks write can go
  back, when one stores what it read before the other. A reading
  that is stored between the search of the content store and the entry in the PIT
  leaves a requester waiting for a content the node has, until other Data or
  `clear_cache` comes. `clear_cache` between the two searches of the store answers an
  Interest with empty content.
- *Start.* A node whose start failed is deaf, yet may send: `loop` runs and
  `send_interest` works once the radio is up. A MAC address listed twice has the last
  of its keys for the HMAC and the first for the radio. In the older format keys of
  peers without an LMK leave the HMAC disabled. The radio's peers are never deleted, so
  once it is full, nodes it does not know are not written to.
- *Timing buffer.* A reset between the test of `pending_seq` and its use stamps an entry
  at 0xFFFF, past the buffer. One that comes within `index++` may leave the count
  at one or more with entries of before; the next reset that meets no Interest repairs it.

## 4. What is proved

TLAPS checks the following for every value of the constants that the named assumptions
of each module allow: capacities, hash functions, names, nodes, keys, configurations
and bounds.

**The cache** (LRUCacheProofs, on LRUCacheOpsProofs). What an operation does to the hash
table, the list and the contents is a lemma of LRUCacheOpsProofs about any cache, so that
the content store and the PIT can use it too; LRUCacheProofs puts them together for the
state machine.

- **TypeTheorem** and **IndexTheorem**, `Spec => [](TypeOK /\ IndexInv)`. `IndexOK` is
  inductive together with the type: every used slot leads to an entry in use, no two
  slots to the same, every entry in use has a slot, and the size counts them. The counting
  is by the library's facts on finite sets.
- **LinksTheorem**, `Spec => []LinksInv`. That neighbours point at each other is not
  inductive: moving an entry that is on a cycle of its own would break it. The proof
  strengthens it with a rank (`Threaded`): some function numbers the entries in use from
  the head on, so that `next` goes up by one. `moveToFront`, `removeFromList` and the
  insertion at the head each get the rank that shows it afterwards.
- **WalkTheorem**, `Spec => []ListCoversEntries`: as many steps as the size counter says
  visit every entry in use once, and then the list ends. The walk is a recursive function
  of the number of steps. That it exists (`WalkSteps`) and that its n-th entry has the
  n-th rank are both proved from a least number for which it would not be so, since
  induction is not available; that the ranks leave no entry out follows as each but the
  first has a predecessor.
- **NothingLostTheorem**, `CollisionSafe => (Spec => [](NoLostEntry /\ UniqueKeys))`.
  `CollisionSafe` is: nothing is removed, or no two names share a home slot. In the
  first case no slot before an entry on its probe sequence is ever emptied; in the
  second each entry is at its home. Either way the probe reaches it (`Reach`).
  ForwarderCollision shows what happens without the condition.
- **RefinementTheorem**, `CollisionSafe => (Spec => ImplementsBoundedMap)`: each call
  maps to the call of the bounded map, by the invariants above.

- **RecencyTheorem**, `CollisionSafe => (SpecUsed => []RecencyOrder)`. The invariant
  (`OrderInv`) says it of the links rather than of a walk: the history `newer` relates
  stored names only, is transitive, and relates the names of each entry and the next.
  Unlinking an entry joins its two neighbours, whose order is by transitivity; `Reach` is
  needed so that a name has one entry, or the history could not tell two of them apart.

The program satisfies the first half of `CollisionSafe` for the content store, which never
removes a single name, so that its theorems have no condition there; the PIT removes every
name, so for it the condition is on the names in use. The Cache and ContentStore runs
check instances between the two, with names that collide and one that is removed.

**The content store** (LRUContentStoreProofs).

- **TypeTheorem** and **SlotsTheorem**, `Spec => []SlotsOwned`. The invariant is that the
  entries in use have payload slots in use, each its own, and that none is left over
  (`OwnedBy`); it is inductive with the types and `IndexOK` of the cache (`IInv`). It has
  no need of `Reach`: whether or not a put finds the entry it should, it writes the new
  slot to one entry, which held the old slot or was not in use. So no buffer leaks even
  when a removal has put a name out of reach.
- **RefinementTheorem**, `CollisionSafe => (Spec => ImplementsContentStore)`. With `Reach`
  what a name leads to is what the map of the cache from names to slots says, and what
  a call does to the content of each name is read off that map and the buffers. The
  promise counts the names stored, and the code looks for a free slot: that one is free
  exactly if fewer names are stored than there are slots is `StoredCounted`, by a
  bijection between the names and the slots in use.

**The node and the network** (ForwardingProofs).

- **TypeTheorem**. The PIT satisfies `IndexOK` after any packets and commands, its
  entries hold sets of at least one and at most `RequestersPerEntry` neighbours, and the
  hop counts of all packets sent fit their byte: the code adds one to a hop count only
  below the limit, or wraps.
- **RefinementTheorem**, `CollisionSafe /\ NothingCut => (Spec => ImplementsForwarder)`.
  Who waits for a name is the map of the PIT; `get` and `remove` together take a name out
  of it, a merge is an update, and a refusal, of a full table or a full set, leaves it as
  it was. `NothingCut` says that no list of receivers is longer than `MAX_TX_ADDRESSES`,
  beyond which the code drops the rest: both node profiles of the repository have 4 or 8
  requesters and next hops for 20 places.
- **AskedTheorem**, `CollisionSafe => (SpecAsked => OnlyAskedAnswered)`, from the invariant
  that whoever waits in the PIT is in the history of those who asked (`AskedInv`).
- **NetworkTypeTheorem**, `NetworkTypeOK`, for any nodes, links and FIBs.
- **WaitTheorem**, `CollisionSafe => (NetworkSpec => []NobodyWaitsForStored)`. The property is
  inductive with `Reach` of every PIT. An Interest is recorded only for a name that is not
  stored, and the Data that brings a content in takes its name out of the PIT, where,
  by `Reach`, it was just once; Data for which nobody waits is not stored. Neither FIBs nor
  losses play a part.

**The link** (SecureLinkProofs, which begins with lemmas about the peer table).
The inductive invariant `IInv` adds to the type: the tx counter is the number of packets
counted, or less after a restart (`TxInv`); each packet in the air from a node that
does not restart has the payload that was counted under its counter (`AirInv`); and the
rx counter at a node that does not restart is the number of packets accepted
(`RxInv`). None of the properties is inductive without them: what is accepted next
depends on the rx counter, and whether that is in order on what is in the air.

- **TypeTheorem**; **OnceTheorem**, `CountersTakenOnce`, restarts of the sender included;
  **PrefixTheorem**, `AcceptedIsPrefix`, from that and `AirInv`; **GapTheorem**,
  `NothingPastAGap`; **KeptTheorem**, the action property `PeersKept`.

**Two tasks** (NodeTasksProofs). The invariant says what each task may have in its local
variables at each stage (`TaskOK`): it takes a slot only for a node that is not
configured, and the slot it uses is a configured peer's exactly when it is about that
peer. Together with the place of the configured peers in the table (`PeersInv`) that
holds however the steps interleave, although a slot may change its owner between the
look-up and the use. On it rests the count of a peer that the Wi-Fi task alone writes
to (`SoleInv`: the counter is the number of packets built, plus one between counting
and building; `BoundInv`: each packet that arrives leads to at most one for that peer,
which keeps the counter from wrapping).

- **TypeTheorem**; **SoleSenderTheorem**, `SoleSenderCounts`; **KnownPeersTheorem**, the
  action property `KnownPeersKept`.
- **EmptyTheorem**, `EmptyOnlyIfCleared`, and **AnswersTheorem**, `AnswersAsked`, from a
  second invariant on top of the first (`OwingInv`). An empty answer goes out only at the
  stage that searches the store again; `EmptyInv` says that at that stage the content
  is there or `clear_cache` came in between. The Data already given to a neighbour, that
  still to be given by the handler under way, and one for each of its entries in the PIT
  are together no more than the Interests it sent (`AskedInv`).

**The timing buffer** (TimingBufferProofs). `BoundsInv` says where `index` and `pending_seq`
stand with resets at any time, `ResetInv` what holds since a reset that met no Interest,
and `ProgressInv` which stamps the entry in progress has at each stage.

- **TypeTheorem**, that the count never passes the end of the buffer; **MeasuredTheorem**,
  `EntriesMeasured`; **StrayTheorem** and **DumpTheorem**, the action properties
  `StrayOnlyByReset` and `DumpIsStable`.

**The start** (ConfigurationProofs). What `loadSystemConfig` takes of a list is read entry by
entry by a recursive function, of which two facts suffice: what it returns is from the
readable entries, and not longer than it may be (`FirstOfFrom`, from a least position where
that would fail). The invariant says what holds at each step of `setup` and wherever it
stopped: which part of the configuration is loaded (`ConfigInv`), what the radio has been
told (`RadioInv`, `PmkInv`), that whoever listens has everything (`ReadyInv`), and what the
last command was answered with and which key its packet was authenticated with
(`ReplyInv`).

- **TypeTheorem**; **ReadyTheorem**, `DeafUnlessReady`; **LegacyTheorem**,
  `LegacyAsSeparated`, each for files of any length, with any entries, as are the next two.
- **EncryptionTheorem**, `NobodyInClear`. Broadcast and multicast addresses, which the
  code registers in clear, are excepted.
- **AuthenticTheorem**, `SentIsAuthentic`: of files with HMAC enabled. What is sent carries
  a code by a key that the file has for the target, since the last entry loaded for a peer
  is an entry of the file (`CodeKeyFrom`), or by the default if none was loaded; if nothing
  was loaded at all there is no key, and nothing is sent.

**The routing tables** (ConfigurationProofs).

- **RoutingTypeTheorem**, `RoutingSpec => []RoutingTypeOK`, together with the finiteness
  of what is counted.
- **LpmTheorem**, `LookUpConditions => (RoutingSpec => []LpmExact)`, for names of any depth.
  A lemma about any tables (`LookUpAnswers`) shows that the two stages find the longest
  prefix match if three things hold, which each operation is then shown to keep: every
  route has a real entry with the next hops of the RIB (`RoutesInv`); every mark tells of
  all depths below it, and no other entry that stage 1 can stop at tells of any
  (`MarksInv`); and the copies that `get` leaves are right for the names they are under
  (`CopiesInv`). While routes are added, the last also says that there is nothing in
  the FIB but routes and marks, so that there is room for the next one (`RoomTakes`).
- **LookUpTheorem**, `LookUpConditions => (RoutingSpec => LookUpKeepsAnswers)`.

`LookUpConditions` is four things. `FibRoom`: the FIB holds any routes that the RIB holds,
with their marks. `SameHops`: both tables hold as many next hops, as they do by default
and in both node profiles of the repository (`src/node_profiles/`); otherwise one drops a
hop the other has. `MarksNotAsked`: nobody asks for a name that is a mark;
RoutingLookupOverwrites is a counterexample without it. `RemovalsApart`: what may be
removed is not a mark, has no route for its mark, and is no prefix of a name that is asked
for; the program removes nothing. The constants of the Routing run satisfy all four.

**Only model-checked.** Liveness (`TrafficEnds`, `RequestsAreAnswered`, `OwedDataGoesOut`,
`TicksAreServed`), which is out of the prover's reach and stays with TLC, as does everything about what a recursive function returns beyond what a least
counterexample can show. The proofs of independent parts repeat a few small lemmas, such
as the least element of a set of numbers, rather than share a module.

## 5. What is not modelled

- The copying of strings into fixed-size fields, the conversion of MAC addresses to text
  and back, and the layout of a packet: names, nodes and contents are model values, and
  packets are well formed.
- HMAC-SHA256 and the radio, which are modelled from how the code uses them: a code by
  the key it was made with, the radio by what it takes, refuses, loses and repeats.
- Within one call of the content store, the PIT or the FIB: NodeTasks takes such a
  call as one step. Two tasks inside one cache at the same time would be a data race on
  its list and hash table, of which C++ promises nothing.
- A packet whose sender cannot be registered with the radio is dropped before it is
  looked at. NodeStartup has the registration; SecureLink and NodeTasks begin behind it.
- The interest tickers: `startInterestTicker` is never called, and the other one is
  attached only with `AUTO_INTEREST_ENABLED`, which is false. (`AUTO_SENSOR_ENABLED` is
  false as well, and a CONSTANT here; the Startup run sets it, for two tickers.)
- The commands that only print, memory statistics and logging; the sensor drivers,
  which the program does not call; the profile generator, a build step whose numbers
  are the CONSTANTS here; entities and boundaries, which are immutable values and
  abstract classes.
- IcsnNetwork is not composed with the counters of SecureLink: with a link that ends
  at the first loss, its `RequestsAreAnswered` would only be about the links that are
  left.
- The Routing run and LpmTheorem give the FIB room for all routes and their marks. What a
  route that found no room should do, nothing in the repository says.

## 6. What could come next

1. The FIB as an instance of LRUCacheOps, as the PIT is: `PutEntry` and `RemoveEntry` of
   FIBOps would become put and remove of a cache, under `CollisionSafe`.
2. The content store of ForwardingOps in the same way, from what LRUContentStoreProofs
   says of `ImplementsContentStore`.
3. NodeTasks and IcsnNetwork as implementations of one specification of a node, so that
   what is proved of one task at a time carries over to two.
