----------------------------- MODULE StartupOps -----------------------------
(***************************************************************************)
(* loadSystemConfig: what is made of a configuration file, in the format   *)
(* with esp_now_security and icsn_security or in the older one with PMK,   *)
(* LMK and peers, and the keys that are looked up in the result.  A key or *)
(* an address that is missing or malformed is NoKey or NoNode, and so is   *)
(* what of the file a format does not read.                                *)
(***************************************************************************)
EXTENDS Integers, Sequences, SequencesExt

CONSTANTS
  Nodes,              \* MAC addresses
  Keys,
  MaxPeerKeyEntries,  \* MAX_PEER_KEY_ENTRIES
  MaxFibInit,         \* MAX_FIB_INIT_ENTRIES
  Names,
  NoNode, NoKey, NoName

ASSUME ConfigAssumption ==
  /\ MaxPeerKeyEntries \in Nat /\ MaxFibInit \in Nat
  /\ NoNode \notin Nodes /\ NoKey \notin Keys /\ NoName \notin Names

PeerEntries == [mac : Nodes, key : Keys]

\* What a file may hold.
DocumentType ==
  LET entries == Seq([mac : Nodes \cup {NoNode}, key : Keys \cup {NoKey}])
  IN  [ legacy : BOOLEAN, enabled : BOOLEAN, pmk : Keys \cup {NoKey}, lmk : Keys \cup {NoKey},
        peers : entries, hmacEnabled : BOOLEAN, hmacKey : Keys \cup {NoKey}, hmacPeers : entries,
        fib : Seq([name : Names \cup {NoName}, hop : Nodes \cup {NoNode}]) ]

\* The elements of s at the positions in good, in order, and the first max of them.
FirstOf(s, good, max) ==
  LET taken[i \in 0 .. Len(s)] ==
        IF i = 0 THEN <<>>
        ELSE IF i \in good /\ Len(taken[i - 1]) < max THEN Append(taken[i - 1], s[i])
        ELSE taken[i - 1]
  IN  taken[Len(s)]

\* The entries that can be read.
ReadableKeys(entries) ==
  {i \in DOMAIN entries : entries[i].mac # NoNode /\ entries[i].key # NoKey}

\* Faulty: nobody counts the entries.
LoadAllPeerKeys(entries) == FirstOf(entries, ReadableKeys(entries), Len(entries))

LoadPeerKeys(entries) == FirstOf(entries, ReadableKeys(entries), MaxPeerKeyEntries)

LoadFibInit(entries) ==
  FirstOf(entries, {i \in DOMAIN entries : entries[i].name # NoName /\ entries[i].hop # NoNode},
          MaxFibInit)

\* systemConfig while nothing is loaded.
NoConfig ==
  [ encryption |-> FALSE, pmk |-> NoKey, defaultLmk |-> NoKey, lmks |-> <<>>,
    hmac |-> FALSE, hmacKey |-> NoKey, hmacKeys |-> <<>>, fib |-> <<>> ]

\* loadSeparatedSecurityConfig: a flag counts only with a key to go with it.
Separated(doc) ==
  LET hmacKeys == LoadPeerKeys(doc.hmacPeers)
  IN  [ encryption |-> doc.enabled /\ doc.pmk # NoKey, pmk |-> doc.pmk,
        defaultLmk |-> doc.lmk, lmks |-> LoadPeerKeys(doc.peers),
        hmac |-> doc.hmacEnabled /\ (doc.hmacKey # NoKey \/ hmacKeys # <<>>),
        hmacKey |-> doc.hmacKey, hmacKeys |-> hmacKeys, fib |-> LoadFibInit(doc.fib) ]

\* Faulty: the LMK switches the HMAC on, and is not taken for its key.
LegacyKeyless(doc) ==
  [ encryption |-> doc.pmk # NoKey, pmk |-> doc.pmk,
    defaultLmk |-> doc.lmk, lmks |-> LoadPeerKeys(doc.peers),
    hmac |-> doc.lmk # NoKey, hmacKey |-> NoKey, hmacKeys |-> LoadPeerKeys(doc.peers),
    fib |-> LoadFibInit(doc.fib) ]

\* loadLegacySecurityConfig: the keys there are switch on what they are for, but the
\* keys of peers switch on nothing.
Legacy(doc) ==
  [ encryption |-> doc.pmk # NoKey, pmk |-> doc.pmk,
    defaultLmk |-> doc.lmk, lmks |-> LoadPeerKeys(doc.peers),
    hmac |-> doc.lmk # NoKey, hmacKey |-> doc.lmk, hmacKeys |-> LoadPeerKeys(doc.peers),
    fib |-> LoadFibInit(doc.fib) ]

LoadConfig(doc) == IF doc.legacy THEN Legacy(doc) ELSE Separated(doc)

\* resolveEspNowLmk: the first key of the peer, or else the default.
EspNowLmk(config, m) ==
  LET own == SelectInSeq(config.lmks, LAMBDA e : e.mac = m)
  IN  IF own # 0 THEN config.lmks[own].key ELSE config.defaultLmk

\* Faulty: with HMAC enabled the default hides the keys of peers.
HmacKeyShadowed(config, m) ==
  LET own == SelectLastInSeq(config.hmacKeys, LAMBDA e : e.mac = m)
  IN  IF config.hmac /\ config.hmacKey # NoKey THEN config.hmacKey
      ELSE IF own # 0 THEN config.hmacKeys[own].key ELSE NoKey

\* The key that packets for m are authenticated with: setPeerLMK was called for each
\* peer key in turn, and setGlobalLMK only with HMAC enabled.
HmacKey(config, m) ==
  LET own == SelectLastInSeq(config.hmacKeys, LAMBDA e : e.mac = m)
  IN  IF own # 0 THEN config.hmacKeys[own].key
      ELSE IF config.hmac THEN config.hmacKey ELSE NoKey
=============================================================================
