------------------------ MODULE ConfigurationProofs ------------------------
(***************************************************************************)
(* Theorems about a node's configuration.  NodeStartup first: what holds   *)
(* of a node wherever its setup stopped, for any set of configuration      *)
(* files, any sizes of the arrays they are loaded into and of the radio's  *)
(* table of peers.  Then RoutingTables: for any names, routes and sizes of *)
(* the tables, the tables are well formed, and their look-up is the        *)
(* longest prefix match.                                                   *)
(***************************************************************************)
EXTENDS NodeStartup, RoutingTables, FiniteSetTheorems, SequenceTheorems, WellFoundedInduction, TLAPS

\* A non-empty set of natural numbers has a least element: where a loop over a list
\* stops, or would first go wrong.
LEMMA LeastExists ==
  ASSUME NEW T, T \subseteq Nat, T # {}
  PROVE  \E x \in T : \A y \in T : x <= y
<1> DEFINE U == {0 .. x : x \in T}
           R == StrictSubsetOrdering(Nat)
<1>1. U \subseteq FiniteSubsetsOf(Nat) /\ U # {}
  <2>1. \A x \in T : IsFiniteSet(0 .. x) /\ 0 .. x \in SUBSET Nat
    BY FS_Interval
  <2>2. QED
    BY <2>1 DEF FiniteSubsetsOf
<1>2. PICK u \in U : \A v \in U : ~ (<<v, u>> \in R)
  BY <1>1, FS_StrictSubsetOrderingWellFounded, WFMin
<1>3. PICK x \in T : u = 0 .. x
  BY <1>2
<1>4. ASSUME NEW y \in T, y < x
      PROVE  FALSE
  <2>1. 0 .. y \in U /\ 0 .. y \in SUBSET Nat /\ u \in SUBSET Nat
    BY <1>3
  <2>2. 0 .. y \subseteq u /\ 0 .. y # u
    BY <1>3, <1>4
  <2>3. <<0 .. y, u>> \in R
    BY <2>1, <2>2 DEF StrictSubsetOrdering
  <2>4. QED
    BY <1>2, <2>1, <2>3
<1>5. QED
  BY <1>4

\* The greatest of some numbers up to k is one of them, and none is above it.
LEMMA MaxFinds ==
  ASSUME NEW k \in Nat, NEW S \in SUBSET (1 .. k), S # {}
  PROVE  Max(S) \in S /\ \A p \in S : p <= Max(S)
<1> DEFINE T == {k - p : p \in S}
<1>1. T \subseteq Nat /\ T # {}
  <2>1. \A p \in S : k - p \in Nat
    OBVIOUS
  <2>2. QED
    BY <2>1
<1> HIDE DEF T
<1>2. PICK t \in T : \A u \in T : t <= u
  BY <1>1, LeastExists
<1>3. PICK p \in S : t = k - p
  BY DEF T
<1>4. \A q \in S : p >= q
  <2> TAKE q \in S
  <2>1. k - q \in T
    BY DEF T
  <2>2. k - p <= k - q /\ p \in Nat /\ q \in Nat
    BY <1>2, <1>3, <2>1
  <2>3. QED
    BY <2>2
<1>5. Max(S) \in S /\ \A q \in S : Max(S) >= q
  BY <1>4, Zenon DEF Max
<1>6. QED
  BY <1>5

-----------------------------------------------------------------------------
(* Loading lists, and finding keys in them.                                *)

\* What is loaded of a list are elements at the positions it may be loaded from, and
\* no more than there is room for.
LEMMA FirstOfFrom ==
  ASSUME NEW T, NEW s \in Seq(T), NEW good, good \subseteq DOMAIN s, NEW max \in Nat
  PROVE  /\ FirstOf(s, good, max) \in Seq({s[i] : i \in good})
         /\ Len(FirstOf(s, good, max)) <= max
<1> DEFINE n == Len(s)
           V == {s[i] : i \in good}
           next(f, i) == IF i = 0 THEN <<>>
                         ELSE IF i \in good /\ Len(f[i - 1]) < max THEN Append(f[i - 1], s[i])
                         ELSE f[i - 1]
           IsLoad(f, k) == f = [i \in 0 .. k |-> next(f, i)]
           load == CHOOSE f : IsLoad(f, n)
<1>1. n \in Nat /\ DOMAIN s = 1 .. n
  BY LenProperties
<1>2. FirstOf(s, good, max) = load[n]
  BY DEF FirstOf
<1> HIDE DEF n
<1>3. /\ \A f : next(f, 0) = <<>>
      /\ \A f, g, i : f[i - 1] = g[i - 1] => next(f, i) = next(g, i)
      /\ \A f : \A i \in 1 .. n :
           \/ i \in good /\ Len(f[i - 1]) < max /\ next(f, i) = Append(f[i - 1], s[i])
           \/ next(f, i) = f[i - 1]
  BY <1>1
<1> HIDE DEF next
<1>4. \A f, k : IsLoad(f, k) => \A i \in 0 .. k : f[i] = next(f, i)
  OBVIOUS
<1>5. \A h, k : (\A i \in 0 .. k : h[i] = next(h, i)) /\ h = [i \in 0 .. k |-> h[i]] => IsLoad(h, k)
  OBVIOUS
<1> HIDE DEF IsLoad
<1>6. \A k \in 0 .. n : \E f : IsLoad(f, k)
  <2> DEFINE Bad == {k \in 0 .. n : ~ \E f : IsLoad(f, k)}
  <2>1. SUFFICES ASSUME Bad # {} PROVE FALSE
    OBVIOUS
  <2>2. PICK k \in Bad : \A j \in Bad : k <= j
    <3>1. Bad \subseteq Nat
      BY <1>1
    <3> HIDE DEF Bad
    <3>2. QED
      BY <2>1, <3>1, LeastExists
  <2>3. k \in 0 .. n /\ k \in Nat /\ ~ \E f : IsLoad(f, k)
    BY <1>1, <2>2
  <2>4. \A j \in 0 .. n : j < k => \E f : IsLoad(f, j)
    BY <1>1, <2>2, <2>3
  <2> HIDE DEF Bad
  <2>5. CASE k = 0
    <3> DEFINE f == [i \in 0 .. k |-> <<>>]
    <3>1. \A i \in 0 .. k : i = 0 /\ f[i] = <<>>
      BY <2>5
    <3>2. f = [i \in 0 .. k |-> f[i]]
      OBVIOUS
    <3> HIDE DEF f
    <3>3. \A i \in 0 .. k : f[i] = next(f, i)
      BY <1>3, <3>1
    <3>4. QED
      BY <1>5, <2>3, <3>2, <3>3
  <2>6. CASE k # 0
    <3>1. k - 1 \in 0 .. n /\ k - 1 < k
      BY <1>1, <2>3, <2>6
    <3>2. PICK f : IsLoad(f, k - 1)
      BY <2>4, <3>1
    <3> DEFINE g == [i \in 0 .. k |-> IF i < k THEN f[i] ELSE next(f, k)]
    <3>3. g = [i \in 0 .. k |-> g[i]]
      OBVIOUS
    <3>4. (\A i \in 0 .. k - 1 : g[i] = f[i]) /\ g[k] = next(f, k)
      BY <2>3, <2>6
    <3> HIDE DEF g
    <3>5. \A i \in 0 .. k : g[i] = next(f, i)
      <4>1. \A i \in 0 .. k : i = k \/ i \in 0 .. k - 1
        BY <2>3
      <4>2. QED
        BY <1>4, <3>2, <3>4, <4>1
    <3>6. \A i \in 0 .. k : next(f, i) = next(g, i)
      <4> TAKE i \in 0 .. k
      <4>1. CASE i = 0
        BY <1>3, <4>1
      <4>2. CASE i # 0
        <5>1. i - 1 \in 0 .. k - 1
          BY <2>3, <4>2
        <5>2. QED
          BY <1>3, <3>4, <5>1
      <4>3. QED
        BY <4>1, <4>2
    <3>7. QED
      BY <1>5, <2>3, <3>3, <3>5, <3>6
  <2>7. QED
    BY <2>5, <2>6
<1>7. IsLoad(load, n)
  <2>1. n \in 0 .. n
    BY <1>1
  <2>2. QED
    BY <1>6, <2>1
<1> HIDE DEF load, V
<1>8. \A k \in 0 .. n : load[k] \in Seq(V) /\ Len(load[k]) <= max
  <2> DEFINE Bad == {k \in 0 .. n : ~(load[k] \in Seq(V) /\ Len(load[k]) <= max)}
  <2>1. SUFFICES ASSUME Bad # {} PROVE FALSE
    OBVIOUS
  <2>2. PICK k \in Bad : \A j \in Bad : k <= j
    <3>1. Bad \subseteq Nat
      BY <1>1
    <3> HIDE DEF Bad
    <3>2. QED
      BY <2>1, <3>1, LeastExists
  <2>3. k \in 0 .. n /\ k \in Nat /\ ~(load[k] \in Seq(V) /\ Len(load[k]) <= max)
    BY <1>1, <2>2
  <2>4. \A j \in 0 .. n : j < k => load[j] \in Seq(V) /\ Len(load[j]) <= max
    BY <1>1, <2>2, <2>3
  <2> HIDE DEF Bad
  <2>5. CASE k = 0
    <3>1. load[0] = <<>>
      BY <1>3, <1>4, <1>7, <2>3, <2>5
    <3>2. load[0] \in Seq(V) /\ Len(load[0]) = 0
      BY <3>1
    <3>3. QED
      BY <2>3, <2>5, <3>2
  <2>6. CASE k # 0
    <3>1. k - 1 \in 0 .. n /\ k \in 1 .. n /\ k - 1 < k
      BY <1>1, <2>3, <2>6
    <3>2. load[k - 1] \in Seq(V) /\ Len(load[k - 1]) <= max /\ Len(load[k - 1]) \in Nat
      BY <2>4, <3>1, LenProperties
    <3>3. load[k] = next(load, k)
      BY <1>4, <1>7, <2>3
    <3>4. CASE k \in good /\ Len(load[k - 1]) < max /\ load[k] = Append(load[k - 1], s[k])
      <4>1. s[k] \in V
        BY <3>4 DEF V
      <4>2. load[k] \in Seq(V) /\ Len(load[k]) = Len(load[k - 1]) + 1
        BY <3>2, <3>4, <4>1, AppendProperties
      <4>3. Len(load[k]) <= max
        BY <3>2, <3>4, <4>2
      <4>4. QED
        BY <2>3, <4>2, <4>3
    <3>5. CASE load[k] = load[k - 1]
      BY <2>3, <3>2, <3>5
    <3>6. QED
      BY <1>3, <3>1, <3>3, <3>4, <3>5
  <2>7. QED
    BY <2>5, <2>6
<1>9. n \in 0 .. n
  BY <1>1
<1>10. load[n] \in Seq(V) /\ Len(load[n]) <= max
  BY <1>8, <1>9
<1>11. QED
  BY <1>2, <1>10 DEF V

\* The key of a peer is that of an entry for it, or the default.
LEMMA KeyFrom ==
  ASSUME NEW c, NEW m, Len(c.lmks) \in Nat
  PROVE  \/ EspNowLmk(c, m) = c.defaultLmk
         \/ \E i \in 1 .. Len(c.lmks) : c.lmks[i].mac = m /\ EspNowLmk(c, m) = c.lmks[i].key
<1> DEFINE own == {i \in 1 .. Len(c.lmks) : c.lmks[i].mac = m}
           at == IF own # {} THEN Min(own) ELSE 0
<1>1. EspNowLmk(c, m) = IF at # 0 THEN c.lmks[at].key ELSE c.defaultLmk
  BY DEF EspNowLmk, SelectInSeq
<1>2. own \subseteq Nat /\ 0 \notin own
  OBVIOUS
<1>3. own # {} => at \in own
  <2> HIDE DEF own
  <2>1. SUFFICES ASSUME own # {} PROVE Min(own) \in own
    OBVIOUS
  <2>2. PICK x \in own : \A y \in own : x <= y
    BY <1>2, <2>1, LeastExists
  <2>3. QED
    BY <2>2 DEF Min
<1>4. at # 0 => at \in own
  BY <1>3
<1> HIDE DEF at
<1>5. QED
  BY <1>1, <1>4

\* The key for the codes of a peer is that of an entry for it, if there is one, and else
\* the global one.
LEMMA CodeKeyFrom ==
  ASSUME NEW c, NEW m, Len(c.hmacKeys) \in Nat, HmacKey(c, m) # NoKey
  PROVE  IF \E i \in 1 .. Len(c.hmacKeys) : c.hmacKeys[i].mac = m
         THEN \E i \in 1 .. Len(c.hmacKeys) :
                c.hmacKeys[i].mac = m /\ HmacKey(c, m) = c.hmacKeys[i].key
         ELSE HmacKey(c, m) = c.hmacKey
<1> DEFINE n == Len(c.hmacKeys)
           own == {i \in 1 .. n : c.hmacKeys[i].mac = m}
           at == IF own # {} THEN Max(own) ELSE 0
<1>1. HmacKey(c, m) = IF at # 0 THEN c.hmacKeys[at].key
                      ELSE IF c.hmac THEN c.hmacKey ELSE NoKey
  BY DEF HmacKey, SelectLastInSeq
<1>2. own \in SUBSET (1 .. n) /\ 0 \notin own
  OBVIOUS
<1>3. CASE own # {}
  <2>1. at \in own
    <3> HIDE DEF own
    <3>1. Max(own) \in own
      BY <1>2, <1>3, MaxFinds
    <3>2. QED
      BY <1>3, <3>1
  <2>2. at # 0
    BY <1>2, <2>1
  <2> HIDE DEF at
  <2>3. at \in 1 .. n /\ c.hmacKeys[at].mac = m /\ HmacKey(c, m) = c.hmacKeys[at].key
    BY <1>1, <2>1, <2>2
  <2>4. QED
    BY <2>3
<1>4. CASE own = {}
  <2>1. at = 0 /\ ~ \E i \in 1 .. n : c.hmacKeys[i].mac = m
    BY <1>4
  <2> HIDE DEF at, own
  <2>2. HmacKey(c, m) = c.hmacKey
    BY <1>1, <2>1
  <2>3. QED
    BY <2>1, <2>2
<1>5. QED
  BY <1>3, <1>4

\* Keys of peers are loaded from entries of the file, and fit the array.
LEMMA LoadPeerKeysType ==
  ASSUME NEW list \in Seq([mac : Nodes \cup {NoNode}, key : Keys \cup {NoKey}])
  PROVE  LET u == LoadPeerKeys(list)
         IN  /\ u \in Seq(PeerEntries) /\ Len(u) <= MaxPeerKeyEntries
             /\ \A k \in 1 .. Len(u) : \E i \in DOMAIN list : u[k] = list[i]
<1> DEFINE V == {list[i] : i \in ReadableKeys(list)}
           u == LoadPeerKeys(list)
<1>1. u \in Seq(V) /\ Len(u) <= MaxPeerKeyEntries
  <2>1. ReadableKeys(list) \subseteq DOMAIN list /\ MaxPeerKeyEntries \in Nat
    BY ConfigAssumption DEF ReadableKeys
  <2>2. QED
    BY <2>1, FirstOfFrom DEF LoadPeerKeys
<1>2. V \subseteq PeerEntries
  <2> SUFFICES ASSUME NEW i \in ReadableKeys(list) PROVE list[i] \in PeerEntries
    OBVIOUS
  <2>1. i \in 1 .. Len(list) /\ list[i].mac # NoNode /\ list[i].key # NoKey
    BY LenProperties DEF ReadableKeys
  <2>2. list[i] \in [mac : Nodes \cup {NoNode}, key : Keys \cup {NoKey}]
    BY <2>1, ElementOfSeq
  <2>3. QED
    BY <2>1, <2>2 DEF PeerEntries
<1>3. V \subseteq {list[i] : i \in DOMAIN list}
  BY DEF ReadableKeys
<1> HIDE DEF u, V
<1>4. \A k \in 1 .. Len(u) : u[k] \in V
  BY <1>1, ElementOfSeq
<1>5. u \in Seq(PeerEntries)
  BY <1>1, <1>2, SeqMonotonic
<1>6. QED
  BY <1>1, <1>3, <1>4, <1>5 DEF u

LEMMA LoadFibInitType ==
  ASSUME NEW list \in Seq([name : Names \cup {NoName}, hop : Nodes \cup {NoNode}])
  PROVE  LET u == LoadFibInit(list)
         IN  u \in Seq([name : Names, hop : Nodes]) /\ Len(u) <= MaxFibInit
<1> DEFINE good == {i \in DOMAIN list : list[i].name # NoName /\ list[i].hop # NoNode}
           V == {list[i] : i \in good}
           u == LoadFibInit(list)
<1>1. u \in Seq(V) /\ Len(u) <= MaxFibInit
  <2>1. good \subseteq DOMAIN list /\ MaxFibInit \in Nat
    BY ConfigAssumption
  <2>2. QED
    BY <2>1, FirstOfFrom DEF LoadFibInit
<1>2. V \subseteq [name : Names, hop : Nodes]
  <2> SUFFICES ASSUME NEW i \in good PROVE list[i] \in [name : Names, hop : Nodes]
    OBVIOUS
  <2>1. i \in 1 .. Len(list) /\ list[i].name # NoName /\ list[i].hop # NoNode
    BY LenProperties
  <2>2. list[i] \in [name : Names \cup {NoName}, hop : Nodes \cup {NoNode}]
    BY <2>1, ElementOfSeq
  <2>3. QED
    BY <2>1, <2>2
<1> HIDE DEF u, V
<1>3. u \in Seq([name : Names, hop : Nodes])
  BY <1>1, <1>2, SeqMonotonic
<1>4. QED
  BY <1>1, <1>3 DEF u

\* What systemConfig may hold.
ConfigType ==
  [ encryption : BOOLEAN, pmk : Keys \cup {NoKey}, defaultLmk : Keys \cup {NoKey},
    lmks : {u \in Seq(PeerEntries) : Len(u) <= MaxPeerKeyEntries},
    hmac : BOOLEAN, hmacKey : Keys \cup {NoKey},
    hmacKeys : {u \in Seq(PeerEntries) : Len(u) <= MaxPeerKeyEntries},
    fib : {u \in Seq([name : Names, hop : Nodes]) : Len(u) <= MaxFibInit} ]

LEMMA NoConfigType == NoConfig \in ConfigType
<1>1. <<>> \in Seq(PeerEntries) /\ <<>> \in Seq([name : Names, hop : Nodes]) /\ Len(<<>>) = 0
  OBVIOUS
<1>2. 0 <= MaxPeerKeyEntries /\ 0 <= MaxFibInit
  BY ConfigAssumption
<1>3. QED
  BY <1>1, <1>2 DEF NoConfig, ConfigType

\* In either format the keys and the routes come from the file.
LEMMA LoadConfigType ==
  ASSUME NEW d \in DocumentType
  PROVE  LET c == LoadConfig(d)
         IN  /\ c \in ConfigType
             /\ c.pmk = d.pmk /\ c.defaultLmk = d.lmk /\ c.fib = LoadFibInit(d.fib)
             /\ \A k \in 1 .. Len(c.lmks) : \E i \in DOMAIN d.peers : c.lmks[k] = d.peers[i]
             /\ c.hmacKey = DefaultCodeKey(d)
             /\ \A k \in 1 .. Len(c.hmacKeys) :
                  \E i \in DOMAIN CodeEntries(d) : c.hmacKeys[k] = CodeEntries(d)[i]
<1> DEFINE own == LoadPeerKeys(d.peers)
           codes == LoadPeerKeys(d.hmacPeers)
           entries == LoadFibInit(d.fib)
           c == LoadConfig(d)
<1>1. /\ d.legacy \in BOOLEAN /\ d.enabled \in BOOLEAN /\ d.hmacEnabled \in BOOLEAN
      /\ d.pmk \in Keys \cup {NoKey} /\ d.lmk \in Keys \cup {NoKey} /\ d.hmacKey \in Keys \cup {NoKey}
      /\ d.peers \in Seq([mac : Nodes \cup {NoNode}, key : Keys \cup {NoKey}])
      /\ d.hmacPeers \in Seq([mac : Nodes \cup {NoNode}, key : Keys \cup {NoKey}])
      /\ d.fib \in Seq([name : Names \cup {NoName}, hop : Nodes \cup {NoNode}])
  BY DEF DocumentType
<1>2. /\ own \in Seq(PeerEntries) /\ Len(own) <= MaxPeerKeyEntries
      /\ \A k \in 1 .. Len(own) : \E i \in DOMAIN d.peers : own[k] = d.peers[i]
      /\ codes \in Seq(PeerEntries) /\ Len(codes) <= MaxPeerKeyEntries
      /\ \A k \in 1 .. Len(codes) : \E i \in DOMAIN d.hmacPeers : codes[k] = d.hmacPeers[i]
      /\ entries \in Seq([name : Names, hop : Nodes]) /\ Len(entries) <= MaxFibInit
  BY <1>1, LoadPeerKeysType, LoadFibInitType
<1>3. CASE d.legacy
  <2>1. c = [ encryption |-> d.pmk # NoKey, pmk |-> d.pmk, defaultLmk |-> d.lmk, lmks |-> own,
              hmac |-> d.lmk # NoKey, hmacKey |-> d.lmk, hmacKeys |-> own, fib |-> entries ]
    BY <1>3 DEF LoadConfig, Legacy
  <2> HIDE DEF own, codes, entries, c
  <2>2. c \in ConfigType
    BY <1>1, <1>2, <2>1 DEF ConfigType
  <2>3. /\ c.pmk = d.pmk /\ c.defaultLmk = d.lmk /\ c.fib = entries /\ c.lmks = own
        /\ c.hmacKey = d.lmk /\ c.hmacKeys = own
    BY <2>1
  <2>4. DefaultCodeKey(d) = d.lmk /\ CodeEntries(d) = d.peers
    BY <1>3 DEF DefaultCodeKey, CodeEntries
  <2>5. QED
    BY <1>2, <2>2, <2>3, <2>4 DEF c, entries
<1>4. CASE ~d.legacy
  <2>1. c = [ encryption |-> d.enabled /\ d.pmk # NoKey, pmk |-> d.pmk, defaultLmk |-> d.lmk,
              lmks |-> own, hmac |-> d.hmacEnabled /\ (d.hmacKey # NoKey \/ codes # <<>>),
              hmacKey |-> d.hmacKey, hmacKeys |-> codes, fib |-> entries ]
    BY <1>4 DEF LoadConfig, Separated
  <2> HIDE DEF own, codes, entries, c
  <2>2. c \in ConfigType
    BY <1>1, <1>2, <2>1 DEF ConfigType
  <2>3. /\ c.pmk = d.pmk /\ c.defaultLmk = d.lmk /\ c.fib = entries /\ c.lmks = own
        /\ c.hmacKey = d.hmacKey /\ c.hmacKeys = codes
    BY <2>1
  <2>4. DefaultCodeKey(d) = d.hmacKey /\ CodeEntries(d) = d.hmacPeers
    BY <1>4 DEF DefaultCodeKey, CodeEntries
  <2>5. QED
    BY <1>2, <2>2, <2>3, <2>4 DEF c, entries
<1>5. QED
  BY <1>3, <1>4

\* The two formats agree on what a file in the older one says.
LEMMA LegacyIsSeparated ==
  ASSUME NEW d \in DocumentType, d.legacy
  PROVE  LoadConfig(d) = LoadConfig(Migrated(d))
<1> DEFINE e == Migrated(d)
<1>1. /\ e.legacy = FALSE /\ e.enabled = TRUE /\ e.hmacEnabled = (d.lmk # NoKey)
      /\ e.pmk = d.pmk /\ e.lmk = d.lmk /\ e.peers = d.peers /\ e.hmacKey = d.lmk
      /\ e.hmacPeers = d.peers /\ e.fib = d.fib
  BY DEF Migrated, DocumentType
<1> HIDE DEF e
<1>2. LoadConfig(d) = Legacy(d) /\ LoadConfig(e) = Separated(e)
  BY <1>1 DEF LoadConfig
<1>3. Separated(e) = Legacy(d)
  BY <1>1 DEF Separated, Legacy
<1>4. QED
  BY <1>2, <1>3 DEF e
-----------------------------------------------------------------------------
(* The inductive invariant.                                                *)

Steps == {"config", "channel", "init", "pmk", "peers", "mac", "loop"}

\* A file is loaded whole, by the first step, or not at all.
ConfigInv ==
  /\ doc \in Documents /\ step \in Steps
  /\ config \in {NoConfig, LoadConfig(doc)}
  /\ step = "config" => config = NoConfig
  /\ step \in Steps \ {"config", "loop"} => config = LoadConfig(doc)
  /\ routes = config.fib

\* The radio has each of its peers with the key that registerPeerIfNeeded gives, none
\* before the file is loaded, and those listed once setup has got past them.
RadioInv ==
  /\ initialised \in BOOLEAN
  /\ registered \in [Nodes -> Keys \cup {Clear, Absent}]
  /\ Cardinality(Peers) <= RadioPeers
  /\ \A m \in Peers : registered[m] = Cipher(m) /\ Cipher(m) # NoKey
  /\ step = "config" => Peers = {}
  /\ step \in {"pmk", "peers", "mac"} => initialised
  /\ step = "mac" => ListedPeers \subseteq Peers

PmkIsSet == pmk = (IF config.encryption THEN config.pmk ELSE NoKey)

PmkInv ==
  /\ pmk \in {NoKey, config.pmk}
  /\ step \in {"config", "channel", "init", "pmk"} => pmk = NoKey
  /\ step \in {"peers", "mac"} => PmkIsSet

\* The callbacks are registered by the last step of setup.
ReadyInv ==
  /\ listening \in BOOLEAN
  /\ listening => /\ step = "loop" /\ initialised /\ config = LoadConfig(doc) /\ PmkIsSet
                  /\ ListedPeers \subseteq Peers

TickerInv ==
  /\ attached \subseteq Tickers /\ requested \subseteq attached /\ due \subseteq attached
  /\ serving \in Tickers \cup {"nothing"} /\ turn \in {"sensor", "memory", "serial"}
  /\ step # "loop" => attached = {}

Coded == reply.code # NoKey /\ reply.code = HmacKey(config, reply.to)

\* What was sent carries a code made with the key of its target; nothing is sent before
\* the loop.
ReplyInv ==
  /\ reply \in [to : Nodes \cup {NoNode}, outcome : {"none", "invalid", "sent", "failed"},
                code : Keys \cup {NoKey}]
  /\ step # "loop" => reply = Silent
  /\ reply.outcome = "sent" => initialised /\ reply.to \in Peers /\ Coded

IInv == ConfigInv /\ RadioInv /\ PmkInv /\ ReadyInv /\ TickerInv /\ ReplyInv

\* The key of a peer is one of the keys of the file, or none.
LEMMA KeyTyped ==
  ASSUME NEW c \in ConfigType, NEW m
  PROVE  EspNowLmk(c, m) \in Keys \cup {NoKey} /\ HmacKey(c, m) \in Keys \cup {NoKey}
<1>1. /\ c.lmks \in Seq(PeerEntries) /\ Len(c.lmks) \in Nat
      /\ c.defaultLmk \in Keys \cup {NoKey}
      /\ c.hmacKeys \in Seq(PeerEntries) /\ Len(c.hmacKeys) \in Nat
      /\ c.hmacKey \in Keys \cup {NoKey}
  BY LenProperties DEF ConfigType
<1>2. \A u \in Seq(PeerEntries) : \A i \in 1 .. Len(u) : u[i].key \in Keys
  <2> TAKE u \in Seq(PeerEntries)
  <2> TAKE i \in 1 .. Len(u)
  <2>1. u[i] \in PeerEntries
    BY ElementOfSeq
  <2>2. QED
    BY <2>1 DEF PeerEntries
<1>3. EspNowLmk(c, m) \in Keys \cup {NoKey}
  <2>1. \/ EspNowLmk(c, m) = c.defaultLmk
        \/ \E i \in 1 .. Len(c.lmks) : EspNowLmk(c, m) = c.lmks[i].key
    BY <1>1, KeyFrom
  <2>2. QED
    BY <1>1, <1>2, <2>1
<1>4. HmacKey(c, m) \in Keys \cup {NoKey}
  <2>1. \/ HmacKey(c, m) \in {NoKey, c.hmacKey}
        \/ \E i \in 1 .. Len(c.hmacKeys) : HmacKey(c, m) = c.hmacKeys[i].key
    BY <1>1, CodeKeyFrom
  <2>2. QED
    BY <1>1, <1>2, <2>1
<1>5. QED
  BY <1>3, <1>4

LEMMA ConfigTyped ==
  ASSUME ConfigInv
  PROVE  /\ config \in ConfigType /\ doc \in DocumentType
         /\ config = NoConfig \/ config = LoadConfig(doc)
         /\ \A m : EspNowLmk(config, m) \in Keys \cup {NoKey}
         /\ \A m : HmacKey(config, m) \in Keys \cup {NoKey}
         /\ \A m : Cipher(m) \in Keys \cup {NoKey, Clear}
<1>1. doc \in DocumentType
  BY StartupAssumption DEF ConfigInv
<1>2. config \in ConfigType
  BY <1>1, NoConfigType, LoadConfigType DEF ConfigInv
<1>3. \A m : /\ EspNowLmk(config, m) \in Keys \cup {NoKey}
             /\ HmacKey(config, m) \in Keys \cup {NoKey}
  BY <1>2, KeyTyped
<1>4. \A m : Cipher(m) \in Keys \cup {NoKey, Clear}
  BY <1>3 DEF Cipher
<1>5. QED
  BY <1>1, <1>2, <1>3, <1>4 DEF ConfigInv

LEMMA PeersAre ==
  ASSUME RadioInv
  PROVE  /\ Peers \subseteq Nodes /\ IsFiniteSet(Peers) /\ Cardinality(Peers) \in Nat
         /\ \A m \in Nodes : m \in Peers <=> registered[m] # Absent
<1>1. IsFiniteSet(Peers)
  BY StartupAssumption, FS_Subset DEF Peers
<1>2. QED
  BY <1>1, FS_CardinalityType DEF Peers

LEMMA InitInv == Init => IInv
<1> SUFFICES ASSUME Init PROVE IInv
  OBVIOUS
<1>1. Peers = {} /\ Cardinality(Peers) = 0
  BY FS_EmptySet DEF Init, Peers
<1>2. ConfigInv
  BY DEF Init, ConfigInv, Steps, NoConfig
<1>3. RadioInv
  <2>1. Cardinality(Peers) <= RadioPeers
    BY <1>1, StartupAssumption
  <2>2. registered \in [Nodes -> Keys \cup {Clear, Absent}] /\ initialised = FALSE /\ step = "config"
    BY DEF Init
  <2>3. QED
    BY <1>1, <2>1, <2>2 DEF RadioInv
<1>4. PmkInv /\ ReadyInv /\ TickerInv
  BY DEF Init, PmkInv, ReadyInv, TickerInv
<1>5. ReplyInv
  BY DEF Init, ReplyInv, Silent
<1>6. QED
  BY <1>2, <1>3, <1>4, <1>5 DEF IInv

-----------------------------------------------------------------------------
(* Steps that leave the peers alone.                                       *)

\* What is looked up depends on the configuration alone.
LEMMA SameConfig ==
  ASSUME UNCHANGED <<config, registered>>
  PROVE  /\ Peers' = Peers /\ ListedPeers' = ListedPeers
         /\ \A m : Cipher(m)' = Cipher(m)
         /\ Coded /\ reply' = reply => Coded'
BY DEF Peers, ListedPeers, Cipher, Coded

LEMMA FailInv == IInv /\ Fail => IInv'
<1> SUFFICES ASSUME IInv, Fail PROVE IInv'
  OBVIOUS
<1>1. /\ step' = "loop" /\ step \in Steps /\ step \in Steps \ {"peers", "loop"}
      /\ UNCHANGED <<doc, config, initialised, pmk, registered, listening, routes, attached,
                     requested, serving, turn, due, reply>>
  BY DEF Fail, radioVars, loopVars, Steps
<1>2. /\ Peers' = Peers /\ ListedPeers' = ListedPeers
      /\ \A m : Cipher(m)' = Cipher(m)
      /\ Coded /\ reply' = reply => Coded'
  BY <1>1, SameConfig
<1>3. ConfigInv'
  BY <1>1 DEF IInv, ConfigInv, Steps
<1>4. RadioInv'
  BY <1>1, <1>2 DEF IInv, RadioInv
<1>5. PmkInv' /\ TickerInv'
  BY <1>1 DEF IInv, PmkInv, PmkIsSet, TickerInv
<1>6. ReadyInv'
  BY <1>1, <1>2 DEF IInv, ReadyInv, PmkIsSet
<1>7. ReplyInv'
  BY <1>1, <1>2 DEF IInv, ReplyInv
<1>8. QED
  BY <1>3, <1>4, <1>5, <1>6, <1>7 DEF IInv

LEMMA LoadInv == IInv /\ LoadAndApplyConfig => IInv'
<1> SUFFICES ASSUME IInv, LoadAndApplyConfig PROVE IInv'
  OBVIOUS
<1>1. /\ step = "config" /\ step' = "channel" /\ config' = LoadConfig(doc) /\ routes' = config'.fib
      /\ UNCHANGED <<doc, initialised, pmk, registered, listening, attached, requested, serving,
                     turn, due, reply>>
  BY DEF LoadAndApplyConfig, radioVars, loopVars
<1>2. Peers = {} /\ Peers' = Peers /\ pmk = NoKey /\ ~listening /\ reply = Silent
  BY <1>1 DEF IInv, RadioInv, PmkInv, ReadyInv, ReplyInv, Peers
<1>3. ConfigInv'
  BY <1>1 DEF IInv, ConfigInv, Steps
<1>4. RadioInv'
  BY <1>1, <1>2 DEF IInv, RadioInv
<1>5. PmkInv'
  BY <1>1, <1>2 DEF PmkInv
<1>6. ReadyInv'
  BY <1>1, <1>2 DEF IInv, ReadyInv
<1>7. TickerInv'
  BY <1>1 DEF IInv, TickerInv
<1>8. ReplyInv'
  BY <1>1, <1>2 DEF IInv, ReplyInv, Silent
<1>9. QED
  BY <1>3, <1>4, <1>5, <1>6, <1>7, <1>8 DEF IInv

\* The channel, the radio and its PMK.
LEMMA RadioSetupInv == IInv /\ (SetChannel \/ InitEspNow \/ SetPmk) => IInv'
<1> SUFFICES ASSUME IInv, SetChannel \/ InitEspNow \/ SetPmk PROVE IInv'
  OBVIOUS
<1>1. /\ \/ step = "channel" /\ step' = "init" /\ UNCHANGED <<initialised, pmk>>
         \/ step = "init" /\ step' = "pmk" /\ initialised' = TRUE /\ UNCHANGED pmk
         \/ /\ step = "pmk" /\ step' = "peers" /\ UNCHANGED initialised
            /\ pmk' = IF config.encryption THEN config.pmk ELSE pmk
      /\ UNCHANGED <<doc, config, registered, listening, routes, attached, requested, serving,
                     turn, due, reply>>
  BY DEF SetChannel, InitEspNow, SetPmk, radioVars, loopVars
<1>2. /\ Peers' = Peers /\ ListedPeers' = ListedPeers
      /\ \A m : Cipher(m)' = Cipher(m)
  BY <1>1, SameConfig
<1>3. pmk = NoKey /\ ~listening /\ reply = Silent /\ reply.outcome # "sent"
  BY <1>1 DEF IInv, PmkInv, ReadyInv, ReplyInv, Silent
<1>4. ConfigInv'
  BY <1>1 DEF IInv, ConfigInv, Steps
<1>5. RadioInv'
  BY <1>1, <1>2 DEF IInv, RadioInv
<1>6. PmkInv'
  BY <1>1, <1>3 DEF PmkInv, PmkIsSet
<1>7. ReadyInv' /\ TickerInv'
  BY <1>1, <1>3 DEF IInv, ReadyInv, TickerInv
<1>8. ReplyInv'
  BY <1>1, <1>3 DEF IInv, ReplyInv
<1>9. QED
  BY <1>4, <1>5, <1>6, <1>7, <1>8 DEF IInv

LEMMA CallbacksInv == IInv /\ RegisterCallbacks => IInv'
<1> SUFFICES ASSUME IInv, RegisterCallbacks PROVE IInv'
  OBVIOUS
<1>1. /\ step = "mac" /\ step' = "loop" /\ listening' = TRUE
      /\ attached' = (IF AutoSensor THEN {"sensor"} ELSE {}) \cup (IF PerfBuild THEN {"memory"} ELSE {})
      /\ requested' = IF AutoSensor THEN {"sensor"} ELSE {}
      /\ UNCHANGED <<doc, config, initialised, pmk, registered, routes, serving, turn, due, reply>>
  BY DEF RegisterCallbacks
<1>2. /\ Peers' = Peers /\ ListedPeers' = ListedPeers
      /\ \A m : Cipher(m)' = Cipher(m)
  BY <1>1, SameConfig
<1>3. ConfigInv'
  BY <1>1 DEF IInv, ConfigInv, Steps
<1>4. RadioInv'
  BY <1>1, <1>2 DEF IInv, RadioInv
<1>5. PmkInv'
  BY <1>1 DEF IInv, PmkInv
<1>6. ReadyInv'
  <2>1. config = LoadConfig(doc)
    BY <1>1 DEF IInv, ConfigInv, Steps
  <2>2. initialised /\ PmkIsSet /\ ListedPeers \subseteq Peers
    BY <1>1 DEF IInv, RadioInv, PmkInv
  <2>3. QED
    BY <1>1, <1>2, <2>1, <2>2 DEF ReadyInv, PmkIsSet
<1>7. TickerInv'
  <2>1. attached = {} /\ due = {}
    BY <1>1 DEF IInv, TickerInv
  <2>2. QED
    BY <1>1, <2>1 DEF IInv, TickerInv, Tickers
<1>8. ReplyInv'
  BY <1>1 DEF IInv, ReplyInv, Silent
<1>9. QED
  BY <1>3, <1>4, <1>5, <1>6, <1>7, <1>8 DEF IInv

\* A ticker fires, or the loop looks at what it asks for and does it.
LEMMA TickerStepsInv ==
  ASSUME IInv, NEW k \in Tickers, Tick(k) \/ Turn(k) \/ Serve(k)
  PROVE  IInv'
<1>1. /\ UNCHANGED <<doc, config, step, initialised, pmk, registered, listening, routes, attached, reply>>
      /\ requested' \subseteq requested \cup (attached \cap {k})
      /\ due' \subseteq due \cup (attached \cap {k})
      /\ serving' \in {serving, k, "nothing"}
      /\ turn' = turn \/ turn' = NextTurn[k]
  BY DEF Tick, Turn, Serve, radioVars
<1>2. /\ Peers' = Peers /\ ListedPeers' = ListedPeers
      /\ \A m : Cipher(m)' = Cipher(m)
      /\ Coded /\ reply' = reply => Coded'
  BY <1>1, SameConfig
<1>3. ConfigInv' /\ PmkInv'
  BY <1>1 DEF IInv, ConfigInv, PmkInv, PmkIsSet
<1>4. RadioInv'
  BY <1>1, <1>2 DEF IInv, RadioInv
<1>5. ReadyInv'
  BY <1>1, <1>2 DEF IInv, ReadyInv, PmkIsSet
<1>6. TickerInv'
  <2>1. NextTurn[k] \in {"sensor", "memory", "serial"}
    BY DEF NextTurn, Tickers
  <2>2. QED
    BY <1>1, <2>1 DEF IInv, TickerInv
<1>7. ReplyInv'
  BY <1>1, <1>2 DEF IInv, ReplyInv
<1>8. QED
  BY <1>3, <1>4, <1>5, <1>6, <1>7 DEF IInv

-----------------------------------------------------------------------------
(* Steps that register peers.                                              *)

\* A peer that the radio takes keeps what is known of those it has.
LEMMA RegisteredGrows ==
  ASSUME IInv, NEW m \in Nodes, Registered(m), UNCHANGED config
  PROVE  /\ registered' \in [Nodes -> Keys \cup {Clear, Absent}]
         /\ Peers' = Peers \cup {m} /\ Cardinality(Peers') <= RadioPeers
         /\ \A n \in Peers' : registered'[n] = Cipher(n)' /\ Cipher(n)' # NoKey
         /\ m \in Peers \/ initialised
<1>1. \A n : Cipher(n)' = Cipher(n)
  BY DEF Cipher
<1>2. registered \in [Nodes -> Keys \cup {Clear, Absent}] /\ Cardinality(Peers) <= RadioPeers
  BY DEF IInv, RadioInv
<1>3. Peers \subseteq Nodes /\ IsFiniteSet(Peers) /\ Cardinality(Peers) \in Nat
  BY PeersAre DEF IInv
<1>4. CASE m \in Peers
  <2>1. registered' = registered
    BY <1>4 DEF Registered
  <2>2. Peers' = Peers
    BY <2>1 DEF Peers
  <2>3. QED
    BY <1>1, <1>2, <1>4, <2>1, <2>2 DEF IInv, RadioInv
<1>5. CASE m \notin Peers
  <2>1. CanRegister(m) /\ registered' = [registered EXCEPT ![m] = Cipher(m)]
    BY <1>5 DEF Registered
  <2>2. initialised /\ Cipher(m) # NoKey /\ Cardinality(Peers) < RadioPeers
    BY <2>1 DEF CanRegister
  <2>3. Cipher(m) \in Keys \cup {Clear} /\ Cipher(m) # Absent
    BY <2>2, ConfigTyped, CipherAssumption DEF IInv
  <2>4. /\ registered' \in [Nodes -> Keys \cup {Clear, Absent}]
        /\ \A n \in Nodes : registered'[n] = IF n = m THEN Cipher(m) ELSE registered[n]
    BY <1>2, <2>1, <2>3
  <2>5. Peers' = Peers \cup {m}
    BY <2>3, <2>4 DEF Peers
  <2>6. Cardinality(Peers') <= RadioPeers
    <3>1. Cardinality(Peers \cup {m}) = Cardinality(Peers) + 1
      BY <1>3, <1>5, FS_AddElement
    <3>2. QED
      BY <1>3, <2>2, <2>5, <3>1, StartupAssumption
  <2>7. \A n \in Peers' : registered'[n] = Cipher(n) /\ Cipher(n) # NoKey
    BY <1>3, <2>2, <2>4, <2>5 DEF IInv, RadioInv
  <2>8. QED
    BY <1>1, <2>2, <2>4, <2>5, <2>6, <2>7
<1>6. QED
  BY <1>4, <1>5

\* A step of the loop or of the Wi-Fi task that may register a peer.
LEMMA GrowingInv ==
  ASSUME IInv, NEW m \in Nodes, Registered(m) \/ UNCHANGED registered,
         UNCHANGED <<doc, config, step, initialised, pmk, listening, routes>>,
         TickerInv', ReplyInv', step # "config" \/ UNCHANGED registered
  PROVE  IInv'
<1>1. CASE UNCHANGED registered
  <2>1. /\ Peers' = Peers /\ ListedPeers' = ListedPeers
        /\ \A n : Cipher(n)' = Cipher(n)
    BY <1>1, SameConfig
  <2>2. ConfigInv' /\ PmkInv'
    BY DEF IInv, ConfigInv, PmkInv, PmkIsSet
  <2>3. RadioInv'
    BY <1>1, <2>1 DEF IInv, RadioInv
  <2>4. ReadyInv'
    BY <2>1 DEF IInv, ReadyInv, PmkIsSet
  <2>5. QED
    BY <2>2, <2>3, <2>4 DEF IInv
<1>2. CASE step # "config" /\ Registered(m)
  <2>1. /\ registered' \in [Nodes -> Keys \cup {Clear, Absent}]
        /\ Peers' = Peers \cup {m} /\ Cardinality(Peers') <= RadioPeers
        /\ \A n \in Peers' : registered'[n] = Cipher(n)' /\ Cipher(n)' # NoKey
    BY <1>2, RegisteredGrows
  <2>2. ListedPeers' = ListedPeers
    BY DEF ListedPeers
  <2>3. ConfigInv' /\ PmkInv'
    BY DEF IInv, ConfigInv, PmkInv, PmkIsSet
  <2>4. RadioInv'
    BY <1>2, <2>1, <2>2 DEF IInv, RadioInv
  <2>5. ReadyInv'
    BY <2>1, <2>2 DEF IInv, ReadyInv, PmkIsSet
  <2>6. QED
    BY <2>3, <2>4, <2>5 DEF IInv
<1>3. QED
  BY <1>1, <1>2

LEMMA ReceiveInv == ASSUME IInv, NEW m \in Nodes, Receive(m) PROVE IInv'
<1>1. /\ listening /\ Registered(m)
      /\ UNCHANGED <<doc, config, step, initialised, pmk, listening, routes, attached, requested,
                     serving, turn, due, reply>>
  BY DEF Receive, loopVars
<1>2. step = "loop"
  BY <1>1 DEF IInv, ReadyInv
<1>3. TickerInv'
  BY <1>1 DEF IInv, TickerInv
<1>4. ReplyInv'
  <2>1. Peers' = Peers \cup {m}
    BY <1>1, RegisteredGrows
  <2>2. Coded => Coded'
    BY <1>1 DEF Coded
  <2>3. QED
    BY <1>1, <2>1, <2>2 DEF IInv, ReplyInv
<1>5. QED
  BY <1>1, <1>2, <1>3, <1>4, GrowingInv

LEMMA SerialInv ==
  ASSUME IInv, Serial, UNCHANGED registered \/ \E m \in Nodes : Registered(m),
         ReplyInv'
  PROVE  IInv'
<1>1. /\ step = "loop" /\ turn' = NextTurn[turn] /\ turn = "serial"
      /\ UNCHANGED <<doc, config, step, initialised, pmk, listening, routes, attached, requested,
                     serving, due>>
  BY DEF Serial
<1>2. TickerInv'
  BY <1>1 DEF IInv, TickerInv, NextTurn
<1>3. CASE UNCHANGED registered
  <2>1. /\ Peers' = Peers /\ ListedPeers' = ListedPeers
        /\ \A n : Cipher(n)' = Cipher(n)
    BY <1>1, <1>3, SameConfig
  <2>2. ConfigInv' /\ PmkInv'
    BY <1>1 DEF IInv, ConfigInv, PmkInv, PmkIsSet
  <2>3. RadioInv'
    BY <1>1, <1>3, <2>1 DEF IInv, RadioInv
  <2>4. ReadyInv'
    BY <1>1, <2>1 DEF IInv, ReadyInv, PmkIsSet
  <2>5. QED
    BY <1>2, <2>2, <2>3, <2>4 DEF IInv
<1>4. CASE \E m \in Nodes : Registered(m)
  BY <1>1, <1>2, <1>4, GrowingInv
<1>5. QED
  BY <1>3, <1>4

LEMMA LoopStepInv == IInv /\ LoopStep => IInv'
<1> SUFFICES ASSUME IInv, LoopStep PROVE IInv'
  OBVIOUS
<1>1. ASSUME NEW k \in Tickers, Turn(k) \/ Serve(k) PROVE IInv'
  BY <1>1, TickerStepsInv
<1>2. CASE NoCommand
  <2>1. Serial /\ reply' = Silent /\ UNCHANGED registered
    BY <1>2 DEF NoCommand
  <2>2. ReplyInv'
    BY <2>1 DEF ReplyInv, Silent
  <2>3. QED
    BY <2>1, <2>2, SerialInv
<1>3. ASSUME NEW m \in Nodes \cup {NoNode}, Invalid(m) PROVE IInv'
  <2>1. Serial /\ UNCHANGED registered /\ reply' = [to |-> m, outcome |-> "invalid", code |-> NoKey]
    BY <1>3 DEF Invalid
  <2>2. ReplyInv'
    BY <2>1 DEF ReplyInv, Serial
  <2>3. QED
    BY <2>1, <2>2, SerialInv
<1>4. ASSUME NEW m \in Nodes \cup {NoNode}, Sent(m) PROVE IInv'
  <2>1. /\ Serial /\ m \in Nodes /\ CanBuild(m) /\ Registered(m) /\ initialised
        /\ reply' = [to |-> m, outcome |-> "sent", code |-> HmacKey(config, m)]
    BY <1>4 DEF Sent
  <2>2. step' = "loop" /\ initialised' = initialised /\ config' = config
    BY <2>1 DEF Serial
  <2>3. Peers' = Peers \cup {m}
    BY <2>1, <2>2, RegisteredGrows
  <2>4. Coded'
    BY <2>1, <2>2 DEF CanBuild, Coded
  <2>5. ReplyInv'
    <3>1. HmacKey(config, m) \in Keys \cup {NoKey}
      BY ConfigTyped DEF IInv
    <3>2. QED
      BY <2>1, <2>2, <2>3, <2>4, <3>1 DEF ReplyInv
  <2>6. QED
    BY <2>1, <2>5, SerialInv
<1>5. ASSUME NEW m \in Nodes \cup {NoNode}, SendFailed(m) PROVE IInv'
  <2>1. /\ Serial /\ m \in Nodes
        /\ UNCHANGED registered \/ Registered(m)
        /\ reply' = [to |-> m, outcome |-> "failed", code |-> NoKey]
    BY <1>5 DEF SendFailed
  <2>2. ReplyInv'
    BY <2>1 DEF ReplyInv, Serial
  <2>3. QED
    BY <2>1, <2>2, SerialInv
<1>6. QED
  BY <1>1, <1>2, <1>3, <1>4, <1>5 DEF LoopStep

\* setup has tried every peer that the file lists.
LEMMA ConfiguredPeersInv == IInv /\ RegisterConfiguredPeers => IInv'
<1> SUFFICES ASSUME IInv, RegisterConfiguredPeers PROVE IInv'
  OBVIOUS
<1>1. PICK S \in SUBSET ListedPeers :
        /\ RegisterSome(S)
        /\ step' = IF ListedPeers \subseteq Peers \cup S THEN "mac" ELSE "loop"
  BY DEF RegisterConfiguredPeers
<1>2. /\ step = "peers"
      /\ UNCHANGED <<doc, config, initialised, pmk, listening, routes, attached, requested,
                     serving, turn, due, reply>>
  BY DEF RegisterConfiguredPeers, loopVars
<1>3. /\ \A m \in S : m \notin Peers /\ Cipher(m) # NoKey
      /\ Cardinality(Peers \cup S) <= RadioPeers
      /\ registered' = [m \in Nodes |-> IF m \in S THEN Cipher(m) ELSE registered[m]]
  BY <1>1 DEF RegisterSome
<1>4. ListedPeers \subseteq Nodes
  <2>1. config.lmks \in Seq(PeerEntries)
    BY ConfigTyped DEF IInv, ConfigType
  <2>2. \A i \in DOMAIN config.lmks : config.lmks[i] \in PeerEntries
    BY <2>1
  <2>3. QED
    BY <2>2 DEF ListedPeers, PeerEntries
<1>5. \A m \in S : Cipher(m) \in Keys \cup {Clear} /\ Cipher(m) # Absent
  BY <1>3, ConfigTyped, CipherAssumption DEF IInv
<1>6. registered \in [Nodes -> Keys \cup {Clear, Absent}]
  BY DEF IInv, RadioInv
<1>7. /\ registered' \in [Nodes -> Keys \cup {Clear, Absent}]
      /\ \A m \in Nodes : registered'[m] = IF m \in S THEN Cipher(m) ELSE registered[m]
  BY <1>3, <1>5, <1>6
<1>8. Peers' = Peers \cup S
  BY <1>1, <1>4, <1>5, <1>7 DEF Peers
<1>9. ListedPeers' = ListedPeers /\ \A m : Cipher(m)' = Cipher(m)
  BY <1>2 DEF ListedPeers, Cipher
<1>10. ConfigInv'
  BY <1>1, <1>2 DEF IInv, ConfigInv, Steps
<1>11. RadioInv'
  <2>1. \A m \in Peers' : registered'[m] = Cipher(m) /\ Cipher(m) # NoKey
    <3> TAKE m \in Peers'
    <3>1. m \in Nodes
      BY <1>1, <1>4, <1>8 DEF Peers
    <3>2. CASE m \in S
      BY <1>3, <1>7, <3>1, <3>2
    <3>3. CASE m \notin S
      BY <1>7, <1>8, <3>1, <3>3 DEF IInv, RadioInv
    <3>4. QED
      BY <3>2, <3>3
  <2>2. step' \in {"mac", "loop"} /\ (step' = "mac" => ListedPeers' \subseteq Peers')
    BY <1>1, <1>8, <1>9
  <2>3. initialised \in BOOLEAN /\ initialised
    BY <1>2 DEF IInv, RadioInv
  <2>4. Cardinality(Peers') <= RadioPeers
    BY <1>3, <1>8
  <2>5. QED
    BY <1>2, <1>7, <1>9, <2>1, <2>2, <2>3, <2>4 DEF RadioInv
<1>12. PmkInv'
  BY <1>1, <1>2 DEF IInv, PmkInv, PmkIsSet
<1>13. ~listening /\ reply = Silent /\ attached = {}
  BY <1>2 DEF IInv, ReadyInv, ReplyInv, TickerInv
<1>14. ReadyInv' /\ TickerInv'
  BY <1>2, <1>13 DEF IInv, ReadyInv, TickerInv
<1>15. ReplyInv'
  BY <1>2, <1>13 DEF IInv, ReplyInv, Silent
<1>16. QED
  BY <1>10, <1>11, <1>12, <1>14, <1>15 DEF IInv

LEMMA StepsKeepInv == IInv /\ [Next]_vars => IInv'
<1> SUFFICES ASSUME IInv, [Next]_vars PROVE IInv'
  OBVIOUS
<1>1. CASE Setup
  BY <1>1, LoadInv, RadioSetupInv, ConfiguredPeersInv, CallbacksInv DEF Setup
<1>2. CASE Fail
  BY <1>2, FailInv
<1>3. CASE LoopStep
  BY <1>3, LoopStepInv
<1>4. ASSUME NEW k \in Tickers, Tick(k) PROVE IInv'
  BY <1>4, TickerStepsInv
<1>5. ASSUME NEW m \in Nodes, Receive(m) PROVE IInv'
  BY <1>5, ReceiveInv
<1>6. CASE UNCHANGED vars
  <2>1. UNCHANGED <<doc, config, step, initialised, pmk, registered, listening, routes, attached,
                    requested, serving, turn, due, reply>>
    BY <1>6 DEF vars, radioVars, loopVars
  <2>2. /\ Peers' = Peers /\ ListedPeers' = ListedPeers
        /\ \A m : Cipher(m)' = Cipher(m)
        /\ Coded => Coded'
    BY <2>1, SameConfig
  <2>3. ConfigInv' /\ PmkInv' /\ TickerInv'
    BY <2>1 DEF IInv, ConfigInv, PmkInv, PmkIsSet, TickerInv
  <2>4. RadioInv' /\ ReadyInv'
    BY <2>1, <2>2 DEF IInv, RadioInv, ReadyInv, PmkIsSet
  <2>5. ReplyInv'
    BY <2>1, <2>2 DEF IInv, ReplyInv
  <2>6. QED
    BY <2>3, <2>4, <2>5 DEF IInv
<1>7. QED
  BY <1>1, <1>2, <1>3, <1>4, <1>5, <1>6 DEF Next

-----------------------------------------------------------------------------
(* What a node has and does, wherever its setup stopped.                   *)

LEMMA InvTypeOK == IInv => TypeOK
<1> SUFFICES ASSUME IInv PROVE TypeOK
  OBVIOUS
<1>1. /\ config.encryption \in BOOLEAN /\ config.hmac \in BOOLEAN
      /\ config.pmk \in Keys \cup {NoKey} /\ config.defaultLmk \in Keys \cup {NoKey}
      /\ config.hmacKey \in Keys \cup {NoKey}
      /\ config.lmks \in Seq(PeerEntries) /\ Len(config.lmks) <= MaxPeerKeyEntries
      /\ config.hmacKeys \in Seq(PeerEntries) /\ Len(config.hmacKeys) <= MaxPeerKeyEntries
      /\ config.fib \in Seq([name : Names, hop : Nodes]) /\ Len(config.fib) <= MaxFibInit
  BY ConfigTyped DEF IInv, ConfigType
<1>2. pmk \in Keys \cup {NoKey} /\ routes = config.fib /\ step \in Steps
  BY <1>1 DEF IInv, PmkInv, ConfigInv
<1>3. QED
  BY <1>1, <1>2 DEF IInv, RadioInv, ReadyInv, TickerInv, ReplyInv, TypeOK, Steps

LEMMA InvReady == IInv => DeafUnlessReady
<1> SUFFICES ASSUME IInv, listening PROVE
      /\ initialised
      /\ pmk = (IF config.encryption THEN doc.pmk ELSE NoKey)
      /\ ListedPeers \subseteq Peers
      /\ routes = LoadFibInit(doc.fib)
  BY DEF DeafUnlessReady
<1>1. initialised /\ PmkIsSet /\ ListedPeers \subseteq Peers /\ config = LoadConfig(doc)
  BY DEF IInv, ReadyInv
<1>2. doc \in DocumentType /\ routes = config.fib
  BY ConfigTyped DEF IInv, ConfigInv
<1>3. config.pmk = doc.pmk /\ config.fib = LoadFibInit(doc.fib)
  BY <1>1, <1>2, LoadConfigType
<1>4. QED
  BY <1>1, <1>2, <1>3 DEF PmkIsSet

LEMMA InvNobodyInClear == IInv => NobodyInClear
<1> SUFFICES ASSUME IInv, config.encryption, NEW m \in Peers \ Groups
             PROVE  \/ registered[m] = doc.lmk
                    \/ \E i \in DOMAIN doc.peers : /\ doc.peers[i].mac = m
                                                   /\ doc.peers[i].key = registered[m]
  BY DEF NobodyInClear
<1>1. config = LoadConfig(doc) /\ doc \in DocumentType /\ config \in ConfigType
  BY ConfigTyped DEF IInv, NoConfig
<1>2. registered[m] = EspNowLmk(config, m)
  BY DEF IInv, RadioInv, Cipher
<1>3. /\ config.defaultLmk = doc.lmk /\ config.lmks \in Seq(PeerEntries)
      /\ \A k \in 1 .. Len(config.lmks) : \E i \in DOMAIN doc.peers : config.lmks[k] = doc.peers[i]
  BY <1>1, LoadConfigType DEF ConfigType
<1> DEFINE c == config
           T == PeerEntries
<1>4. c.lmks \in Seq(T)
  BY <1>3
<1> HIDE DEF c, T
<1>5. \/ EspNowLmk(c, m) = c.defaultLmk
      \/ \E i \in 1 .. Len(c.lmks) : c.lmks[i].mac = m /\ EspNowLmk(c, m) = c.lmks[i].key
  BY <1>4, KeyFrom
<1>6. QED
  BY <1>2, <1>3, <1>5 DEF c

LEMMA InvAuthentic == IInv => SentIsAuthentic
<1> SUFFICES ASSUME IInv, reply.outcome = "sent"
             PROVE  /\ initialised /\ reply.to \in Peers /\ reply.code # NoKey
                    /\ IF HasCodeKey(reply.to)
                       THEN \E i \in DOMAIN CodeEntries(doc) :
                              /\ CodeEntries(doc)[i].mac = reply.to
                              /\ CodeEntries(doc)[i].key = reply.code
                       ELSE reply.code = DefaultCodeKey(doc)
  BY DEF SentIsAuthentic
<1>1. /\ initialised /\ reply.to \in Peers
      /\ reply.code # NoKey /\ reply.code = HmacKey(config, reply.to)
  BY DEF IInv, ReplyInv, Coded
<1>2. doc \in DocumentType /\ config \in ConfigType /\ (config = NoConfig \/ config = LoadConfig(doc))
  BY ConfigTyped DEF IInv
<1> DEFINE c == config
           m == reply.to
<1>3. DOMAIN c.hmacKeys = 1 .. Len(c.hmacKeys) /\ Len(c.hmacKeys) \in Nat
  <2>1. c.hmacKeys \in Seq(PeerEntries)
    BY <1>2 DEF ConfigType
  <2>2. QED
    BY <2>1, LenProperties
<1>4. reply.code = HmacKey(c, m) /\ HmacKey(c, m) # NoKey
  BY <1>1
<1>5. HasCodeKey(m) <=> \E i \in 1 .. Len(c.hmacKeys) : c.hmacKeys[i].mac = m
  BY <1>3 DEF HasCodeKey
<1>6. config = LoadConfig(doc)
  <2>1. SUFFICES ASSUME config = NoConfig PROVE FALSE
    BY <1>2
  <2>2. c.hmacKeys = <<>> /\ c.hmacKey = NoKey
    BY <2>1 DEF NoConfig
  <2>3. ~ \E i \in 1 .. Len(c.hmacKeys) : c.hmacKeys[i].mac = m
    BY <2>2
  <2> HIDE DEF c, m
  <2>4. HmacKey(c, m) = c.hmacKey
    BY <1>3, <1>4, <2>3, CodeKeyFrom
  <2>5. QED
    BY <1>4, <2>2, <2>4
<1>7. /\ c.hmacKey = DefaultCodeKey(doc)
      /\ \A k \in 1 .. Len(c.hmacKeys) :
           \E i \in DOMAIN CodeEntries(doc) : c.hmacKeys[k] = CodeEntries(doc)[i]
  BY <1>2, <1>6, LoadConfigType
<1> HIDE DEF c, m
<1>8. CASE HasCodeKey(m)
  <2>1. PICK k \in 1 .. Len(c.hmacKeys) :
          c.hmacKeys[k].mac = m /\ HmacKey(c, m) = c.hmacKeys[k].key
    BY <1>3, <1>4, <1>5, <1>8, CodeKeyFrom
  <2>2. \E i \in DOMAIN CodeEntries(doc) : CodeEntries(doc)[i].mac = m
                                           /\ CodeEntries(doc)[i].key = reply.code
    BY <1>4, <1>7, <2>1
  <2>3. QED
    BY <1>1, <1>8, <2>2 DEF m
<1>9. CASE ~ HasCodeKey(m)
  <2>1. HmacKey(c, m) = c.hmacKey
    BY <1>3, <1>4, <1>5, <1>9, CodeKeyFrom
  <2>2. QED
    BY <1>1, <1>4, <1>7, <1>9, <2>1 DEF m
<1>10. QED
  BY <1>8, <1>9

LEMMA InvLegacy == IInv => LegacyAsSeparated
BY ConfigTyped, LegacyIsSeparated DEF IInv, LegacyAsSeparated

\* Whatever the file holds, what is loaded of it fits the arrays it is loaded into, the
\* radio is never given more peers than it takes, and only tickers that run ask for work.
THEOREM TypeTheorem == Spec => []TypeOK
<1>1. Spec => []IInv
  BY InitInv, StepsKeepInv, PTL DEF Spec
<1>2. QED
  BY <1>1, InvTypeOK, PTL

\* A node hears others (initializeCommunication registers the callbacks last) only with
\* the PMK, all the listed peers and the routes of its file in place, at whichever step
\* setup might have stopped, and however many peers it has met since.
THEOREM ReadyTheorem == Spec => []DeafUnlessReady
<1>1. Spec => []IInv
  BY InitInv, StepsKeepInv, PTL DEF Spec
<1>2. QED
  BY <1>1, InvReady, PTL

\* With encryption on, registerPeerIfNeeded gives the radio no peer in clear, and none
\* under a key that the file has for another one.
THEOREM EncryptionTheorem == Spec => []NobodyInClear
<1>1. Spec => []IInv
  BY InitInv, StepsKeepInv, PTL DEF Spec
<1>2. QED
  BY <1>1, InvNobodyInClear, PTL

\* With HMAC enabled in the file, send_interest prints "INTEREST sent" only for a packet
\* whose code was made with the key that the file has for its target, or else with the
\* file's default, and whose target the radio knows, also when setup stopped half-way.
THEOREM AuthenticTheorem == Spec => []SentIsAuthentic
<1>1. Spec => []IInv
  BY InitInv, StepsKeepInv, PTL DEF Spec
<1>2. QED
  BY <1>1, InvAuthentic, PTL

\* A file in the older format sets a node up as the newer form of it does.
THEOREM LegacyTheorem == Spec => []LegacyAsSeparated
<1>1. Spec => []IInv
  BY InitInv, StepsKeepInv, PTL DEF Spec
<1>2. QED
  BY <1>1, InvLegacy, PTL

-----------------------------------------------------------------------------
(* The routing tables: prefixes of names.                                  *)

\* The least of two numbers.
LEMMA MinOfTwo ==
  ASSUME NEW p \in Int, NEW q \in Int
  PROVE  Min({p, q}) = IF p <= q THEN p ELSE q
<1> DEFINE m == IF p <= q THEN p ELSE q
<1>1. m \in {p, q} /\ \A y \in {p, q} : m <= y
  OBVIOUS
<1>2. \A x \in {p, q} : (\A y \in {p, q} : x <= y) => x = m
  OBVIOUS
<1>3. QED
  BY <1>1, <1>2, Zenon DEF Min

\* extractPrefix returns a name of the depth asked for, or all of a shorter one, and the
\* prefixes of a prefix of n are those of n.
LEMMA PrefixIs ==
  ASSUME NEW n \in ContentNames
  PROVE  /\ Depth(n) \in Nat \ {0}
         /\ \A p \in Nat \ {0} :
              /\ Prefix(n, p) \in ContentNames
              /\ Depth(Prefix(n, p)) = IF p <= Depth(n) THEN p ELSE Depth(n)
              /\ p >= Depth(n) => Prefix(n, p) = n
              /\ \A q \in 1 .. p : Prefix(Prefix(n, p), q) = Prefix(n, q)
<1> DEFINE S == {n[i] : i \in DOMAIN n}
<1>1. n \in Seq(S) /\ n # <<>> /\ \A d \in 1 .. Len(n) : SubSeq(n, 1, d) \in ContentNames
  BY FIBAssumption
<1> HIDE DEF S
<1>2. /\ Len(n) \in Nat \ {0} /\ SubSeq(n, 1, Len(n)) = n
      /\ \A i \in 1 .. Len(n) : n[i] \in S
  BY <1>1, LenProperties, SubSeqFull, EmptySeq
<1>3. ASSUME NEW p \in Nat \ {0}
      PROVE  LET d == IF p <= Len(n) THEN p ELSE Len(n)
             IN  d \in 1 .. Len(n) /\ Prefix(n, p) = SubSeq(n, 1, d)
  BY <1>2, MinOfTwo DEF Prefix
<1>4. ASSUME NEW d \in 1 .. Len(n)
      PROVE  SubSeq(n, 1, d) \in Seq(S) /\ Len(SubSeq(n, 1, d)) = d
  <2>1. \A i \in 1 .. d : n[i] \in S
    BY <1>2
  <2>2. QED
    BY <1>2, <2>1, SubSeqProperties
<1>5. ASSUME NEW p \in Nat \ {0}
      PROVE  /\ Prefix(n, p) \in ContentNames
             /\ Len(Prefix(n, p)) = IF p <= Len(n) THEN p ELSE Len(n)
             /\ p >= Len(n) => Prefix(n, p) = n
  <2>1. PICK d \in 1 .. Len(n) : d = (IF p <= Len(n) THEN p ELSE Len(n)) /\ Prefix(n, p) = SubSeq(n, 1, d)
    BY <1>3
  <2>2. p >= Len(n) => d = Len(n)
    <3>1. Len(n) \in Nat
      BY <1>2
    <3>2. p = Len(n) \/ p <= Len(n) \/ d = Len(n)
      BY <2>1
    <3>3. QED
      BY <2>1, <3>1, <3>2
  <2>3. QED
    BY <1>1, <1>2, <1>4, <2>1, <2>2
<1>6. ASSUME NEW p \in Nat \ {0}, NEW q \in 1 .. p
      PROVE  Prefix(Prefix(n, p), q) = Prefix(n, q)
  <2> DEFINE d == IF p <= Len(n) THEN p ELSE Len(n)
             m == Prefix(n, p)
             e == IF q <= Len(n) THEN q ELSE Len(n)
  <2>1. d \in 1 .. Len(n) /\ m = SubSeq(n, 1, d) /\ Len(m) = d
    BY <1>3, <1>5
  <2>2. q \in Nat \ {0} /\ e \in 1 .. d /\ Prefix(n, q) = SubSeq(n, 1, e)
    BY <1>2, <1>3
  <2>3. Min({q, d}) = e
    BY <1>2, <2>1, MinOfTwo
  <2>4. Prefix(m, q) = SubSeq(m, 1, e)
    BY <2>1, <2>3 DEF Prefix
  <2> HIDE DEF d, m, e
  <2>5. SubSeq(SubSeq(n, 1, d), 1, e) = SubSeq(n, 1, e)
    <3>1. /\ 1 \in 1 .. Len(n) /\ 1 \in 1 .. d - 1 + 1 /\ e \in 1 .. d - 1 + 1
          /\ 1 + 1 - 1 = 1 /\ 1 + e - 1 = e
      BY <1>2, <2>1, <2>2
    <3>2. SubSeq(SubSeq(n, 1, d), 1, e) = SubSeq(n, 1 + 1 - 1, 1 + e - 1)
      BY <1>1, <2>1, <3>1, SubSeqOfSubSeq
    <3>3. QED
      BY <3>1, <3>2
  <2>6. QED
    BY <2>1, <2>2, <2>4, <2>5 DEF m
<1>7. QED
  BY <1>2, <1>5, <1>6 DEF Depth

-----------------------------------------------------------------------------
(* The longest prefix match.                                               *)

\* Without a route among its prefixes a name has no match.
LEMMA NoMatch ==
  ASSUME NEW n, \A d \in 1 .. Depth(n) : ~InTree(Prefix(n, d))
  PROVE  LongestPrefixMatch(n) = {}
BY DEF LongestPrefixMatch

\* The longest route among the prefixes of n gives its match.
LEMMA LongestMatch ==
  ASSUME NEW n \in ContentNames, NEW d \in 1 .. Depth(n), InTree(Prefix(n, d)),
         \A q \in 1 .. Depth(n) : InTree(Prefix(n, q)) => q <= d
  PROVE  LongestPrefixMatch(n) = tree[Prefix(n, d)]
<1> DEFINE matches == {q \in 1 .. Depth(n) : InTree(Prefix(n, q))}
<1>1. Depth(n) \in Nat /\ d \in matches /\ matches \in SUBSET (1 .. Depth(n))
  BY PrefixIs
<1>2. Max(matches) \in matches /\ d <= Max(matches)
  <2> HIDE DEF matches
  <2>1. QED
    BY <1>1, MaxFinds
<1>3. Max(matches) = d
  <2>1. Max(matches) \in Nat /\ d \in Nat /\ Max(matches) <= d
    BY <1>2
  <2>2. QED
    BY <1>2, <2>1
<1>4. LongestPrefixMatch(n) = tree[Prefix(n, Max(matches))]
  BY <1>1 DEF LongestPrefixMatch
<1>5. QED
  BY <1>3, <1>4

\* A route is its own longest match.
LEMMA RouteMatch ==
  ASSUME NEW n \in ContentNames, InTree(n)
  PROVE  LongestPrefixMatch(n) = tree[n]
<1>1. Depth(n) \in 1 .. Depth(n) /\ Prefix(n, Depth(n)) = n
  BY PrefixIs
<1>2. \A q \in 1 .. Depth(n) : q <= Depth(n)
  BY PrefixIs
<1>3. QED
  BY <1>1, <1>2, LongestMatch

\* Where no longer prefix of n is a route, its match is that of the prefix.
LEMMA PrefixMatch ==
  ASSUME NEW n \in ContentNames, NEW p \in 1 .. Depth(n),
         \A q \in 1 .. Depth(n) : InTree(Prefix(n, q)) => q <= p
  PROVE  LongestPrefixMatch(n) = LongestPrefixMatch(Prefix(n, p))
<1> DEFINE m == Prefix(n, p)
           matches == {q \in 1 .. Depth(n) : InTree(Prefix(n, q))}
<1>1. /\ m \in ContentNames /\ Depth(n) \in Nat /\ p \in Nat \ {0} /\ Depth(m) = p
      /\ \A q \in 1 .. p : Prefix(m, q) = Prefix(n, q)
  BY PrefixIs
<1> HIDE DEF m
<1>2. CASE matches = {}
  <2>1. \A q \in 1 .. Depth(m) : ~InTree(Prefix(m, q))
    BY <1>1, <1>2
  <2>2. QED
    BY <1>2, <2>1, NoMatch DEF m
<1>3. CASE matches # {}
  <2>1. PICK d \in matches : \A q \in matches : q <= d
    <3>1. matches \in SUBSET (1 .. Depth(n))
      OBVIOUS
    <3> HIDE DEF matches
    <3>2. QED
      BY <1>1, <1>3, <3>1, MaxFinds
  <2>2. d \in 1 .. p /\ Prefix(m, d) = Prefix(n, d)
    BY <1>1
  <2>3. LongestPrefixMatch(n) = tree[Prefix(n, d)]
    BY <2>1, LongestMatch
  <2>4. \A q \in 1 .. Depth(m) : InTree(Prefix(m, q)) => q <= d
    BY <1>1, <2>1
  <2>5. LongestPrefixMatch(m) = tree[Prefix(m, d)]
    BY <1>1, <2>2, <2>4, LongestMatch
  <2>6. QED
    BY <2>2, <2>3, <2>5 DEF m
<1>4. QED
  BY <1>2, <1>3

-----------------------------------------------------------------------------
(* Type correctness of the tables.                                         *)

\* What the counts of TypeOK need to be inductive: what is counted is finite.
RoutingTypeInv ==
  /\ RoutingTypeOK
  /\ IsFiniteSet({n \in ContentNames : InTree(n)})
  /\ IsFiniteSet({n \in ContentNames : Has(fib, n)})
  /\ \A n \in ContentNames : IsFiniteSet(fib[n].nodeIds)

\* The tables a handler may leave.
FibTyped(f) ==
  /\ f \in [ContentNames -> EntryType]
  /\ IsFiniteSet({m \in ContentNames : Has(f, m)})
  /\ Cardinality({m \in ContentNames : Has(f, m)}) <= FibEntries
  /\ \A m \in ContentNames : IsFiniteSet(f[m].nodeIds)

\* put stores an entry when the table holds its name or has room.
LEMMA PutEntryIs ==
  ASSUME NEW f, FibTyped(f), NEW n \in ContentNames, NEW e \in EntryType, IsFiniteSet(e.nodeIds)
  PROVE  FibTyped(PutEntry(f, n, e))
<1> DEFINE g == PutEntry(f, n, e)
           H == {m \in ContentNames : Has(f, m)}
           G == {m \in ContentNames : Has(g, m)}
<1>1. CASE g = f
  BY <1>1
<1>2. CASE g = [f EXCEPT ![n] = e] /\ (Has(f, n) \/ Cardinality(H) < FibEntries)
  <2>1. g \in [ContentNames -> EntryType] /\ \A m \in ContentNames : g[m] = IF m = n THEN e ELSE f[m]
    BY <1>2 DEF FibTyped
  <2> HIDE DEF g
  <2>2. G \subseteq H \cup {n} /\ (Has(f, n) => n \in H) /\ (~Has(f, n) => n \notin H)
    BY <2>1 DEF Has
  <2>3. \A m \in ContentNames : IsFiniteSet(g[m].nodeIds)
    BY <2>1 DEF FibTyped
  <2>10. IsFiniteSet(H) /\ Cardinality(H) <= FibEntries
    BY DEF FibTyped
  <2> HIDE DEF G, H
  <2>4. /\ IsFiniteSet(H \cup {n})
        /\ Cardinality(H) \in Nat
        /\ Cardinality(H \cup {n}) = IF n \in H THEN Cardinality(H) ELSE Cardinality(H) + 1
    BY <2>10, FS_AddElement, FS_CardinalityType
  <2>5. FibEntries \in Nat
    BY FIBAssumption
  <2>6. IsFiniteSet(G) /\ Cardinality(G) <= Cardinality(H \cup {n}) /\ Cardinality(G) \in Nat
    BY <2>2, <2>4, FS_Subset, FS_CardinalityType
  <2>7. Cardinality(H \cup {n}) <= FibEntries
    <3>1. n \in H \/ Cardinality(H) < FibEntries
      BY <1>2, <2>2
    <3>3. QED
      BY <2>4, <2>5, <2>10, <3>1
  <2>8. Cardinality(G) <= FibEntries
    BY <2>4, <2>5, <2>6, <2>7
  <2>9. QED
    BY <2>1, <2>3, <2>6, <2>8 DEF FibTyped, g, G
<1>3. QED
  BY <1>1, <1>2 DEF PutEntry

\* Inserting a hop keeps a set of hops within its capacity.
LEMMA InsertHopIs ==
  ASSUME NEW S \in SUBSET Hops, IsFiniteSet(S), NEW h \in Hops, NEW capacity \in Nat
  PROVE  /\ InsertHop(S, h, capacity) \in SUBSET Hops
         /\ IsFiniteSet(InsertHop(S, h, capacity))
         /\ Cardinality(S) <= capacity => Cardinality(InsertHop(S, h, capacity)) <= capacity
<1>1. /\ IsFiniteSet(S \cup {h}) /\ Cardinality(S) \in Nat
      /\ Cardinality(S \cup {h}) \in {Cardinality(S), Cardinality(S) + 1}
  BY FS_AddElement, FS_CardinalityType
<1>2. QED
  BY <1>1 DEF InsertHop

\* The entries that save and saveVirtualEntry put, and what they make of the table.
RealEntry(f, n, h) ==
  IF Has(f, n) THEN [f[n] EXCEPT !.virtual = FALSE, !.nodeIds = InsertHop(@, h, HopsPerEntry)]
  ELSE [virtual |-> FALSE, maximumDepth |-> Depth(n), nodeIds |-> {h}]

MarkEntry(f, n, depth) ==
  IF Has(f, n) THEN [f[n] EXCEPT !.maximumDepth = IF @ < depth THEN depth ELSE @]
  ELSE [virtual |-> TRUE, maximumDepth |-> depth, nodeIds |-> {}]

\* What save and saveVirtualEntry put are well formed entries.
LEMMA SavedEntries ==
  ASSUME NEW f \in [ContentNames -> EntryType], NEW n \in ContentNames, NEW h \in Hops,
         IsFiniteSet(f[n].nodeIds), NEW depth \in Nat
  PROVE  /\ RealEntry(f, n, h) \in EntryType /\ IsFiniteSet(RealEntry(f, n, h).nodeIds)
         /\ MarkEntry(f, n, depth) \in EntryType /\ IsFiniteSet(MarkEntry(f, n, depth).nodeIds)
         /\ SaveReal(f, n, h) = PutEntry(f, n, RealEntry(f, n, h))
         /\ SaveVirtual(f, n, depth) = PutEntry(f, n, MarkEntry(f, n, depth))
<1>1. /\ HopsPerEntry \in Nat \ {0} /\ Depth(n) \in Nat
      /\ f[n] \in EntryType
  BY FIBAssumption, PrefixIs
<1>2. /\ f[n].virtual \in BOOLEAN /\ f[n].maximumDepth \in Nat /\ f[n].nodeIds \in SUBSET Hops
      /\ Cardinality(f[n].nodeIds) <= HopsPerEntry
  BY <1>1 DEF EntryType
<1>3. /\ {h} \in SUBSET Hops /\ IsFiniteSet({h}) /\ Cardinality({h}) <= HopsPerEntry
      /\ IsFiniteSet({}) /\ Cardinality({}) <= HopsPerEntry
  <2>1. IsFiniteSet({h}) /\ Cardinality({h}) = 1
    BY FS_Singleton
  <2>2. IsFiniteSet({}) /\ Cardinality({}) = 0
    BY FS_EmptySet
  <2>3. 0 <= HopsPerEntry /\ 1 <= HopsPerEntry
    BY <1>1
  <2>4. QED
    BY <2>1, <2>2, <2>3
<1> DEFINE S == InsertHop(f[n].nodeIds, h, HopsPerEntry)
<1>4. S \in SUBSET Hops /\ IsFiniteSet(S) /\ Cardinality(S) <= HopsPerEntry
  BY <1>1, <1>2, InsertHopIs
<1>5. RealEntry(f, n, h) \in EntryType /\ IsFiniteSet(RealEntry(f, n, h).nodeIds)
  <2>1. CASE Has(f, n)
    <3>1. RealEntry(f, n, h) = [virtual |-> FALSE, maximumDepth |-> f[n].maximumDepth, nodeIds |-> S]
      BY <1>1, <2>1 DEF RealEntry, EntryType
    <3> HIDE DEF S
    <3>2. QED
      BY <1>2, <1>4, <3>1 DEF EntryType
  <2>2. CASE ~Has(f, n)
    <3>1. RealEntry(f, n, h) = [virtual |-> FALSE, maximumDepth |-> Depth(n), nodeIds |-> {h}]
      BY <2>2 DEF RealEntry
    <3>2. QED
      BY <1>1, <1>3, <3>1 DEF EntryType
  <2>3. QED
    BY <2>1, <2>2
<1>6. MarkEntry(f, n, depth) \in EntryType /\ IsFiniteSet(MarkEntry(f, n, depth).nodeIds)
  <2>1. CASE Has(f, n)
    <3>1. PICK mx \in Nat : MarkEntry(f, n, depth) =
                              [virtual |-> f[n].virtual, maximumDepth |-> mx, nodeIds |-> f[n].nodeIds]
      BY <1>1, <1>2, <2>1 DEF MarkEntry, EntryType
    <3>2. QED
      BY <1>2, <3>1 DEF EntryType
  <2>2. CASE ~Has(f, n)
    <3>1. MarkEntry(f, n, depth) = [virtual |-> TRUE, maximumDepth |-> depth, nodeIds |-> {}]
      BY <2>2 DEF MarkEntry
    <3>2. QED
      BY <1>3, <3>1 DEF EntryType
  <2>3. QED
    BY <2>1, <2>2
<1>7. QED
  BY <1>5, <1>6 DEF SaveReal, SaveVirtual, RealEntry, MarkEntry

\* Saving an entry or a mark leaves a well formed table.
LEMMA AddedTyped ==
  ASSUME NEW f, FibTyped(f), NEW n \in ContentNames, NEW h \in Hops, NEW p \in ContentNames,
         NEW depth \in Nat
  PROVE  FibTyped(SaveReal(f, n, h)) /\ FibTyped(SaveVirtual(f, p, depth))
<1>1. FibTyped(SaveReal(f, n, h))
  <2>1. RealEntry(f, n, h) \in EntryType /\ IsFiniteSet(RealEntry(f, n, h).nodeIds)
        /\ SaveReal(f, n, h) = PutEntry(f, n, RealEntry(f, n, h))
    BY SavedEntries DEF FibTyped
  <2>2. QED
    BY <2>1, PutEntryIs
<1>2. FibTyped(SaveVirtual(f, p, depth))
  <2>1. MarkEntry(f, p, depth) \in EntryType /\ IsFiniteSet(MarkEntry(f, p, depth).nodeIds)
        /\ SaveVirtual(f, p, depth) = PutEntry(f, p, MarkEntry(f, p, depth))
    BY SavedEntries DEF FibTyped
  <2>2. QED
    BY <2>1, PutEntryIs
<1>3. QED
  BY <1>1, <1>2

\* So does removing an entry.
LEMMA RemovedTyped ==
  ASSUME NEW f, FibTyped(f), NEW n \in ContentNames
  PROVE  FibTyped(RemoveEntry(f, n))
<1> DEFINE g == RemoveEntry(f, n)
           H == {m \in ContentNames : Has(f, m)}
           G == {m \in ContentNames : Has(g, m)}
<1>1. NoEntry \in EntryType /\ IsFiniteSet(NoEntry.nodeIds)
  <2>1. IsFiniteSet({}) /\ Cardinality({}) = 0 /\ HopsPerEntry \in Nat
    BY FS_EmptySet, FIBAssumption
  <2>2. QED
    BY <2>1 DEF NoEntry, EntryType
<1>2. g \in [ContentNames -> EntryType] /\ \A m \in ContentNames : g[m] = IF m = n THEN NoEntry ELSE f[m]
  BY <1>1 DEF RemoveEntry, FibTyped
<1> HIDE DEF g
<1>3. G \subseteq H
  BY <1>2 DEF Has
<1>4. IsFiniteSet(H) /\ Cardinality(H) <= FibEntries
  BY DEF FibTyped
<1>5. \A m \in ContentNames : IsFiniteSet(g[m].nodeIds)
  BY <1>1, <1>2 DEF FibTyped
<1> HIDE DEF G, H
<1>6. IsFiniteSet(G) /\ Cardinality(G) <= FibEntries
  <2>1. IsFiniteSet(G) /\ Cardinality(G) <= Cardinality(H)
    BY <1>3, <1>4, FS_Subset
  <2>2. Cardinality(G) \in Nat /\ Cardinality(H) \in Nat /\ FibEntries \in Nat
    BY <1>4, <2>1, FS_CardinalityType, FIBAssumption
  <2>3. QED
    BY <1>4, <2>1, <2>2
<1>7. QED
  BY <1>2, <1>5, <1>6 DEF FibTyped, g, G

\* A look-up answers an entry of the table or none.
LEMMA LookUpTyped ==
  ASSUME NEW f, FibTyped(f), NEW n \in ContentNames
  PROVE  LET e == FibLpmLookup(f, n)
         IN  e = NoEntry \/ \E m \in ContentNames : e = f[m]
<1>1. Depth(n) \in Nat \ {0} /\ MaxVirtualDepth \in Nat \ {0}
      /\ \A p \in Nat \ {0} : Prefix(n, p) \in ContentNames
  BY PrefixIs, FIBAssumption
<1>2. ASSUME NEW k \in Nat, NEW S \in SUBSET (1 .. k), S # {}
      PROVE  \E m \in ContentNames : At(f, n, Max(S)) = f[m]
  <2>1. Max(S) \in S
    BY <1>2, MaxFinds
  <2>2. S \subseteq Nat \ {0}
    BY <1>2
  <2>3. Prefix(n, Max(S)) \in ContentNames
    BY <1>1, <2>1, <2>2
  <2>4. QED
    BY <2>3 DEF At
<1> DEFINE stops == Stage1(f, n)
           first == At(f, n, Max(stops))
<1>3. CASE stops = {}
  BY <1>3 DEF FibLpmLookup
<1>4. CASE stops # {}
  <2>1. stops \in SUBSET (1 .. Min({Depth(n), MaxVirtualDepth})) /\ Min({Depth(n), MaxVirtualDepth}) \in Nat
    BY <1>1, MinOfTwo DEF Stage1
  <2>2. PICK m \in ContentNames : first = f[m]
    BY <1>2, <1>4, <2>1
  <2>3. first.maximumDepth \in Nat
    BY <2>2 DEF FibTyped, EntryType
  <2> HIDE DEF first
  <2>4. Answer2(f, n, first) = NoEntry \/ \E l \in ContentNames : Answer2(f, n, first) = f[l]
    <3> DEFINE more == Stage2(f, n, first)
    <3>1. more \in SUBSET (1 .. Min({Depth(n), first.maximumDepth})) /\ Min({Depth(n), first.maximumDepth}) \in Nat
      BY <1>1, <2>3, MinOfTwo DEF Stage2
    <3>2. more # {} => \E l \in ContentNames : At(f, n, Max(more)) = f[l]
      BY <1>2, <3>1
    <3>3. QED
      BY <2>2, <3>2 DEF Answer2
  <2>5. FibLpmLookup(f, n) = IF OpensStage2(f, n, Max(stops)) THEN Answer2(f, n, first) ELSE first
    BY <1>4 DEF FibLpmLookup, first
  <2>6. QED
    BY <2>2, <2>4, <2>5
<1>5. QED
  BY <1>3, <1>4

\* Each operation leaves well formed tables.
LEMMA RoutingTypeStep ==
  ASSUME RoutingTypeInv, [RoutingNext]_RoutingVars
  PROVE  RoutingTypeInv'
<1> DEFINE R == {n \in ContentNames : InTree(n)}
<1>1. /\ tree \in [ContentNames -> SUBSET Hops] /\ IsFiniteSet(R) /\ Cardinality(R) <= RibEntries
      /\ FibTyped(fib) /\ ready \in BOOLEAN /\ nextHops \in SUBSET Hops
  BY DEF RoutingTypeInv, RoutingTypeOK, FibTyped
<1>2. RibEntries \in Nat /\ Cardinality(R) \in Nat /\ Routes \subseteq ContentNames /\ Asked \subseteq ContentNames
      /\ HopsPerNode \in Nat /\ MaxVirtualDepth \in Nat \ {0}
  BY <1>1, RoutingAssumption, FIBAssumption, FS_CardinalityType
<1>3. SUFFICES /\ tree' \in [ContentNames -> SUBSET Hops] /\ IsFiniteSet(R') /\ Cardinality(R') <= RibEntries
               /\ FibTyped(fib') /\ ready' \in BOOLEAN /\ nextHops' \in SUBSET Hops
  BY DEF RoutingTypeInv, RoutingTypeOK, FibTyped
<1>4. ASSUME NEW n \in Routes, NEW h \in Hops, AddRoute(n, h)
      PROVE  <1>3!1
  <2>1. n \in ContentNames /\ Depth(n) \in Nat /\ Prefix(n, MaxVirtualDepth) \in ContentNames
    BY <1>2, PrefixIs
  <2>2. tree' \in [ContentNames -> SUBSET Hops] /\ \A m \in ContentNames : m # n => tree'[m] = tree[m]
    BY <1>1, <1>4, <2>1 DEF AddRoute, InsertHop
  <2>3. R' \subseteq R \cup {n} /\ (n \in R \/ Cardinality(R) < RibEntries)
    BY <1>1, <1>2, <1>4, <2>1, <2>2 DEF AddRoute, InTree, RibFull
  <2> DEFINE Q == R'
  <2> HIDE DEF R, Q
  <2>4. /\ IsFiniteSet(R \cup {n})
        /\ Cardinality(R \cup {n}) = IF n \in R THEN Cardinality(R) ELSE Cardinality(R) + 1
    BY <1>1, FS_AddElement
  <2>5. Q \subseteq R \cup {n}
    BY <2>3 DEF Q
  <2>6. IsFiniteSet(Q) /\ Cardinality(Q) <= Cardinality(R \cup {n}) /\ Cardinality(Q) \in Nat
    BY <2>4, <2>5, FS_Subset, FS_CardinalityType
  <2>7. IsFiniteSet(Q) /\ Cardinality(Q) <= RibEntries
    BY <1>1, <1>2, <2>3, <2>4, <2>6
  <2>8. FibTyped(fib')
    BY <1>1, <1>4, <2>1, AddedTyped DEF AddRoute, FibWithRoute
  <2>9. QED
    BY <1>1, <1>4, <2>2, <2>7, <2>8 DEF AddRoute, Q
<1>5. ASSUME NEW n \in Asked, LookUp(n)
      PROVE  <1>3!1
  <2> DEFINE e == FibLpmLookup(fib, n)
  <2>1. n \in ContentNames /\ (e = NoEntry \/ \E m \in ContentNames : e = fib[m])
    BY <1>1, <1>2, LookUpTyped
  <2>2. e # NoEntry => e \in EntryType /\ IsFiniteSet(e.nodeIds)
    BY <1>1, <2>1 DEF FibTyped
  <2>3. e.nodeIds \in SUBSET Hops
    BY <2>1, <2>2 DEF EntryType, NoEntry
  <2>4. FibTyped(GetEntry(fib, n))
    <3>1. CASE e = NoEntry
      BY <1>1, <3>1 DEF GetEntry
    <3>2. CASE e # NoEntry
      <4>1. GetEntry(fib, n) = PutEntry(fib, n, e)
        BY <3>2 DEF GetEntry
      <4> HIDE DEF e
      <4>2. QED
        BY <1>1, <2>1, <2>2, <3>2, <4>1, PutEntryIs
    <3>3. QED
      BY <3>1, <3>2
  <2>5. R' = R
    BY <1>5 DEF LookUp, InTree
  <2>6. QED
    BY <1>1, <1>5, <2>3, <2>4, <2>5 DEF LookUp
<1>6. ASSUME NEW n \in ContentNames, RemoveRoute(n)
      PROVE  <1>3!1
  <2>1. Prefix(n, MaxVirtualDepth) \in ContentNames
    BY <1>2, PrefixIs
  <2>2. FibTyped(fib')
    BY <1>1, <1>6, <2>1, RemovedTyped DEF RemoveRoute, FibWithoutRoute
  <2>3. tree' \in [ContentNames -> SUBSET Hops] /\ R' \subseteq R
    BY <1>1, <1>6 DEF RemoveRoute, InTree
  <2> DEFINE Q == R'
  <2> HIDE DEF R, Q
  <2>4. Q \subseteq R
    BY <2>3 DEF Q
  <2>5. IsFiniteSet(Q) /\ Cardinality(Q) <= Cardinality(R) /\ Cardinality(Q) \in Nat
    BY <1>1, <2>4, FS_Subset, FS_CardinalityType
  <2>6. IsFiniteSet(Q) /\ Cardinality(Q) <= RibEntries
    BY <1>1, <1>2, <2>5
  <2>7. QED
    BY <1>1, <1>6, <2>2, <2>3, <2>6 DEF RemoveRoute, Q
<1>7. CASE Start
  BY <1>1, <1>7 DEF Start, InTree
<1>8. CASE UNCHANGED RoutingVars
  BY <1>1, <1>8 DEF RoutingVars, InTree
<1>9. QED
  BY <1>4, <1>5, <1>6, <1>7, <1>8 DEF RoutingNext, AddRouteFull

\* The empty tables are well formed.
LEMMA RoutingTypeInit == RoutingInit => RoutingTypeInv
<1> SUFFICES ASSUME RoutingInit PROVE RoutingTypeInv
  OBVIOUS
<1>1. {n \in ContentNames : InTree(n)} = {} /\ {n \in ContentNames : Has(fib, n)} = {}
  BY DEF RoutingInit, InTree, Has, EmptyFib
<1>2. IsFiniteSet({}) /\ Cardinality({}) = 0 /\ HopsPerEntry \in Nat /\ RibEntries \in Nat /\ FibEntries \in Nat
  BY FS_EmptySet, FIBAssumption, RoutingAssumption
<1>3. fib \in [ContentNames -> EntryType] /\ \A n \in ContentNames : fib[n].nodeIds = {}
  BY <1>2 DEF RoutingInit, EmptyFib, NoEntry, EntryType
<1>4. tree \in [ContentNames -> SUBSET Hops] /\ ready \in BOOLEAN /\ nextHops \in SUBSET Hops
  BY DEF RoutingInit
<1>5. QED
  BY <1>1, <1>2, <1>3, <1>4 DEF RoutingTypeInv, RoutingTypeOK

\* The tables are always well formed, and what they count is finite.
LEMMA RoutingTyped == RoutingSpec => []RoutingTypeInv
BY RoutingTypeInit, RoutingTypeStep, PTL DEF RoutingSpec

-----------------------------------------------------------------------------
(* The two-stage look-up is the longest prefix match.                      *)

\* What removeRoute may be called for (the program calls it for nothing): not for a
\* mark, nor for a name whose mark is a route, nor for a prefix of what is asked for.
RemovalsApart ==
  \A n \in Removable :
    /\ \A m \in Asked, d \in Nat \ {0} : Prefix(m, d) # n
    /\ Depth(n) > MaxVirtualDepth => Prefix(n, MaxVirtualDepth) \notin Routes
    /\ \A m \in Routes : Depth(m) > MaxVirtualDepth => Prefix(m, MaxVirtualDepth) # n

\* The two tables drop the same next hops.
SameHops == HopsPerEntry = HopsPerNode

\* Whatever routes the RIB has room for, the FIB has room for them and their marks.
FibRoom ==
  \A S \in SUBSET Routes :
    LET entries == S \cup {Prefix(n, MaxVirtualDepth) : n \in S}
    IN  IsFiniteSet(S) /\ Cardinality(S) <= RibEntries => Cardinality(entries) <= FibEntries

\* No Interest asks for a prefix at which deeper routes may be marked.
MarksNotAsked ==
  \A n \in Routes : Depth(n) > MaxVirtualDepth => Prefix(n, MaxVirtualDepth) \notin Asked

\* The routes that n is the mark of.
DeepBelow(n) ==
  {m \in ContentNames :
     InTree(m) /\ Depth(m) > MaxVirtualDepth /\ Prefix(m, MaxVirtualDepth) = n}

Marked(n) == DeepBelow(n) # {}

Real(n) == Has(fib, n) /\ ~fib[n].virtual

\* Each route has its entry.
RoutesInv ==
  \A n \in ContentNames : InTree(n) => n \in Routes /\ Real(n) /\ fib[n].nodeIds = tree[n]

\* Each mark tells of all the depths below it, and no other entry short enough for stage 1
\* tells of any.
MarksInv ==
  \A n \in ContentNames :
    /\ Marked(n) => Has(fib, n) /\ \A m \in DeepBelow(n) : Depth(m) <= fib[n].maximumDepth
    /\ Has(fib, n) /\ Depth(n) <= MaxVirtualDepth /\ ~Marked(n) =>
         fib[n].maximumDepth <= MaxVirtualDepth

\* While routes are added there are no entries but those of routes and marks; afterwards
\* there are also the copies left by get, which are right for the names they are under.
CopiesInv ==
  IF ready THEN \A n \in ContentNames :
         Real(n) => (n \in Asked \/ InTree(n)) /\ fib[n].nodeIds = LongestPrefixMatch(n)
  ELSE \A n \in ContentNames :
         Has(fib, n) => IF fib[n].virtual THEN Marked(n) /\ fib[n].nodeIds = {} ELSE InTree(n)

LpmInv == RoutesInv /\ MarksInv /\ CopiesInv

\* Real entries hold the longest matches of their names.
LEMMA RealMatches ==
  ASSUME RoutesInv, CopiesInv, NEW n \in ContentNames, Real(n)
  PROVE  fib[n].nodeIds = LongestPrefixMatch(n)
BY RouteMatch DEF RoutesInv, CopiesInv, Real

\* A mark has the depth of marks.
LEMMA MarkDepth ==
  ASSUME NEW n \in ContentNames, Marked(n)
  PROVE  Depth(n) = MaxVirtualDepth
<1>1. PICK m \in ContentNames : Depth(m) > MaxVirtualDepth /\ Prefix(m, MaxVirtualDepth) = n
  BY DEF Marked, DeepBelow
<1>2. MaxVirtualDepth \in Nat \ {0} /\ Depth(m) \in Nat
  BY FIBAssumption, PrefixIs
<1>3. QED
  BY <1>1, <1>2, PrefixIs

\* Every route that is a prefix of n is met by the stage that may stop at it: it is
\* short enough for the first, or its mark opens the second.
LEMMA RoutesMet ==
  ASSUME RoutingTypeInv, RoutesInv, MarksInv, NEW n \in ContentNames,
         NEW q \in 1 .. Depth(n), InTree(Prefix(n, q))
  PROVE  /\ RealAt(fib, n, q)
         /\ q > MaxVirtualDepth =>
              /\ MaxVirtualDepth \in Stage1(fib, n) /\ OpensStage2(fib, n, MaxVirtualDepth)
              /\ q <= At(fib, n, MaxVirtualDepth).maximumDepth
         /\ q <= MaxVirtualDepth => q \in Stage1(fib, n)
<1> DEFINE M == MaxVirtualDepth
           m == Prefix(n, q)
           mark == Prefix(n, M)
<1>1. Depth(n) \in Nat \ {0} /\ M \in Nat \ {0} /\ q \in Nat \ {0}
  BY PrefixIs, FIBAssumption
<1>2. /\ m \in ContentNames /\ Depth(m) = q /\ mark \in ContentNames
      /\ M <= q => Prefix(m, M) = mark
  BY <1>1, PrefixIs
<1>3. Min({Depth(n), M}) = IF Depth(n) <= M THEN Depth(n) ELSE M
  BY <1>1, MinOfTwo
<1>4. RealAt(fib, n, q)
  BY <1>2 DEF RoutesInv, Real, RealAt, At
<1>5. q <= M => q \in Stage1(fib, n)
  BY <1>1, <1>3, <1>4 DEF Stage1
<1>6. ASSUME q > M
      PROVE  M \in Stage1(fib, n) /\ OpensStage2(fib, n, M) /\ q <= At(fib, n, M).maximumDepth
  <2>1. m \in DeepBelow(mark)
    BY <1>1, <1>2, <1>6 DEF DeepBelow
  <2>2. Has(fib, mark) /\ q <= fib[mark].maximumDepth
    BY <1>2, <2>1 DEF MarksInv, Marked
  <2>3. fib[mark].maximumDepth \in Nat
    BY <1>2 DEF RoutingTypeInv, RoutingTypeOK, EntryType
  <2>4. OpensStage2(fib, n, M)
    BY <1>1, <1>6, <2>2, <2>3 DEF OpensStage2, At
  <2>5. QED
    BY <1>1, <1>3, <1>6, <2>2, <2>4 DEF Stage1, At
<1>7. QED
  BY <1>4, <1>5, <1>6

\* The answer of a look-up is the longest prefix match.  It is a real entry, and under
\* a short name that is no mark its copy tells of no deeper routes.
LEMMA LookUpAnswers ==
  ASSUME RoutingTypeInv, LpmInv, NEW n \in ContentNames
  PROVE  LET e == FibLpmLookup(fib, n)
         IN  /\ e.nodeIds = LongestPrefixMatch(n)
             /\ e # NoEntry => ~e.virtual
             /\ e # NoEntry /\ Depth(n) <= MaxVirtualDepth /\ ~Marked(n) =>
                  e.maximumDepth <= MaxVirtualDepth
<1> DEFINE M == MaxVirtualDepth
           D == Depth(n)
           stops == Stage1(fib, n)
           s == Max(stops)
           first == At(fib, n, s)
<1> USE DEF LpmInv
<1>1. D \in Nat \ {0} /\ M \in Nat \ {0}
  BY PrefixIs, FIBAssumption
<1>2. /\ Min({D, M}) \in Nat /\ stops \in SUBSET (1 .. Min({D, M}))
      /\ Min({D, M}) <= D /\ Min({D, M}) <= M
  BY <1>1, MinOfTwo DEF Stage1
<1>3. ASSUME NEW p \in 1 .. D
      PROVE  /\ Prefix(n, p) \in ContentNames /\ Depth(Prefix(n, p)) = p
             /\ At(fib, n, p).maximumDepth \in Nat
  <2>1. Prefix(n, p) \in ContentNames /\ Depth(Prefix(n, p)) = p
    BY <1>1, <1>3, PrefixIs
  <2>2. QED
    BY <2>1 DEF At, RoutingTypeInv, RoutingTypeOK, EntryType
<1>4. ASSUME NEW p \in 1 .. D, RealAt(fib, n, p),
             \A q \in 1 .. D : InTree(Prefix(n, q)) => q <= p
      PROVE  At(fib, n, p).nodeIds = LongestPrefixMatch(n) /\ ~At(fib, n, p).virtual
  <2>1. LongestPrefixMatch(n) = LongestPrefixMatch(Prefix(n, p))
    BY <1>4, PrefixMatch
  <2>2. Prefix(n, p) \in ContentNames /\ Real(Prefix(n, p))
    BY <1>3, <1>4 DEF RealAt, Real, At
  <2>3. QED
    BY <2>1, <2>2, RealMatches DEF At, Real
<1>5. NoEntry.nodeIds = {}
  BY DEF NoEntry
<1>6. CASE stops = {}
  <2>1. ASSUME NEW q \in 1 .. D, InTree(Prefix(n, q)) PROVE FALSE
    BY <1>1, <1>6, <2>1, RoutesMet
  <2>2. LongestPrefixMatch(n) = {}
    BY <2>1, NoMatch
  <2>3. FibLpmLookup(fib, n) = NoEntry
    BY <1>6 DEF FibLpmLookup
  <2>4. QED
    BY <1>5, <2>2, <2>3
<1>7. ASSUME stops # {}
      PROVE  s \in stops /\ s \in 1 .. D /\ s <= M /\ \A p \in stops : p <= s
  <2>1. s \in stops /\ \A p \in stops : p <= s
    <3> HIDE DEF stops
    <3>1. QED
      BY <1>2, <1>7, MaxFinds
  <2>2. QED
    BY <1>1, <1>2, <2>1
<1>8. CASE stops # {} /\ ~OpensStage2(fib, n, s)
  <2>1. s \in stops /\ s \in 1 .. D /\ s <= M /\ \A p \in stops : p <= s
    BY <1>7, <1>8
  <2>2. FibLpmLookup(fib, n) = first
    BY <1>8 DEF FibLpmLookup
  <2>3. RealAt(fib, n, s)
    BY <1>8, <2>1 DEF Stage1
  <2>4. ASSUME NEW q \in 1 .. D, InTree(Prefix(n, q)) PROVE q <= s
    <3>1. q <= M
      <4>1. SUFFICES ASSUME q > M PROVE FALSE
        BY <1>1
      <4>2. M \in stops /\ OpensStage2(fib, n, M)
        BY <2>4, <4>1, RoutesMet
      <4>3. M = s
        BY <1>1, <2>1, <4>2
      <4>4. QED
        BY <1>8, <4>2, <4>3
    <3>2. QED
      BY <2>1, <2>4, <3>1, RoutesMet
  <2>5. first.nodeIds = LongestPrefixMatch(n) /\ ~first.virtual
    BY <1>4, <2>1, <2>3, <2>4
  <2>6. ASSUME D <= M, ~Marked(n) PROVE first.maximumDepth <= M
    <3>1. Prefix(n, s) \in ContentNames /\ Depth(Prefix(n, s)) = s
      BY <1>3, <2>1
    <3>2. ~Marked(Prefix(n, s))
      <4>1. SUFFICES ASSUME Marked(Prefix(n, s)) PROVE FALSE
        OBVIOUS
      <4>2. s = M
        BY <3>1, <4>1, MarkDepth
      <4>3. Prefix(n, s) = n
        BY <1>1, <2>6, <4>2, PrefixIs
      <4>4. QED
        BY <2>6, <4>1, <4>3
    <3>3. QED
      BY <2>1, <2>3, <3>1, <3>2 DEF MarksInv, RealAt, At
  <2>7. QED
    BY <2>2, <2>5, <2>6
<1>9. CASE stops # {} /\ OpensStage2(fib, n, s)
  <2>1. s \in stops /\ s \in 1 .. D /\ s <= M
    BY <1>7, <1>9
  <2>2. /\ D > M /\ first.maximumDepth > M /\ first.maximumDepth \in Nat
        /\ Has(fib, Prefix(n, s)) /\ Prefix(n, s) \in ContentNames /\ Depth(Prefix(n, s)) = s
    BY <1>3, <1>9, <2>1 DEF OpensStage2
  <2>3. s = M
    <3>1. Marked(Prefix(n, s))
      BY <1>1, <2>1, <2>2 DEF MarksInv, At
    <3>2. QED
      BY <2>2, <3>1, MarkDepth
  <2> DEFINE more == Stage2(fib, n, first)
             t == Max(more)
  <2>4. FibLpmLookup(fib, n) = Answer2(fib, n, first)
    BY <1>9 DEF FibLpmLookup
  <2>5. first = At(fib, n, M) /\ M \in 1 .. D
    BY <1>1, <2>2, <2>3
  <2> HIDE DEF first
  <2>6. /\ Min({D, first.maximumDepth}) \in Nat /\ more \in SUBSET (1 .. Min({D, first.maximumDepth}))
        /\ Min({D, first.maximumDepth}) <= D
        /\ \A q \in 1 .. D : q <= first.maximumDepth => q \in 1 .. Min({D, first.maximumDepth})
    BY <1>1, <2>2, MinOfTwo DEF Stage2
  <2>7. ASSUME NEW q \in 1 .. D, InTree(Prefix(n, q)) PROVE q \in more
    <3>1. RealAt(fib, n, q) /\ (q > M => q <= first.maximumDepth)
      BY <2>5, <2>7, RoutesMet
    <3>2. q <= first.maximumDepth
      BY <1>1, <2>2, <3>1
    <3>3. QED
      BY <2>6, <3>1, <3>2 DEF Stage2
  <2>8. CASE more = {}
    <3>1. LongestPrefixMatch(n) = {}
      BY <2>7, <2>8, NoMatch
    <3>2. FibLpmLookup(fib, n) = NoEntry
      BY <2>4, <2>8 DEF Answer2
    <3>3. QED
      BY <1>5, <3>1, <3>2
  <2>9. CASE more # {}
    <3>1. t \in more /\ \A q \in more : q <= t
      <4> HIDE DEF more
      <4>1. QED
        BY <2>6, <2>9, MaxFinds
    <3>2. t \in 1 .. D /\ \A q \in 1 .. D : InTree(Prefix(n, q)) => q <= t
      BY <1>1, <2>6, <2>7, <3>1
    <3>3. RealAt(fib, n, t) \/ (t = M /\ ~first.virtual)
      BY <3>1 DEF Stage2
    <3>4. (t = M /\ ~first.virtual) => RealAt(fib, n, t)
      BY <2>2, <2>3, <2>5 DEF RealAt
    <3>5. FibLpmLookup(fib, n) = At(fib, n, t)
      BY <2>4, <2>5, <2>9 DEF Answer2
    <3>6. QED
      BY <1>1, <1>4, <2>2, <3>2, <3>3, <3>4, <3>5
  <2>10. QED
    BY <2>8, <2>9
<1>10. QED
  BY <1>6, <1>8, <1>9

-----------------------------------------------------------------------------
(* Each operation preserves it.                                            *)

\* A look-up leaves a right copy, and none on a mark.
LEMMA LookUpKeepsInv ==
  ASSUME MarksNotAsked, RoutingTypeInv, LpmInv, NEW n \in Asked, LookUp(n)
  PROVE  LpmInv'
<1> DEFINE e == FibLpmLookup(fib, n)
<1>1. n \in ContentNames
  BY RoutingAssumption
<1>2. /\ e.nodeIds = LongestPrefixMatch(n) /\ (e # NoEntry => ~e.virtual)
      /\ e # NoEntry /\ Depth(n) <= MaxVirtualDepth /\ ~Marked(n) => e.maximumDepth <= MaxVirtualDepth
  BY <1>1, LookUpAnswers
<1>3. ~Marked(n)
  <2>1. \A m \in DeepBelow(n) : m \in Routes
    BY DEF DeepBelow, LpmInv, RoutesInv
  <2>2. QED
    BY <2>1 DEF MarksNotAsked, Marked, DeepBelow
<1>4. /\ fib' = fib \/ (e # NoEntry /\ fib' = [fib EXCEPT ![n] = e])
      /\ tree' = tree /\ ready /\ ready'
  BY DEF LookUp, GetEntry, PutEntry
<1> HIDE DEF e
<1>5. /\ \A m : DeepBelow(m)' = DeepBelow(m) /\ (Marked(m)' <=> Marked(m))
      /\ \A m : LongestPrefixMatch(m)' = LongestPrefixMatch(m)
      /\ \A m : InTree(m)' <=> InTree(m)
  BY <1>4 DEF DeepBelow, Marked, LongestPrefixMatch, InTree
<1>6. \A m \in ContentNames : fib'[m] = fib[m] \/ (m = n /\ fib'[m] = e /\ e # NoEntry)
  BY <1>4 DEF RoutingTypeInv, RoutingTypeOK
<1>7. RoutesInv'
  <2> SUFFICES ASSUME NEW m \in ContentNames, InTree(m)'
               PROVE  m \in Routes /\ Real(m)' /\ fib'[m].nodeIds = tree'[m]
    BY DEF RoutesInv
  <2>1. InTree(m) /\ m \in Routes /\ Real(m) /\ fib[m].nodeIds = tree[m]
    BY <1>5 DEF LpmInv, RoutesInv
  <2>2. CASE fib'[m] = fib[m]
    BY <1>4, <2>1, <2>2 DEF Real, Has
  <2>3. CASE m = n /\ fib'[m] = e /\ e # NoEntry
    BY <1>2, <1>4, <2>1, <2>3, RouteMatch DEF Real, Has
  <2>4. QED
    BY <1>6, <2>2, <2>3
<1>8. MarksInv'
  <2> SUFFICES ASSUME NEW m \in ContentNames
               PROVE  /\ Marked(m) => Has(fib', m) /\ \A l \in DeepBelow(m) : Depth(l) <= fib'[m].maximumDepth
                      /\ Has(fib', m) /\ Depth(m) <= MaxVirtualDepth /\ ~Marked(m) =>
                           fib'[m].maximumDepth <= MaxVirtualDepth
    BY <1>5 DEF MarksInv
  <2>1. CASE fib'[m] = fib[m]
    BY <2>1 DEF LpmInv, MarksInv, Has
  <2>2. CASE m = n /\ fib'[m] = e /\ e # NoEntry
    BY <1>2, <1>3, <2>2
  <2>3. QED
    BY <1>6, <2>1, <2>2
<1>9. CopiesInv'
  <2> SUFFICES ASSUME NEW m \in ContentNames, Real(m)'
               PROVE  (m \in Asked \/ InTree(m)) /\ fib'[m].nodeIds = LongestPrefixMatch(m)
    BY <1>4, <1>5 DEF CopiesInv
  <2>1. CASE fib'[m] = fib[m]
    BY <1>4, <2>1 DEF LpmInv, CopiesInv, Real, Has
  <2>2. CASE m = n /\ fib'[m] = e /\ e # NoEntry
    BY <1>2, <2>2
  <2>3. QED
    BY <1>6, <2>1, <2>2
<1>10. QED
  BY <1>7, <1>8, <1>9 DEF LpmInv

\* When the look-ups begin there are no copies.
LEMMA StartKeepsInv ==
  ASSUME LpmInv, Start
  PROVE  LpmInv'
<1>1. tree' = tree /\ fib' = fib /\ ready' /\ ~ready
  BY DEF Start
<1>2. RoutesInv' /\ MarksInv'
  BY <1>1 DEF LpmInv, RoutesInv, MarksInv, Real, InTree, DeepBelow, Marked
<1>3. CopiesInv'
  <2> SUFFICES ASSUME NEW n \in ContentNames, Real(n)'
               PROVE  InTree(n) /\ fib[n].nodeIds = LongestPrefixMatch(n)
    BY <1>1 DEF CopiesInv, LongestPrefixMatch, InTree
  <2>1. Real(n)
    BY <1>1 DEF Real
  <2>2. InTree(n)
    BY <1>1, <2>1 DEF LpmInv, CopiesInv, Real
  <2>3. QED
    BY <2>1, <2>2, RealMatches DEF LpmInv
<1>4. QED
  BY <1>2, <1>3 DEF LpmInv

\* A table whose entries are some of a set that it has room for takes each entry of
\* that set.
LEMMA RoomTakes ==
  ASSUME NEW f, NEW T, IsFiniteSet(T), Cardinality(T) <= FibEntries,
         {m \in ContentNames : Has(f, m)} \subseteq T, NEW n \in T, NEW e
  PROVE  PutEntry(f, n, e) = [f EXCEPT ![n] = e]
<1> DEFINE H == {m \in ContentNames : Has(f, m)}
<1>1. CASE Has(f, n)
  BY <1>1 DEF PutEntry
<1>2. CASE ~Has(f, n)
  <2>1. n \notin H /\ H \subseteq T
    BY <1>2
  <2> HIDE DEF H
  <2>2. /\ Cardinality(H) <= Cardinality(T) /\ Cardinality(H) \in Nat /\ Cardinality(T) \in Nat
        /\ Cardinality(H) # Cardinality(T)
    BY <2>1, FS_Subset, FS_CardinalityType
  <2>3. Cardinality(H) < FibEntries
    BY <2>2, FIBAssumption
  <2>4. QED
    BY <2>3 DEF PutEntry, H
<1>3. QED
  BY <1>1, <1>2

\* While routes are added, nothing is refused: there is room for another route and its mark.
LEMMA RouteTaken ==
  ASSUME FibRoom, RoutingTypeInv, LpmInv, NEW n \in Routes, NEW h \in Hops, AddRoute(n, h)
  PROVE  LET p == Prefix(n, MaxVirtualDepth)
             marked == [fib EXCEPT ![p] = MarkEntry(fib, p, Depth(n))]
         IN  IF Depth(n) <= MaxVirtualDepth THEN fib' = [fib EXCEPT ![n] = RealEntry(fib, n, h)]
             ELSE fib' = [marked EXCEPT ![n] = RealEntry(marked, n, h)]
<1> DEFINE p == Prefix(n, MaxVirtualDepth)
           marked == [fib EXCEPT ![p] = MarkEntry(fib, p, Depth(n))]
           R == {m \in ContentNames : InTree(m)}
           S == R \cup {n}
           T == S \cup {Prefix(m, MaxVirtualDepth) : m \in S}
           H(f) == {m \in ContentNames : Has(f, m)}
<1>1. n \in ContentNames /\ p \in ContentNames /\ MaxVirtualDepth \in Nat \ {0} /\ Depth(n) \in Nat
  BY RoutingAssumption, FIBAssumption, PrefixIs
<1>2. IsFiniteSet(R) /\ Cardinality(R) <= RibEntries /\ (n \in R \/ Cardinality(R) < RibEntries)
  <2>1. IsFiniteSet(R) /\ Cardinality(R) <= RibEntries
    BY DEF RoutingTypeInv, RoutingTypeOK
  <2>2. Cardinality(R) \in Nat /\ RibEntries \in Nat
    BY <2>1, FS_CardinalityType, RoutingAssumption
  <2>3. n \in R \/ ~(Cardinality(R) >= RibEntries)
    BY <1>1 DEF AddRoute, RibFull
  <2>4. QED
    BY <2>1, <2>2, <2>3
<1>3. S \in SUBSET Routes
  BY DEF LpmInv, RoutesInv
<1>4. H(fib) \subseteq T
  <2> SUFFICES ASSUME NEW m \in ContentNames, Has(fib, m) PROVE m \in T
    OBVIOUS
  <2>1. ~ready
    BY DEF AddRoute
  <2>2. Marked(m) \/ InTree(m)
    BY <2>1 DEF LpmInv, CopiesInv
  <2>3. QED
    BY <2>2 DEF Marked, DeepBelow
<1>5. n \in T /\ p \in T
  OBVIOUS
<1>6. Has(fib, n) => fib[n] \in EntryType
  BY <1>1 DEF RoutingTypeInv, RoutingTypeOK
<1>7. IsFiniteSet(T) /\ Cardinality(T) <= FibEntries
  <2> HIDE DEF R
  <2>1. /\ IsFiniteSet(S)
        /\ Cardinality(S) = IF n \in R THEN Cardinality(R) ELSE Cardinality(R) + 1
    BY <1>2, FS_AddElement
  <2>2. Cardinality(R) \in Nat /\ RibEntries \in Nat
    BY <1>2, FS_CardinalityType, RoutingAssumption
  <2>3. Cardinality(S) <= RibEntries
    BY <1>2, <2>1, <2>2
  <2> HIDE DEF S
  <2>4. Cardinality(T) <= FibEntries
    BY <1>3, <2>1, <2>3 DEF FibRoom
  <2>5. IsFiniteSet({Prefix(m, MaxVirtualDepth) : m \in S})
    <3> DEFINE mark == [m \in S |-> Prefix(m, MaxVirtualDepth)]
               marks == {Prefix(m, MaxVirtualDepth) : m \in S}
    <3>1. mark \in Surjection(S, marks)
      BY DEF Surjection
    <3> HIDE DEF mark, marks
    <3>2. IsFiniteSet(marks)
      BY <2>1, <3>1, FS_Surjection
    <3>3. QED
      BY <3>2 DEF marks
  <2>6. IsFiniteSet(T)
    BY <2>1, <2>5, FS_Union
  <2>7. QED
    BY <2>4, <2>6
<1> HIDE DEF T
<1>8. CASE Depth(n) <= MaxVirtualDepth
  <2>1. fib' = PutEntry(fib, n, RealEntry(fib, n, h))
    BY <1>8 DEF AddRoute, FibWithRoute, SaveReal, RealEntry
  <2>2. QED
    BY <1>4, <1>5, <1>7, <1>8, <2>1, RoomTakes
<1>9. CASE ~(Depth(n) <= MaxVirtualDepth)
  <2>1. fib' = SaveReal(SaveVirtual(fib, p, Depth(n)), n, h)
    BY <1>9 DEF AddRoute, FibWithRoute
  <2>2. SaveVirtual(fib, p, Depth(n)) = PutEntry(fib, p, MarkEntry(fib, p, Depth(n)))
    BY DEF SaveVirtual, MarkEntry
  <2>3. SaveVirtual(fib, p, Depth(n)) = marked
    BY <1>4, <1>5, <1>7, <2>2, RoomTakes
  <2>4. H(marked) \subseteq T
    <3>1. \A m \in ContentNames : m # p => marked[m] = fib[m]
      BY DEF RoutingTypeInv, RoutingTypeOK
    <3> HIDE DEF marked
    <3>2. QED
      BY <1>4, <1>5, <3>1 DEF Has
  <2> HIDE DEF marked
  <2>5. fib' = PutEntry(marked, n, RealEntry(marked, n, h))
    BY <2>1, <2>3 DEF SaveReal, RealEntry
  <2>6. fib' = [marked EXCEPT ![n] = RealEntry(marked, n, h)]
    BY <1>5, <1>7, <2>4, <2>5, RoomTakes
  <2>7. QED
    BY <1>9, <2>6 DEF marked
<1>10. QED
  BY <1>8, <1>9

\* What the two entries of a new route say.
LEMMA RouteEntries ==
  ASSUME FibRoom, RoutingTypeInv, LpmInv, NEW n \in Routes, NEW h \in Hops, AddRoute(n, h)
  PROVE  LET p == Prefix(n, MaxVirtualDepth)
         IN  /\ n \in ContentNames /\ p \in ContentNames
             /\ \A m \in ContentNames :
                  m # n /\ (m # p \/ Depth(n) <= MaxVirtualDepth) => fib'[m] = fib[m]
             /\ Has(fib', n) /\ ~fib'[n].virtual
             /\ Has(fib, n) => /\ fib'[n].nodeIds = InsertHop(fib[n].nodeIds, h, HopsPerEntry)
                               /\ fib'[n].maximumDepth = fib[n].maximumDepth
             /\ ~Has(fib, n) => fib'[n].nodeIds = {h} /\ fib'[n].maximumDepth = Depth(n)
             /\ Depth(n) > MaxVirtualDepth =>
                  /\ p # n /\ Has(fib', p) /\ fib'[p].maximumDepth >= Depth(n)
                  /\ Has(fib, p) => /\ fib'[p].virtual = fib[p].virtual
                                    /\ fib'[p].nodeIds = fib[p].nodeIds
                                    /\ fib'[p].maximumDepth >= fib[p].maximumDepth
                  /\ ~Has(fib, p) => fib'[p].virtual /\ fib'[p].nodeIds = {}
<1> DEFINE M == MaxVirtualDepth
           p == Prefix(n, M)
           marked == [fib EXCEPT ![p] = MarkEntry(fib, p, Depth(n))]
<1>1. /\ n \in ContentNames /\ p \in ContentNames /\ M \in Nat \ {0} /\ Depth(n) \in Nat \ {0}
      /\ Depth(n) > M => p # n /\ Depth(p) = M
      /\ fib \in [ContentNames -> EntryType]
  <2>1. n \in ContentNames /\ M \in Nat \ {0} /\ Depth(n) \in Nat \ {0}
    BY RoutingAssumption, FIBAssumption, PrefixIs
  <2>2. p \in ContentNames /\ (Depth(n) > M => Depth(p) = M)
    BY <2>1, PrefixIs
  <2>3. Depth(n) > M => p # n
    BY <2>1, <2>2
  <2>4. QED
    BY <2>1, <2>2, <2>3 DEF RoutingTypeInv, RoutingTypeOK
<1>2. \A f \in [ContentNames -> EntryType] :
        LET e == RealEntry(f, n, h)
        IN  /\ ~e.virtual /\ e # NoEntry
            /\ Has(f, n) => /\ e.nodeIds = InsertHop(f[n].nodeIds, h, HopsPerEntry)
                            /\ e.maximumDepth = f[n].maximumDepth
            /\ ~Has(f, n) => e.nodeIds = {h} /\ e.maximumDepth = Depth(n)
  <2> SUFFICES ASSUME NEW f \in [ContentNames -> EntryType]
               PROVE  LET e == RealEntry(f, n, h)
                      IN  /\ ~e.virtual /\ e.nodeIds # {}
                          /\ Has(f, n) => /\ e.nodeIds = InsertHop(f[n].nodeIds, h, HopsPerEntry)
                                          /\ e.maximumDepth = f[n].maximumDepth
                          /\ ~Has(f, n) => e.nodeIds = {h} /\ e.maximumDepth = Depth(n)
    BY DEF NoEntry
  <2>1. HopsPerEntry \in Nat \ {0} /\ Cardinality({}) = 0
    BY FIBAssumption, FS_EmptySet
  <2>2. \A S : InsertHop(S, h, HopsPerEntry) # {}
    BY <2>1 DEF InsertHop
  <2>3. f[n] \in EntryType
    BY <1>1
  <2>4. CASE Has(f, n)
    <3> DEFINE S == InsertHop(f[n].nodeIds, h, HopsPerEntry)
    <3>1. RealEntry(f, n, h) = [virtual |-> FALSE, maximumDepth |-> f[n].maximumDepth, nodeIds |-> S]
      BY <2>3, <2>4 DEF RealEntry, EntryType
    <3>2. QED
      BY <2>2, <2>4, <3>1
  <2>5. CASE ~Has(f, n)
    BY <2>5 DEF RealEntry
  <2>6. QED
    BY <2>4, <2>5
<1>3. LET e == MarkEntry(fib, p, Depth(n))
      IN  /\ e.maximumDepth >= Depth(n) /\ e # NoEntry
          /\ Has(fib, p) => /\ e.virtual = fib[p].virtual /\ e.nodeIds = fib[p].nodeIds
                            /\ e.maximumDepth >= fib[p].maximumDepth
          /\ ~Has(fib, p) => e.virtual /\ e.nodeIds = {}
  <2> DEFINE e == MarkEntry(fib, p, Depth(n))
  <2>1. fib[p] \in EntryType /\ fib[p].maximumDepth \in Nat
    BY <1>1 DEF EntryType
  <2>2. /\ e.maximumDepth >= Depth(n)
        /\ Has(fib, p) => /\ e.virtual = fib[p].virtual /\ e.nodeIds = fib[p].nodeIds
                          /\ e.maximumDepth >= fib[p].maximumDepth
        /\ ~Has(fib, p) => e.virtual /\ e.nodeIds = {}
    <3>1. CASE Has(fib, p)
      <4>1. e = [virtual |-> fib[p].virtual, nodeIds |-> fib[p].nodeIds,
                 maximumDepth |-> IF fib[p].maximumDepth < Depth(n) THEN Depth(n)
                                  ELSE fib[p].maximumDepth]
        BY <2>1, <3>1 DEF MarkEntry, EntryType
      <4> HIDE DEF e
      <4>2. QED
        BY <1>1, <2>1, <3>1, <4>1
    <3>2. CASE ~Has(fib, p)
      <4>1. e = [virtual |-> TRUE, maximumDepth |-> Depth(n), nodeIds |-> {}]
        BY <3>2 DEF MarkEntry
      <4> HIDE DEF e
      <4>2. e.virtual = TRUE
        BY <4>1, Zenon
      <4>3. e.maximumDepth = Depth(n) /\ e.nodeIds = {}
        BY <4>1
      <4>4. QED
        BY <1>1, <3>2, <4>2, <4>3
    <3>3. QED
      BY <3>1, <3>2
  <2>3. e # NoEntry
    <3> HIDE DEF e
    <3>1. QED
      BY <1>1, <2>2 DEF NoEntry
  <2>4. QED
    BY <2>2, <2>3
<1>4. CASE Depth(n) <= M
  <2>1. fib' = [fib EXCEPT ![n] = RealEntry(fib, n, h)]
    BY <1>4, RouteTaken
  <2>2. fib'[n] = RealEntry(fib, n, h) /\ \A m \in ContentNames : m # n => fib'[m] = fib[m]
    BY <1>1, <2>1
  <2>3. ~(Depth(n) > M)
    BY <1>1, <1>4
  <2>4. QED
    BY <1>1, <1>2, <2>2, <2>3 DEF Has
<1>5. CASE Depth(n) > M
  <2>1. fib' = [marked EXCEPT ![n] = RealEntry(marked, n, h)] /\ ~(Depth(n) <= M)
    <3>1. ~(Depth(n) <= M)
      BY <1>1, <1>5
    <3>2. QED
      BY <3>1, RouteTaken
  <2>2. /\ marked \in [ContentNames -> EntryType]
        /\ marked[p] = MarkEntry(fib, p, Depth(n))
        /\ \A m \in ContentNames : m # p => marked[m] = fib[m]
    <3>1. MarkEntry(fib, p, Depth(n)) \in EntryType
      BY <1>1, SavedEntries DEF RoutingTypeInv
    <3> HIDE DEF p
    <3>2. QED
      BY <1>1, <3>1
  <2> HIDE DEF marked
  <2>3. /\ fib'[n] = RealEntry(marked, n, h) /\ fib'[p] = MarkEntry(fib, p, Depth(n))
        /\ \A m \in ContentNames : m # n /\ m # p => fib'[m] = fib[m]
    BY <1>1, <1>5, <2>1, <2>2
  <2>4. marked[n] = fib[n] /\ (Has(marked, n) <=> Has(fib, n))
    BY <1>1, <1>5, <2>2 DEF Has
  <2> DEFINE e == RealEntry(marked, n, h)
             d == MarkEntry(fib, p, Depth(n))
  <2>5. /\ ~e.virtual /\ e # NoEntry
        /\ Has(fib, n) => /\ e.nodeIds = InsertHop(fib[n].nodeIds, h, HopsPerEntry)
                          /\ e.maximumDepth = fib[n].maximumDepth
        /\ ~Has(fib, n) => e.nodeIds = {h} /\ e.maximumDepth = Depth(n)
    BY <1>2, <2>2, <2>4
  <2> HIDE DEF e, d, p
  <2>6. QED
    BY <1>1, <1>3, <1>5, <2>1, <2>3, <2>5 DEF Has, e, d, p
<1>6. QED
  BY <1>1, <1>4, <1>5

\* Adding a route keeps the invariant.
LEMMA AddRouteKeepsInv ==
  ASSUME SameHops, FibRoom, RoutingTypeInv, LpmInv, NEW n \in Routes, NEW h \in Hops, AddRoute(n, h)
  PROVE  LpmInv'
<1> DEFINE M == MaxVirtualDepth
           p == Prefix(n, M)
           deep == Depth(n) > M
<1>1. /\ n \in ContentNames /\ p \in ContentNames
      /\ \A m \in ContentNames : m # n /\ (m # p \/ Depth(n) <= M) => fib'[m] = fib[m]
      /\ Has(fib', n) /\ ~fib'[n].virtual
      /\ Has(fib, n) => /\ fib'[n].nodeIds = InsertHop(fib[n].nodeIds, h, HopsPerEntry)
                        /\ fib'[n].maximumDepth = fib[n].maximumDepth
      /\ ~Has(fib, n) => fib'[n].nodeIds = {h} /\ fib'[n].maximumDepth = Depth(n)
  BY RouteEntries
<1>2. deep => /\ p # n /\ Has(fib', p) /\ fib'[p].maximumDepth >= Depth(n)
              /\ Has(fib, p) => /\ fib'[p].virtual = fib[p].virtual
                                /\ fib'[p].nodeIds = fib[p].nodeIds
                                /\ fib'[p].maximumDepth >= fib[p].maximumDepth
              /\ ~Has(fib, p) => fib'[p].virtual /\ fib'[p].nodeIds = {}
  BY RouteEntries
<1>3. /\ M \in Nat \ {0} /\ \A m \in ContentNames : Depth(m) \in Nat \ {0}
      /\ deep => Depth(p) = M
  <2>1. M \in Nat \ {0} /\ \A m \in ContentNames : Depth(m) \in Nat \ {0}
    BY FIBAssumption, PrefixIs
  <2>2. QED
    BY <1>1, <2>1, PrefixIs
<1>4. /\ ~ready /\ ~ready'
      /\ tree' = [tree EXCEPT ![n] = InsertHop(tree[n], h, HopsPerNode)]
      /\ tree \in [ContentNames -> SUBSET Hops]
      /\ \A m \in ContentNames : fib[m].maximumDepth \in Nat
  BY DEF AddRoute, RoutingTypeInv, RoutingTypeOK, EntryType
<1>5. tree'[n] # {} /\ \A m \in ContentNames : m # n => tree'[m] = tree[m]
  <2>1. HopsPerNode \in Nat \ {0} /\ Cardinality({}) = 0
    BY RoutingAssumption, FS_EmptySet
  <2>2. InsertHop(tree[n], h, HopsPerNode) # {}
    BY <2>1 DEF InsertHop
  <2>3. QED
    BY <1>1, <1>4, <2>2
<1>6. \A m \in ContentNames : InTree(m)' <=> InTree(m) \/ m = n
  BY <1>1, <1>5 DEF InTree
<1>7. \A m : DeepBelow(m)' = DeepBelow(m) \cup (IF deep /\ m = p THEN {n} ELSE {})
  BY <1>1, <1>6 DEF DeepBelow
<1>8. \A m : Marked(m)' <=> Marked(m) \/ (deep /\ m = p)
  BY <1>7 DEF Marked
<1>9. RoutesInv'
  <2> SUFFICES ASSUME NEW m \in ContentNames, InTree(m)'
               PROVE  m \in Routes /\ Real(m)' /\ fib'[m].nodeIds = tree'[m]
    BY DEF RoutesInv
  <2>1. CASE m = n
    <3>1. InTree(n) => Real(n) /\ fib[n].nodeIds = tree[n]
      BY <1>1 DEF LpmInv, RoutesInv
    <3>2. Real(n) => InTree(n)
      BY <1>1, <1>4 DEF LpmInv, CopiesInv, Real
    <3>3. tree[n] = {} => tree'[n] = {h}
      <4>1. HopsPerNode \in Nat \ {0} /\ Cardinality({}) = 0
        BY RoutingAssumption, FS_EmptySet
      <4>2. QED
        BY <1>1, <1>4, <4>1 DEF InsertHop
    <3>4. tree'[n] = InsertHop(tree[n], h, HopsPerNode)
      BY <1>1, <1>4
    <3>5. Has(fib, n) => fib[n].nodeIds = tree[n]
      <4>1. CASE InTree(n)
        BY <3>1, <4>1
      <4>2. CASE ~InTree(n)
        <5>1. Has(fib, n) => fib[n].nodeIds = {}
          BY <1>1, <1>4, <4>2 DEF LpmInv, CopiesInv
        <5>2. QED
          BY <4>2, <5>1 DEF InTree
      <4>3. QED
        BY <4>1, <4>2
    <3>6. ~Has(fib, n) => tree[n] = {}
      BY <3>1 DEF Real, InTree
    <3>7. fib'[n].nodeIds = tree'[n]
      BY <1>1, <3>3, <3>4, <3>5, <3>6 DEF SameHops
    <3>8. QED
      BY <1>1, <2>1, <3>7 DEF Real
  <2>2. CASE m # n
    <3>1. InTree(m) /\ m \in Routes /\ Real(m) /\ fib[m].nodeIds = tree[m] /\ tree'[m] = tree[m]
      BY <1>5, <1>6, <2>2 DEF LpmInv, RoutesInv
    <3>2. CASE fib'[m] = fib[m]
      BY <3>1, <3>2 DEF Real, Has
    <3>3. CASE m = p /\ deep
      BY <1>2, <3>1, <3>3 DEF Real
    <3>4. QED
      BY <1>1, <1>3, <2>2, <3>2, <3>3
  <2>3. QED
    BY <2>1, <2>2
<1>10. MarksInv'
  <2> SUFFICES ASSUME NEW m \in ContentNames
               PROVE  /\ Marked(m)' => /\ Has(fib', m)
                                       /\ \A l \in DeepBelow(m)' : Depth(l) <= fib'[m].maximumDepth
                      /\ Has(fib', m) /\ Depth(m) <= M /\ ~Marked(m)' => fib'[m].maximumDepth <= M
    BY DEF MarksInv
  <2>0. /\ Marked(m) => Has(fib, m) /\ \A l \in DeepBelow(m) : Depth(l) <= fib[m].maximumDepth
        /\ Has(fib, m) /\ Depth(m) <= M /\ ~Marked(m) => fib[m].maximumDepth <= M
    BY DEF LpmInv, MarksInv
  <2>1. DeepBelow(m) \subseteq ContentNames /\ (Marked(m) <=> DeepBelow(m) # {})
    BY DEF DeepBelow, Marked
  <2>2. CASE m = p /\ deep
    <3>1. /\ Has(fib', p) /\ fib'[p].maximumDepth >= Depth(n)
          /\ Has(fib, p) => fib'[p].maximumDepth >= fib[p].maximumDepth
      BY <1>2, <2>2
    <3>2. ASSUME NEW l \in DeepBelow(m)
          PROVE  Depth(l) <= fib[m].maximumDepth /\ Has(fib, p)
      BY <2>0, <2>1, <2>2, <3>2
    <3>3. fib'[p].maximumDepth \in Nat
      <4>1. RoutingTypeInv'
        BY RoutingTypeStep DEF RoutingNext
      <4>2. QED
        BY <1>1, <4>1 DEF RoutingTypeInv, RoutingTypeOK, EntryType
    <3>4. \A l \in DeepBelow(m) : Depth(l) <= fib'[m].maximumDepth
      BY <1>1, <1>3, <1>4, <2>1, <2>2, <3>1, <3>2, <3>3
    <3>5. QED
      BY <1>7, <1>8, <2>2, <3>1, <3>4
  <2>3. CASE ~(m = p /\ deep)
    <3>1. DeepBelow(m)' = DeepBelow(m) /\ (Marked(m)' <=> Marked(m))
      BY <1>7, <1>8, <2>3
    <3>2. CASE m # n
      <4>1. fib'[m] = fib[m]
        BY <1>1, <1>3, <2>3, <3>2
      <4>2. QED
        BY <2>0, <3>1, <4>1 DEF Has
    <3>3. CASE m = n /\ Has(fib, n)
      BY <1>1, <2>0, <3>1, <3>3
    <3>4. CASE m = n /\ ~Has(fib, n)
      BY <1>1, <2>0, <3>1, <3>4
    <3>5. QED
      BY <3>2, <3>3, <3>4
  <2>4. QED
    BY <2>2, <2>3
<1>11. CopiesInv'
  <2> SUFFICES ASSUME NEW m \in ContentNames, Has(fib', m)
               PROVE  IF fib'[m].virtual THEN Marked(m)' /\ fib'[m].nodeIds = {} ELSE InTree(m)'
    BY <1>4 DEF CopiesInv
  <2>1. Has(fib, m) => IF fib[m].virtual THEN Marked(m) /\ fib[m].nodeIds = {} ELSE InTree(m)
    BY <1>4 DEF LpmInv, CopiesInv
  <2>2. CASE m = n
    BY <1>1, <1>6, <2>2
  <2>3. CASE m # n /\ m = p /\ deep
    BY <1>2, <1>6, <1>8, <2>1, <2>3
  <2>4. CASE m # n /\ ~(m = p /\ deep)
    <3>1. fib'[m] = fib[m]
      BY <1>1, <1>3, <2>4
    <3>2. QED
      BY <1>6, <1>8, <2>1, <3>1 DEF Has
  <2>5. QED
    BY <2>2, <2>3, <2>4
<1>12. QED
  BY <1>9, <1>10, <1>11 DEF LpmInv

\* A step that changes no prefix of n leaves its match, and one that leaves n a route
\* leaves n its own match.
LEMMA MatchDepends ==
  ASSUME NEW n \in ContentNames
  PROVE  /\ (\A d \in 1 .. Depth(n) : tree'[Prefix(n, d)] = tree[Prefix(n, d)]) =>
              LongestPrefixMatch(n)' = LongestPrefixMatch(n)
         /\ tree'[n] # {} => LongestPrefixMatch(n)' = tree'[n]
<1> DEFINE matches == {d \in 1 .. Depth(n) : InTree(Prefix(n, d))}
           later == {d \in 1 .. Depth(n) : tree'[Prefix(n, d)] # {}}
<1>1. Depth(n) \in Nat \ {0} /\ Prefix(n, Depth(n)) = n
  BY PrefixIs
<1>2. LongestPrefixMatch(n)' = IF later = {} THEN {} ELSE tree'[Prefix(n, Max(later))]
  BY DEF LongestPrefixMatch, InTree
<1>3. LongestPrefixMatch(n) = IF matches = {} THEN {} ELSE tree[Prefix(n, Max(matches))]
  BY DEF LongestPrefixMatch
<1>4. ASSUME \A d \in 1 .. Depth(n) : tree'[Prefix(n, d)] = tree[Prefix(n, d)]
      PROVE  LongestPrefixMatch(n)' = LongestPrefixMatch(n)
  <2>1. later = matches /\ matches \in SUBSET (1 .. Depth(n))
    BY <1>4 DEF InTree
  <2>2. matches # {} => Max(matches) \in 1 .. Depth(n)
    <3> HIDE DEF matches
    <3>1. QED
      BY <1>1, <2>1, MaxFinds
  <2>3. QED
    BY <1>2, <1>3, <1>4, <2>1, <2>2
<1>5. ASSUME tree'[n] # {}
      PROVE  LongestPrefixMatch(n)' = tree'[n]
  <2>1. Depth(n) \in later /\ later \in SUBSET (1 .. Depth(n))
    BY <1>1, <1>5
  <2>2. Max(later) \in 1 .. Depth(n) /\ Depth(n) <= Max(later)
    <3> HIDE DEF later
    <3>1. QED
      BY <1>1, <2>1, MaxFinds
  <2>3. Max(later) = Depth(n)
    BY <1>1, <2>2
  <2>4. QED
    BY <1>1, <1>2, <2>1, <2>3
<1>6. QED
  BY <1>4, <1>5

\* Removing a route takes its entry, and its mark's when no other route needs it, and
\* changes the match of nothing that has a copy.
LEMMA RemoveKeepsInv ==
  ASSUME RemovalsApart, RoutingTypeInv, LpmInv, NEW n \in ContentNames, RemoveRoute(n)
  PROVE  LpmInv'
<1> DEFINE M == MaxVirtualDepth
           p == Prefix(n, M)
           gone == IF Depth(n) > M /\ ~PrefixStillNeeded(n) THEN {n, p} ELSE {n}
<1>1. /\ M \in Nat \ {0} /\ p \in ContentNames /\ \A m \in ContentNames : Depth(m) \in Nat \ {0}
      /\ tree' = [tree EXCEPT ![n] = {}] /\ tree \in [ContentNames -> SUBSET Hops]
      /\ fib \in [ContentNames -> EntryType] /\ ready' = ready
  BY FIBAssumption, PrefixIs DEF RemoveRoute, RoutingTypeInv, RoutingTypeOK
<1>2. /\ tree'[n] = {} /\ \A m \in ContentNames : m # n => tree'[m] = tree[m]
      /\ \A m \in ContentNames : InTree(m)' <=> InTree(m) /\ m # n
  BY <1>1 DEF InTree
<1>3. \A m \in ContentNames : fib'[m] = IF m \in gone THEN NoEntry ELSE fib[m]
  BY <1>1 DEF RemoveRoute, FibWithoutRoute, RemoveEntry
<1>4. \A m : DeepBelow(m)' = DeepBelow(m) \ {n}
  BY <1>2 DEF DeepBelow
<1>5. \A m : Marked(m)' <=> DeepBelow(m) # {} /\ DeepBelow(m) # {n}
  BY <1>4 DEF Marked
<1>6. /\ Depth(n) > M => p \notin Routes
      /\ ~Marked(n)
      /\ \A m \in Asked, d \in Nat \ {0} : Prefix(m, d) # n
  <2>1. \A m \in DeepBelow(n) : m \in Routes /\ Depth(m) > M /\ Prefix(m, M) = n
    BY DEF DeepBelow, LpmInv, RoutesInv
  <2>2. n \in Removable
    BY DEF RemoveRoute
  <2>3. QED
    BY <2>1, <2>2 DEF RemovalsApart, Marked
<1>7. \A m \in gone : ~InTree(m)' /\ ~Marked(m)'
  <2>1. ~InTree(n)' /\ ~Marked(n)'
    BY <1>2, <1>5, <1>6 DEF Marked
  <2>2. ASSUME Depth(n) > M, ~PrefixStillNeeded(n)
        PROVE  ~InTree(p)' /\ ~Marked(p)'
    <3>1. DeepBelow(p) \subseteq {n}
      BY <2>2 DEF DeepBelow, PrefixStillNeeded
    <3>2. ~InTree(p)
      BY <1>1, <1>6, <2>2 DEF LpmInv, RoutesInv
    <3>3. QED
      BY <1>1, <1>2, <1>5, <3>1, <3>2
  <2>3. QED
    BY <2>1, <2>2
<1>8. RoutesInv'
  <2> SUFFICES ASSUME NEW m \in ContentNames, InTree(m)'
               PROVE  m \in Routes /\ Real(m)' /\ fib'[m].nodeIds = tree'[m]
    BY DEF RoutesInv
  <2>1. fib'[m] = fib[m] /\ tree'[m] = tree[m] /\ InTree(m)
    BY <1>2, <1>3, <1>7
  <2>2. QED
    BY <2>1 DEF LpmInv, RoutesInv, Real, Has
<1>9. MarksInv'
  <2> SUFFICES ASSUME NEW m \in ContentNames
               PROVE  /\ Marked(m)' => /\ Has(fib', m)
                                       /\ \A l \in DeepBelow(m)' : Depth(l) <= fib'[m].maximumDepth
                      /\ Has(fib', m) /\ Depth(m) <= M /\ ~Marked(m)' => fib'[m].maximumDepth <= M
    BY DEF MarksInv
  <2>1. CASE m \in gone
    BY <1>3, <1>7, <2>1 DEF Has
  <2>2. CASE m \notin gone
    <3>1. fib'[m] = fib[m]
      BY <1>3, <2>2
    <3>2. Marked(m) => Marked(m)'
      <4>1. SUFFICES ASSUME DeepBelow(m) = {n} PROVE FALSE
        BY <1>5 DEF Marked
      <4>2. Depth(n) > M /\ p = m
        BY <4>1 DEF DeepBelow
      <4>3. ~PrefixStillNeeded(n)
        BY <4>1, <4>2 DEF DeepBelow, PrefixStillNeeded
      <4>4. QED
        BY <2>2, <4>2, <4>3
    <3>3. Marked(m)' => Marked(m)
      BY <1>5 DEF Marked
    <3>4. /\ Marked(m) => Has(fib, m) /\ \A l \in DeepBelow(m) : Depth(l) <= fib[m].maximumDepth
          /\ Has(fib, m) /\ Depth(m) <= M /\ ~Marked(m) => fib[m].maximumDepth <= M
      BY DEF LpmInv, MarksInv
    <3>5. QED
      BY <1>4, <3>1, <3>2, <3>3, <3>4 DEF Has
  <2>3. QED
    BY <2>1, <2>2
<1>10. CopiesInv'
  <2>1. ASSUME NEW m \in ContentNames, m \in gone
        PROVE  ~Has(fib', m)
    BY <1>3, <2>1 DEF Has
  <2>2. CASE ~ready
    <3> SUFFICES ASSUME NEW m \in ContentNames, Has(fib', m)
                 PROVE  IF fib'[m].virtual THEN Marked(m)' /\ fib'[m].nodeIds = {} ELSE InTree(m)'
      BY <1>1, <2>2 DEF CopiesInv
    <3>1. m \notin gone /\ fib'[m] = fib[m] /\ Has(fib, m) /\ m # n
      BY <1>3, <2>1 DEF Has
    <3>2. IF fib[m].virtual THEN Marked(m) /\ fib[m].nodeIds = {} ELSE InTree(m)
      BY <2>2, <3>1 DEF LpmInv, CopiesInv
    <3>3. Marked(m) => Marked(m)'
      <4>1. SUFFICES ASSUME DeepBelow(m) = {n} PROVE FALSE
        BY <1>5 DEF Marked
      <4>2. Depth(n) > M /\ p = m
        BY <4>1 DEF DeepBelow
      <4>3. ~PrefixStillNeeded(n)
        BY <4>1, <4>2 DEF DeepBelow, PrefixStillNeeded
      <4>4. QED
        BY <3>1, <4>2, <4>3
    <3>4. QED
      BY <1>2, <3>1, <3>2, <3>3
  <2>3. CASE ready
    <3> SUFFICES ASSUME NEW m \in ContentNames, Real(m)'
                 PROVE  (m \in Asked \/ InTree(m)') /\ fib'[m].nodeIds = LongestPrefixMatch(m)'
      BY <1>1, <2>3 DEF CopiesInv
    <3>1. m \notin gone /\ fib'[m] = fib[m] /\ Real(m) /\ m # n
      BY <1>3, <2>1 DEF Real, Has
    <3>2. (m \in Asked \/ InTree(m)) /\ fib[m].nodeIds = LongestPrefixMatch(m)
      BY <2>3, <3>1 DEF LpmInv, CopiesInv
    <3>3. CASE InTree(m)
      <4>1. InTree(m)'
        BY <1>2, <3>1, <3>3
      <4>2. fib'[m].nodeIds = tree'[m]
        BY <1>8, <4>1 DEF RoutesInv
      <4>3. LongestPrefixMatch(m)' = tree'[m]
        BY <4>1, MatchDepends DEF InTree
      <4>4. QED
        BY <4>1, <4>2, <4>3
    <3>4. CASE m \in Asked
      <4>1. \A d \in 1 .. Depth(m) : Prefix(m, d) \in ContentNames /\ Prefix(m, d) # n
        BY <1>1, <1>6, <3>4, PrefixIs
      <4>2. \A d \in 1 .. Depth(m) : tree'[Prefix(m, d)] = tree[Prefix(m, d)]
        BY <1>2, <4>1
      <4>3. LongestPrefixMatch(m)' = LongestPrefixMatch(m)
        BY <4>2, MatchDepends
      <4>4. QED
        BY <3>1, <3>2, <3>4, <4>3
    <3>5. QED
      BY <3>2, <3>3, <3>4
  <2>4. QED
    BY <2>2, <2>3
<1>11. QED
  BY <1>8, <1>9, <1>10 DEF LpmInv

\* Empty tables satisfy it.
LEMMA LpmInit == RoutingInit => LpmInv
<1> SUFFICES ASSUME RoutingInit PROVE LpmInv
  OBVIOUS
<1>1. /\ ~ready /\ \A n \in ContentNames : ~InTree(n) /\ ~Has(fib, n)
  BY DEF RoutingInit, InTree, Has, EmptyFib
<1>2. \A n : ~Marked(n)
  BY <1>1 DEF Marked, DeepBelow
<1>3. QED
  BY <1>1, <1>2 DEF LpmInv, RoutesInv, MarksInv, CopiesInv

\* The tables are well formed, and hold no more than they have room for.
THEOREM RoutingTypeTheorem == RoutingSpec => []RoutingTypeOK
BY RoutingTyped, PTL DEF RoutingTypeInv

\* What the properties of the look-up ask of names and sizes.
LookUpConditions == RemovalsApart /\ SameHops /\ FibRoom /\ MarksNotAsked

\* Each operation keeps the invariant.
LEMMA LpmStep ==
  ASSUME LookUpConditions, RoutingTypeInv, LpmInv, [RoutingNext]_RoutingVars
  PROVE  LpmInv'
<1> USE DEF LookUpConditions
<1>1. ASSUME NEW n \in Routes, NEW h \in Hops, AddRoute(n, h) PROVE LpmInv'
  BY <1>1, AddRouteKeepsInv
<1>2. ASSUME NEW n \in Asked, LookUp(n) PROVE LpmInv'
  BY <1>2, LookUpKeepsInv
<1>3. CASE Start
  BY <1>3, StartKeepsInv
<1>4. ASSUME NEW n \in ContentNames, RemoveRoute(n) PROVE LpmInv'
  BY <1>4, RemoveKeepsInv
<1>5. CASE UNCHANGED RoutingVars
  BY <1>5 DEF RoutingVars, LpmInv, RoutesInv, MarksInv, CopiesInv, Real, InTree, DeepBelow, Marked,
              LongestPrefixMatch
<1>6. QED
  BY <1>1, <1>2, <1>3, <1>4, <1>5 DEF RoutingNext, AddRouteFull

\* The invariant holds always, and with it the longest prefix match.
LEMMA LpmAlways == LookUpConditions => (RoutingSpec => [](RoutingTypeInv /\ LpmInv /\ LpmExact))
<1> SUFFICES ASSUME LookUpConditions PROVE RoutingSpec => [](RoutingTypeInv /\ LpmInv /\ LpmExact)
  OBVIOUS
<1>1. RoutingTypeInv /\ LpmInv /\ [RoutingNext]_RoutingVars => LpmInv'
  BY LpmStep
<1>2. RoutingTypeInv /\ LpmInv => LpmExact
  BY LookUpAnswers DEF LpmExact
<1>3. QED
  BY <1>1, <1>2, LpmInit, RoutingTyped, PTL DEF RoutingSpec

\* When the FIB has room for what the RIB has room for, both hold as many next hops, no
\* Interest asks for a prefix at which deeper routes may be marked, and removals keep
\* apart from both, the two-stage look-up answers the longest prefix match for every name.
THEOREM LpmTheorem == LookUpConditions => (RoutingSpec => []LpmExact)
BY LpmAlways, PTL

\* Then a look-up, which stores a copy of the entry it found, changes the answer for no
\* name.
THEOREM LookUpTheorem == LookUpConditions => (RoutingSpec => LookUpKeepsAnswers)
<1>1. ASSUME LpmExact, LpmExact', NEW m \in Asked, LookUp(m), NEW n \in ContentNames
      PROVE  FibLpmLookup(fib', n).nodeIds = FibLpmLookup(fib, n).nodeIds
  <2>1. LongestPrefixMatch(n)' = LongestPrefixMatch(n)
    BY <1>1 DEF LookUp, LongestPrefixMatch, InTree
  <2>2. QED
    BY <1>1, <2>1 DEF LpmExact
<1>2. LpmExact /\ LpmExact' =>
        [\A m \in Asked : LookUp(m) =>
           \A n \in ContentNames :
             FibLpmLookup(fib', n).nodeIds = FibLpmLookup(fib, n).nodeIds]_RoutingVars
  BY <1>1
<1>3. QED
  BY <1>2, LpmTheorem, PTL DEF LookUpKeepsAnswers
=============================================================================
