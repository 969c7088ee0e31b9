--------------------------- MODULE ForwardingOps ---------------------------
(***************************************************************************)
(* What UseCaseInteractor and LRUPendingInterestTable do with one packet,  *)
(* as functions of the node's tables: the tables they leave behind and the *)
(* packets they hand to the sender.  The pending interest table (PIT) is   *)
(* the cache of LRUCacheOps, from names to bounded sets of requesters.     *)
(* The content store (CS) is the map of ContentStoreSpec, of which         *)
(* LRUContentStore is an implementation; whether a save finds memory and a *)
(* free slot is a parameter.  The FIB is a function from names to next     *)
(* hops, empty where the look-up misses.                                   *)
(***************************************************************************)
EXTENDS LRUCacheOps

CONSTANTS
  Contents,
  Neighbours,          \* the MAC addresses of the nodes in range
  RequestersPerEntry,  \* PIT_REQUESTERS_PER_ENTRY
  CsEntries,           \* CS_ENTRIES
  HopLimit,            \* hopCountThreshold
  HopModulus,          \* 2^8: the hop count travels in a byte
  MaxTxAddresses,      \* MAX_TX_ADDRESSES
  NoContent

Names == Keys
PitEntries == MaxSize  \* PIT_ENTRIES

\* The values of FixedNodeIdSet that a PIT entry can hold.
RequesterSets == {R \in SUBSET Neighbours : R # {} /\ Cardinality(R) <= RequestersPerEntry}

ASSUME ForwardingAssumption ==
  /\ Values = RequesterSets /\ NoValue = {} /\ Removable = Names
  /\ RequestersPerEntry \in Nat \ {0}
  /\ CsEntries \in Nat \ {0} /\ MaxTxAddresses \in Nat \ {0}
  /\ HopModulus \in Nat \ {0, 1} /\ HopLimit \in 0 .. HopModulus
  /\ IsFiniteSet(Neighbours)
  /\ NoContent \notin Contents

HopCounts == 0 .. HopModulus - 1

Packets ==
  [ kind : {"INTEREST", "DATA"}, to : Neighbours, name : Names,
    hop : HopCounts, content : Contents \cup {NoContent} ]

Interest(m, n, h) ==
  [kind |-> "INTEREST", to |-> m, name |-> n, hop |-> h, content |-> NoContent]
Data(m, n, h, c) ==
  [kind |-> "DATA", to |-> m, name |-> n, hop |-> h, content |-> c]

\* The addresses a packet is copied to: at most MAX_TX_ADDRESSES of them.
Addressed(R) ==
  IF Cardinality(R) <= MaxTxAddresses THEN R
  ELSE CHOOSE T \in SUBSET R : Cardinality(T) = MaxTxAddresses

-----------------------------------------------------------------------------
(* The pending interest table.                                             *)

Pending(pit, n) == Contains(pit, n)
Requesters(pit, n) == IF Pending(pit, n) THEN ValueOf(pit, n) ELSE {}

\* Faulty: the capacity of the set is not looked at.
AddUnbounded(R, m) == R \cup {m}

\* A requester beyond the capacity of the set is dropped.
AddRequester(R, m) ==
  IF m \in R \/ Cardinality(R) >= RequestersPerEntry THEN R ELSE R \cup {m}

\* Faulty: the requesters who wait already are forgotten.
SavePendingFresh(pit, n, m) == PutCache(GetCache(pit, n), n, AddRequester({}, m))

\* The requester joins those who wait; nobody hears of it when the table is full.
SavePending(pit, n, m) ==
  PutCache(GetCache(pit, n), n, AddRequester(Requesters(pit, n), m))

\* Faulty: the entry outlives the Data that answers it.
KeepPending(pit, n) == GetCache(pit, n)

TakePending(pit, n) == RemoveCache(GetCache(pit, n), n)

-----------------------------------------------------------------------------
(* The content store.                                                      *)

Stored(cs) == {n \in Names : cs[n] # NoContent}

SaveContent(cs, n, c, memory) ==
  IF memory /\ Cardinality(Stored(cs)) < CsEntries THEN [cs EXCEPT ![n] = c] ELSE cs

-----------------------------------------------------------------------------
(* An Interest for n arrives from m with hop count h.                      *)

\* Faulty: the limit is not tested at all.
HopUnlimited(h) == FALSE

HopExceeded(h) == h + 1 >= HopLimit

\* It waits in the PIT, next hop or not, unless it came too far or the CS answers.
PitAfterInterest(pit, cs, m, n, h) ==
  IF HopExceeded(h) \/ cs[n] # NoContent THEN pit ELSE SavePending(pit, n, m)

InterestOut(cs, m, n, h, hops) ==
  IF HopExceeded(h) THEN {}
  ELSE IF cs[n] # NoContent THEN {Data(m, n, 0, cs[n])}
  ELSE {Interest(x, n, h + 1) : x \in Addressed(hops)}

-----------------------------------------------------------------------------
(* Data c for n arrives with hop count h.  It is dropped unless n is       *)
(* pending; its hop count has no limit, and wraps.                         *)

PitAfterData(pit, n) == IF Pending(pit, n) THEN TakePending(pit, n) ELSE pit

\* Faulty: any Data is kept.
CsAfterAnyData(pit, cs, n, c, memory) == SaveContent(cs, n, c, memory)

CsAfterData(pit, cs, n, c, memory) ==
  IF Pending(pit, n) THEN SaveContent(cs, n, c, memory) ELSE cs

DataOut(pit, n, h, c) ==
  {Data(x, n, (h + 1) % HopModulus, c) : x \in Addressed(Requesters(pit, n))}
=============================================================================
