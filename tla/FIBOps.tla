------------------------------- MODULE FIBOps -------------------------------
(***************************************************************************)
(* The FIB (LRUForwardingInformationBase): a bounded map from name         *)
(* prefixes to entries, and the two-stage longest prefix match over it.    *)
(* A name is the sequence of its components, as many as it has slashes.    *)
(* An entry is real, with next hops, or virtual: a mark at MaxVirtualDepth *)
(* that routes of greater depth exist below it, and how deep they are.     *)
(*                                                                         *)
(* The map is the one FixedSizeLRUCache implements; the order of use,      *)
(* which never evicts, is left out.                                        *)
(***************************************************************************)
EXTENDS Integers, Sequences, FiniteSets, FiniteSetsExt

CONSTANTS
  ContentNames,      \* the names in use, and all their prefixes
  Hops,              \* the addresses of the next hops
  FibEntries,        \* FIB_ENTRIES
  HopsPerEntry,      \* FIB_NEXT_HOPS_PER_ENTRY
  MaxVirtualDepth    \* systemConfig.maxVirtualDepth

\* extractPrefix: the first d components, or the name itself when it has no more.
Prefix(n, d) == SubSeq(n, 1, Min({d, Len(n)}))
Depth(n) == Len(n)

ASSUME FIBAssumption ==
  /\ \A n \in ContentNames :
       /\ n \in Seq({n[i] : i \in DOMAIN n}) /\ n # <<>>
       /\ \A d \in 1 .. Len(n) : SubSeq(n, 1, d) \in ContentNames
  /\ FibEntries \in Nat \ {0} /\ HopsPerEntry \in Nat \ {0}
  /\ MaxVirtualDepth \in Nat \ {0}

NoEntry == [virtual |-> FALSE, maximumDepth |-> 0, nodeIds |-> {}]

EntryType ==
  [ virtual : BOOLEAN, maximumDepth : Nat,
    nodeIds : {S \in SUBSET Hops : Cardinality(S) <= HopsPerEntry} ]

EmptyFib == [n \in ContentNames |-> NoEntry]

Has(fib, n) == fib[n] # NoEntry

PutEntry(fib, n, e) ==
  IF Has(fib, n) \/ Cardinality({m \in ContentNames : Has(fib, m)}) < FibEntries
  THEN [fib EXCEPT ![n] = e] ELSE fib

\* FixedNodeIdSet::insert of a next hop.
InsertHop(S, h, capacity) == IF Cardinality(S) >= capacity THEN S ELSE S \cup {h}

\* save, with one next hop.
SaveReal(fib, n, h) ==
  PutEntry(fib, n, IF Has(fib, n)
                   THEN [fib[n] EXCEPT !.virtual = FALSE,
                                       !.nodeIds = InsertHop(@, h, HopsPerEntry)]
                   ELSE [virtual |-> FALSE, maximumDepth |-> Depth(n), nodeIds |-> {h}])

\* Faulty: the depth of the last route saved, not of the deepest.
SaveVirtualLast(fib, n, depth) ==
  PutEntry(fib, n, IF Has(fib, n) THEN [fib[n] EXCEPT !.maximumDepth = depth]
                   ELSE [virtual |-> TRUE, maximumDepth |-> depth, nodeIds |-> {}])

\* saveVirtualEntry: a real entry stays real and remembers the greater depth.
SaveVirtual(fib, n, depth) ==
  PutEntry(fib, n, IF Has(fib, n)
                   THEN [fib[n] EXCEPT !.maximumDepth = IF @ < depth THEN depth ELSE @]
                   ELSE [virtual |-> TRUE, maximumDepth |-> depth, nodeIds |-> {}])

RemoveEntry(fib, n) == [fib EXCEPT ![n] = NoEntry]

-----------------------------------------------------------------------------
(* fibLpmLookup.  Each stage probes the prefixes of n from a first length  *)
(* down to 1 and ends at the longest prefix that stops it.                 *)

At(fib, n, p) == fib[Prefix(n, p)]
RealAt(fib, n, p) == Has(fib, Prefix(n, p)) /\ ~At(fib, n, p).virtual

\* Deeper routes may match: stage 2 has to look for them.
OpensStage2(fib, n, p) ==
  /\ Has(fib, Prefix(n, p))
  /\ At(fib, n, p).maximumDepth > MaxVirtualDepth
  /\ Depth(n) > MaxVirtualDepth

Stage1(fib, n) ==
  {p \in 1 .. Min({Depth(n), MaxVirtualDepth}) : OpensStage2(fib, n, p) \/ RealAt(fib, n, p)}

\* The entry that opened stage 2 stands for the prefix of length MaxVirtualDepth.
Stage2(fib, n, first) ==
  {p \in 1 .. Min({Depth(n), first.maximumDepth}) :
     RealAt(fib, n, p) \/ (p = MaxVirtualDepth /\ ~first.virtual)}

\* What the second stage answers, and what a look-up answers; NoEntry for a miss.
Answer2(fib, n, first) ==
  LET stops == Stage2(fib, n, first)
  IN  IF stops = {} THEN NoEntry
      ELSE IF Max(stops) = MaxVirtualDepth /\ ~first.virtual THEN first
      ELSE At(fib, n, Max(stops))

FibLpmLookup(fib, n) ==
  LET stops == Stage1(fib, n)
      first == At(fib, n, Max(stops))
  IN  IF stops = {} THEN NoEntry
      ELSE IF OpensStage2(fib, n, Max(stops)) THEN Answer2(fib, n, first) ELSE first

\* get: the entry found for a prefix is also stored under the whole name.
GetEntry(fib, n) ==
  LET e == FibLpmLookup(fib, n) IN IF e = NoEntry THEN fib ELSE PutEntry(fib, n, e)
=============================================================================
