---------------------------- MODULE RoutingTables ----------------------------
(***************************************************************************)
(* The RIB (PrefixTreeRIB) holds the routes of the node, and maintains the *)
(* FIB that Interests are forwarded by.  Routes are added while the        *)
(* configuration is applied, before the radio callback is registered;      *)
(* then the names of the Interests that miss the content store are looked  *)
(* up, each first by find and then by get.                                 *)
(***************************************************************************)
EXTENDS FIBOps

CONSTANTS
  RibEntries,     \* RIB_ENTRIES
  HopsPerNode,    \* RIB_NEXT_HOPS_PER_NODE
  Routes,         \* the names a configuration may have routes for
  Asked,          \* the names that Interests may carry
  Removable       \* the routes removeRoute may be called for; the program calls it for none

ASSUME RoutingAssumption ==
  /\ RibEntries \in Nat \ {0} /\ HopsPerNode \in Nat \ {0}
  /\ Routes \subseteq ContentNames /\ Asked \subseteq ContentNames /\ Removable \subseteq ContentNames

VARIABLES
  tree,      \* the RIB: the next hops of each route, {} where there is no route
  fib,
  ready,     \* the configuration has been applied
  nextHops   \* what the last look-up answered

RoutingVars == <<tree, fib, ready, nextHops>>

RoutingInit ==
  /\ tree = [n \in ContentNames |-> {}]
  /\ fib = EmptyFib
  /\ ready = FALSE
  /\ nextHops = {}

InTree(n) == tree[n] # {}

\* Faulty: one route too many.
RibOverfull == Cardinality({m \in ContentNames : InTree(m)}) > RibEntries

RibFull == Cardinality({m \in ContentNames : InTree(m)}) >= RibEntries

\* A route deeper than MaxVirtualDepth also marks its prefix of that depth.
FibWithRoute(n, h) ==
  IF Depth(n) <= MaxVirtualDepth THEN SaveReal(fib, n, h)
  ELSE SaveReal(SaveVirtual(fib, Prefix(n, MaxVirtualDepth), Depth(n)), n, h)

\* The FIB follows even when the RIB node has no room for the hop.
AddRoute(n, h) ==
  /\ ~ready
  /\ InTree(n) \/ ~RibFull
  /\ tree' = [tree EXCEPT ![n] = InsertHop(tree[n], h, HopsPerNode)]
  /\ fib' = FibWithRoute(n, h)
  /\ UNCHANGED <<ready, nextHops>>

\* A full RIB refuses a new route, and the FIB is not touched.
AddRouteFull(n) ==
  /\ ~ready
  /\ ~InTree(n) /\ RibFull
  /\ UNCHANGED RoutingVars

Start == ~ready /\ ready' = TRUE /\ UNCHANGED <<tree, fib, nextHops>>

\* find and get of handleInterestReceive.
LookUp(n) ==
  /\ ready
  /\ nextHops' = FibLpmLookup(fib, n).nodeIds
  /\ fib' = GetEntry(fib, n)
  /\ UNCHANGED <<tree, ready>>

\* Another route left in the tree shares the marked prefix of n.
PrefixStillNeeded(n) ==
  \E m \in ContentNames \ {n} :
    /\ InTree(m) /\ Depth(m) > MaxVirtualDepth
    /\ Prefix(m, MaxVirtualDepth) = Prefix(n, MaxVirtualDepth)

FibWithoutRoute(n) ==
  IF Depth(n) > MaxVirtualDepth /\ ~PrefixStillNeeded(n)
  THEN RemoveEntry(RemoveEntry(fib, n), Prefix(n, MaxVirtualDepth)) ELSE RemoveEntry(fib, n)

RemoveRoute(n) ==
  /\ n \in Removable
  /\ tree' = [tree EXCEPT ![n] = {}]
  /\ fib' = FibWithoutRoute(n)
  /\ UNCHANGED <<ready, nextHops>>

RoutingNext ==
  \/ \E n \in Routes, h \in Hops : AddRoute(n, h)
  \/ \E n \in Routes : AddRouteFull(n)
  \/ Start
  \/ \E n \in Asked : LookUp(n)
  \/ \E n \in ContentNames : RemoveRoute(n)

RoutingSpec == RoutingInit /\ [][RoutingNext]_RoutingVars

-----------------------------------------------------------------------------
(* Properties.                                                             *)

\* Entries are well formed, and no table or entry holds more than it has room for.
RoutingTypeOK ==
  /\ Cardinality({n \in ContentNames : InTree(n)}) <= RibEntries
  /\ Cardinality({n \in ContentNames : Has(fib, n)}) <= FibEntries
  /\ tree \in [ContentNames -> SUBSET Hops]
  /\ fib \in [ContentNames -> EntryType]
  /\ ready \in BOOLEAN
  /\ nextHops \in SUBSET Hops

\* The longest prefix match by its definition: the next hops of the longest route
\* that is a prefix of n.
LongestPrefixMatch(n) ==
  LET matches == {d \in 1 .. Depth(n) : InTree(Prefix(n, d))}
  IN  IF matches = {} THEN {} ELSE tree[Prefix(n, Max(matches))]

\* The two-stage look-up answers the longest prefix match for every name, whatever
\* routes were added in whatever order, and however many names have been looked up.
LpmExact == \A n \in ContentNames : FibLpmLookup(fib, n).nodeIds = LongestPrefixMatch(n)

\* A look-up only updates the order of access in the FIB: it changes the answer for
\* no name.
LookUpKeepsAnswers ==
  [][\A m \in Asked : LookUp(m) =>
       \A n \in ContentNames : FibLpmLookup(fib', n).nodeIds = FibLpmLookup(fib, n).nodeIds]_RoutingVars
=============================================================================
