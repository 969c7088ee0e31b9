------------------------- MODULE FixedSizeLRUCache -------------------------
(***************************************************************************)
(* A FixedSizeLRUCache under every sequence of calls its owner can make.   *)
(***************************************************************************)
EXTENDS LRUCacheOps

VARIABLES
  cache,
  call,    \* the last call and its arguments
  res      \* what it returned

vars == <<cache, call, res>>

Result(ok, v) == [ok |-> ok, value |-> v]

Init ==
  /\ cache = EmptyCache
  /\ call = <<>>
  /\ res = Result(TRUE, NoValue)

Put(k, v) ==
  /\ call' = <<"put", k, v>>
  /\ cache' = PutCache(cache, k, v)
  /\ res' = Result(PutOk(cache, k), NoValue)

Get(k) ==
  /\ call' = <<"get", k>>
  /\ cache' = GetCache(cache, k)
  /\ res' = Result(Contains(cache, k),
                   IF Contains(cache, k) THEN ValueOf(cache, k) ELSE NoValue)

Remove(k) ==
  /\ k \in Removable
  /\ call' = <<"remove", k>>
  /\ cache' = RemoveCache(cache, k)
  /\ res' = Result(Contains(cache, k), NoValue)

Clear ==
  /\ call' = <<"clear">>
  /\ cache' = ClearCache(cache)
  /\ res' = Result(TRUE, NoValue)

Next ==
  \/ \E k \in Keys, v \in Values : Put(k, v)
  \/ \E k \in Keys : Get(k) \/ Remove(k)
  \/ Clear

Spec == Init /\ [][Next]_vars

-----------------------------------------------------------------------------
(* Properties.                                                             *)

\* Every field holds an index, a key or a value of its range; the size counter
\* (size_t) stays between 0 and the build-time capacity.
TypeOK ==
  /\ cache \in CacheType
  /\ res \in [ok : BOOLEAN, value : Values \cup {NoValue}]

\* After any sequence of calls the hash table, the entries and the size counter
\* of FixedSizeLRUCache describe the same set of entries.
IndexInv == IndexOK(cache)

\* After any sequence of calls the links that moveToFront, removeFromList and
\* put write one by one form a consistent doubly linked list.
LinksInv == LinksOK(cache)

\* A walk along next from the head, of n steps.
Walk[n \in Nat] ==
  IF n = 0 THEN cache.head
  ELSE IF Walk[n - 1] = Nil THEN Nil ELSE cache.next[Walk[n - 1]]

\* Walking the list from the head visits every entry in use exactly once and
\* then ends, so printCache terminates and no entry hangs off the list.
ListCoversEntries ==
  /\ {Walk[n] : n \in 0 .. cache.currentSize - 1} = ValidEntries(cache)
  /\ Walk[cache.currentSize] = Nil

\* No sequence of calls puts a stored entry out of reach of findHashSlot.
NoLostEntry == NothingLost(cache)

\* No sequence of calls stores a key twice; it follows from IndexInv and NoLostEntry.
UniqueKeys == KeysUnique(cache)

-----------------------------------------------------------------------------
(* Refinement: when removal cannot break a probe, the cache is a bounded   *)
(* map of the keys its entries in use hold.                                *)

Contents == ContentsOf(cache)

Map == INSTANCE BoundedMap WITH Capacity <- MaxSize, store <- Contents

\* Every call has the effect and the result the bounded map gives it.
ImplementsBoundedMap == Map!Spec
=============================================================================
