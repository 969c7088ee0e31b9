--------------------------- MODULE LRUCacheHistory --------------------------
(***************************************************************************)
(* FixedSizeLRUCache with a history of the order in which its keys were    *)
(* last used.                                                              *)
(***************************************************************************)
EXTENDS FixedSizeLRUCache

VARIABLE newer   \* <<k, l>>: both are stored, and k was put or got after l

UsedVars == <<vars, newer>>

Without(k) == {p \in newer : p[1] # k /\ p[2] # k}

\* The order once k has been used.
Using(k) == Without(k) \cup {<<k, l>> : l \in {x \in Keys \ {k} : Contains(cache, x)}}

InitUsed == Init /\ newer = {}

NextUsed ==
  \/ \E k \in Keys, v \in Values :
       Put(k, v) /\ newer' = IF PutOk(cache, k) THEN Using(k) ELSE newer
  \/ \E k \in Keys :
       Get(k) /\ newer' = IF Contains(cache, k) THEN Using(k) ELSE newer
  \/ \E k \in Keys :
       Remove(k) /\ newer' = IF Contains(cache, k) THEN Without(k) ELSE newer
  \/ Clear /\ newer' = {}

SpecUsed == InitUsed /\ [][NextUsed]_UsedVars

-----------------------------------------------------------------------------
(* Properties.                                                             *)

\* The list is in the order of last use: put, get and the update branch of put each
\* move or insert at the head, and remove keeps the order of the others.
RecencyOrder ==
  \A i \in ValidEntries(cache) :
    cache.next[i] # Nil => <<cache.key[i], cache.key[cache.next[i]]>> \in newer
=============================================================================
