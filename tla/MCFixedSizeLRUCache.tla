------------------------ MODULE MCFixedSizeLRUCache ------------------------
(* Small instances of FixedSizeLRUCache with its history.                  *)
EXTENDS LRUCacheHistory, TLC

CONSTANTS a, b, c, d

\* Three names share the last slot as their home, so that a run of them wraps around;
\* the fourth has a home that such a run does not reach.
HashApart == a :> NumSlots - 1 @@ b :> NumSlots - 1 @@ c :> 2 * NumSlots - 1 @@ d :> NumSlots - 3
=============================================================================
