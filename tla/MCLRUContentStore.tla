------------------------- MODULE MCLRUContentStore -------------------------
(* Small instances of LRUContentStore: three names, room for two or three. *)
EXTENDS LRUContentStore, TLC

CONSTANTS temp, humid, light

\* Two of the names share a home slot; the third has a home they do not reach.
HashApart == temp :> 0 @@ humid :> 2 * Capacity @@ light :> 2
=============================================================================
