---------------------------- MODULE MCForwarder ----------------------------
(* Small instances of Forwarder with its history.                          *)
EXTENDS ForwarderHistory, TLC

CONSTANTS temp, humid, light, n1, n2

\* All names share a home slot of the PIT.
HashCollide == [x \in Names |-> IF x = temp THEN 1 ELSE 1 + 2 * PitEntries]

HashDistinct == [x \in Names |-> IF x = temp THEN 0 ELSE IF x = humid THEN 1 ELSE 2]

\* One name has two next hops, each a possible requester; the others have none.
MCNextHops == [x \in Names |-> IF x = temp THEN {n1, n2} ELSE {}]
=============================================================================
