---------------------------- MODULE MCNodeTasks ----------------------------
(* Small instances of NodeTasks.                                            *)
EXTENDS NodeTasks

CONSTANTS a, b, c, d, key

\* a and b have keys of their own; the others compete for the slot that is left.
MCConfigured == << [mac |-> a, key |-> key], [mac |-> b, key |-> key] >>

\* Everything is asked of b.
MCNextHops == [n \in Names |-> {b}]
=============================================================================
