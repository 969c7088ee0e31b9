--------------------------- MODULE MCIcsnNetwork ---------------------------
(* A small instance of IcsnNetwork.                                         *)
EXTENDS IcsnNetwork, TLC

CONSTANTS temp, a, b, r, u

AnyHash == [x \in Names |-> 3]

\* The next hops send Interests round a, b and r.  Node r has the sensor; u and b ask a.
BothWays(L) == L \cup {<<l[2], l[1]>> : l \in L}
CycleLinks == BothWays({<<a, b>>, <<b, r>>, <<r, a>>, <<u, a>>})
CycleHops ==
  [n \in Nodes |-> [x \in Names |-> IF n = a THEN {b} ELSE IF n = b THEN {a, r}
                                    ELSE IF n = r THEN {a} ELSE {}]]
CycleRequests == {<<u, a, temp>>, <<b, a, temp>>}
SensorAtR == {<<r, temp>>}

\* The direct link between r and a may lose what it carries; the answers to the
\* requests come back by way of b.
Shortcut == {<<r, a>>, <<a, r>>}
=============================================================================
