--------------------------- MODULE MCNodeStartup ---------------------------
(* A small instance of NodeStartup.                                         *)
EXTENDS NodeStartup

CONSTANTS p, q, r, group, k1, k2, temp

Entry(m, k) == [mac |-> m, key |-> k]

\* No peers; one of which the key is unreadable and then one with two keys; too many.
PeerLists ==
  { <<>>,
    << Entry(q, NoKey), Entry(p, k1), Entry(p, k2) >>,
    << Entry(p, k1), Entry(q, k2), Entry(r, k1) >> }

Fib == << [name |-> NoName, hop |-> p], [name |-> temp, hop |-> q], [name |-> temp, hop |-> p] >>

MCDocuments ==
  [ legacy : BOOLEAN, enabled : BOOLEAN, pmk : {k1, NoKey}, lmk : {k2, NoKey}, peers : PeerLists,
    hmacEnabled : BOOLEAN, hmacKey : {k1, NoKey}, hmacPeers : {<<>>, << Entry(p, k2) >>},
    fib : {Fib} ]

\* The fields that the format of the file does not read are empty.
Readable(d) == d.legacy => ~d.enabled /\ ~d.hmacEnabled /\ d.hmacKey = NoKey /\ d.hmacPeers = <<>>

SmallDocuments == {d \in MCDocuments : Readable(d)}
=============================================================================
