---------------------------- MODULE MCSecureLink ----------------------------
(* Small instances of SecureLink.                                           *)
EXTENDS SecureLink, TLC

CONSTANTS a, b, c, d, key, other

\* a writes to b and b to c.  c, which restarts, writes to a, and so does d, which has
\* no key.
ChainLinks == {<<a, b>>, <<b, c>>, <<c, a>>, <<d, a>>}

\* c can be heard with a counter, restart, and reach the next one.
ChainSends == (<<a, b>> :> 2) @@ (<<b, c>> :> 1) @@ (<<c, a>> :> 3) @@ (<<d, a>> :> 1)

\* The nodes that verify share the default key.
ChainGlobal == [n \in Nodes |-> IF n \in HmacEnabled THEN key ELSE NoKey]

\* c is configured for a.  b is configured for d, which it never hears, and so has one
\* slot left for a and c.
ChainConfigured ==
  [n \in Nodes |-> CASE n = b -> << [mac |-> d, key |-> other] >>
                    [] n = c -> << [mac |-> a, key |-> key] >>
                    [] OTHER -> <<>>]

\* No action compares payloads.
PayloadSymmetry == Permutations(Payloads)
=============================================================================
