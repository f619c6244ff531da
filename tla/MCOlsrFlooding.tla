--------------------------- MODULE MCOlsrFlooding ---------------------------
(***************************************************************************)
(* An instance of OlsrFlooding for TLC: two ways from a to c, one of them  *)
(* over a node with two interfaces, and e behind c.                        *)
(***************************************************************************)
EXTENDS OlsrFlooding

CONSTANTS a, b, c, d, e, a1, b1, b2, c1, d1, e1, tc, hello

AllNodes == {a, b, c, d, e}
AllIfaces == {a1, b1, b2, c1, d1, e1}
OwnerOf == (a1 :> a) @@ (b1 :> b) @@ (b2 :> b) @@ (c1 :> c) @@ (d1 :> d) @@ (e1 :> e)

InRange == {<<a1, b1>>, <<a1, b2>>, <<a1, d1>>, <<b1, c1>>, <<d1, c1>>, <<c1, e1>>}
BothWays == InRange \cup {<<l[2], l[1]>> : l \in InRange}

AllMessages == {tc, hello}
OriginatorOf == (tc :> a) @@ (hello :> c)
HelloMessages == {hello}

\* b relays for a, d for c, and c for the others.
MprSelectors == {<<b, a>>, <<d, c>>, <<c, b>>, <<c, d>>, <<c, e>>}
=============================================================================
