------------------------------ MODULE MCOlsrDcfm ------------------------------
(***************************************************************************)
(* An instance of OlsrDcfm for TLC: a ring of six nodes around v, with and *)
(* without a link across it, from a neighbour of v to one two hops away.   *)
(***************************************************************************)
EXTENDS OlsrDcfm

CONSTANTS v, x, z, p, q, c, fake

Greens == {x, z}
Others == {x, z, p, q, c}
Sources == {p, q, x}
Ring == {{v, x}, {x, p}, {p, c}, {c, q}, {q, z}, {z, v}}
Networks == {Ring, Ring \cup {{x, q}}}
DenialsOfX == [n \in Greens |-> IF n = x THEN {{}, {p}} ELSE {{}}]
NoDenials == [n \in Greens |-> {{}}]
ClaimsOfX == [n \in Greens |-> IF n = x THEN {{}, {z, fake}} ELSE {{}}]
=============================================================================
