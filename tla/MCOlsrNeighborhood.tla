------------------------- MODULE MCOlsrNeighborhood -------------------------
(***************************************************************************)
(* Instances of OlsrNeighborhood for TLC.                                  *)
(***************************************************************************)
EXTENDS OlsrNeighborhood, TLC

CONSTANTS if1, a, x

OneIface == {if1}
OneNeighbor == {a}
OnlyA == if1 :> a
OneTwoHop == {x}
AlwaysDefault == {3}
=============================================================================
