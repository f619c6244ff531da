--------------------------- MODULE MCOlsrTopology ---------------------------
(***************************************************************************)
(* Instances of OlsrTopology for TLC.                                      *)
(***************************************************************************)
EXTENDS OlsrTopology

CONSTANTS o1, d1, d2

OneOriginator == {o1}
NoAttackers == {}
AllAttackers == {o1}
OneDest == {d1}
TwoDests == {d1, d2}
=============================================================================
