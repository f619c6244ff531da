------------------------------ MODULE MCOlsrMpr ------------------------------
(***************************************************************************)
(* Instances of OlsrMpr for TLC.                                           *)
(***************************************************************************)
EXTENDS OlsrMpr

CONSTANTS me, a, b, c, x, y

Abc == {a, b, c}
AXY == {a, x, y}
\* One value for each way the code treats a willingness.
Willing == {0, 3, 7}
=============================================================================
