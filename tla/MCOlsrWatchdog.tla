--------------------------- MODULE MCOlsrWatchdog ---------------------------
(***************************************************************************)
(* Instances of OlsrWatchdog for TLC.                                      *)
(***************************************************************************)
EXTENDS OlsrWatchdog

CONSTANTS hop, far

OneHop == {hop}
OneDest == {far}
=============================================================================
