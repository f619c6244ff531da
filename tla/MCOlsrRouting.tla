---------------------------- MODULE MCOlsrRouting ----------------------------
(***************************************************************************)
(* An instance of OlsrRouting for TLC: neighbours b, with two interfaces,  *)
(* and c, d behind either of them and e behind d.                          *)
(***************************************************************************)
EXTENDS OlsrRouting

CONSTANTS s, b, b2, c, d, e

AllAddrs == {s, b, b2, c, d, e}
AllIfaces == {b, b2, c}
MainOf == [a \in AllAddrs |-> IF a = b2 THEN b ELSE a]

Heard(iface, lists) == [iface |-> iface, me |-> "HEARD", willing |-> TRUE, lists |-> lists, denies |-> {}]

AllHellos ==
    {Heard(b, {d}), Heard(c, {b2, d}),
     [Heard(b2, {}) EXCEPT !.willing = FALSE],
     [Heard(c, {}) EXCEPT !.me = "NONE"],
     [Heard(c, {}) EXCEPT !.me = "LOST", !.denies = {d}]}

AllTcs == {[originator |-> d, dests |-> {c, e}]}
OneSuspect == {b}
=============================================================================
