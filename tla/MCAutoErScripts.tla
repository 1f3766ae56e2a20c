---------------------------- MODULE MCAutoErScripts ----------------------------
(* One address, of either kind, that is staged up to twice. *)
EXTENDS AutoErScripts

CONSTANTS r1, d1, d2

MCReceipts == {r1}
MCDrivers == {d1, d2}
MCOneDriver == {d1}
MCNoDust == {}
MCDust == {<<r1, 1>>}
=============================================================================
