----------------------------- MODULE MCLpScripts -----------------------------
(* Two scripts, a front end and the validator over one receipt address     *)
(* that is staged up to twice.                                             *)
EXTENDS LpScripts, TLC

CONSTANTS r1, d1, d2

MCReceipts == {r1}
MCMaxGen == 2
MCNoDust == {}
MCDust == {<<r1, 1>>}
MCDrivers == {d1, d2}
MCOneDriver == {d1}
MCAllScripts == {"new", "resume", "close", "pending"}
MCResume == {"resume"}
Symmetry == Permutations(MCDrivers)
=============================================================================
