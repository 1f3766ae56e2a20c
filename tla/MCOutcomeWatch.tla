---------------------------- MODULE MCOutcomeWatch ----------------------------
(* One receipt address, staged several times, so that an action queued for *)
(* one generation can meet the next ones, and one call of either helper.   *)
(* Calls do not interact (they only read), nor do receipts.                *)
EXTENDS OutcomeWatch

CONSTANTS r1, w1

MCReceipts == {r1}
MCWatchers == {w1}
=============================================================================
