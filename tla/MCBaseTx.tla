------------------------------- MODULE MCBaseTx -------------------------------
(* Three calls of one owner; blockhashes are valid for one or two blocks.  *)
EXTENDS BaseTx, TLC

CONSTANTS a1, c1, c2, c3

MCAccounts == {a1}
MCTwoCalls == {c1, c2}
MCCalls == {c1, c2, c3}
Symmetry == Permutations(MCCalls)
=============================================================================
