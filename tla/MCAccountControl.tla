------------------------- MODULE MCAccountControl -------------------------
(* Two callers changing the flags of one account.                         *)
EXTENDS AccountControl, TLC

CONSTANTS c1, c2

MCClients == {c1, c2}
MCSymmetry == Permutations(MCClients)
=============================================================================
