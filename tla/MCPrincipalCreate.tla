------------------------- MODULE MCPrincipalCreate -------------------------
(***************************************************************************)
(* Two callers creating and deleting accounts at one DN.                  *)
(***************************************************************************)
EXTENDS PrincipalCreate, TLC

CONSTANTS c1, c2, n1

MCClients == {c1, c2}
MCNames == {n1}
MCSymmetry == Permutations(MCClients)
=============================================================================
