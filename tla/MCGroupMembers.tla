--------------------------- MODULE MCGroupMembers ---------------------------
(***************************************************************************)
(* A small directory for model checking add_remove_group_members: a user *)
(* p1 and a contact p2 (no objectSid) whose name equals the account name  *)
(* of p1, so that the short name "a" is ambiguous, and a user p3 named    *)
(* "b"; one group; two concurrent callers.                                 *)
(***************************************************************************)
EXTENDS GroupMembers, TLC

CONSTANTS p1, p2, p3, g1, c1, c2

MCPrincipals == {p1, p2, p3}
MCHasSid == {p1, p3}
MCNameOf == (p1 :> "a") @@ (p2 :> "a") @@ (p3 :> "b")
MCGroups == {g1}
MCClients == {c1, c2}
MCSymmetry == Permutations(MCClients)
=============================================================================
