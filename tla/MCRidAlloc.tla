---------------------------- MODULE MCRidAlloc ----------------------------
(* RidAlloc on a small instance: two servers, 4-bit RIDs, pools of three. *)
EXTENDS RidAlloc, TLC

CONSTANTS s1, s2

MCServers == {s1, s2}

(* Servers are model values compared only for equality.                    *)
MCSymmetry == Permutations(MCServers)
=============================================================================
