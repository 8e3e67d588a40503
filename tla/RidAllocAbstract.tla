-------------------------- MODULE RidAllocAbstract --------------------------
(***************************************************************************)
(* What the RID allocation of a domain promises, without pools or RID     *)
(* Sets: the RID master grants the RIDs below a rising cursor, never past *)
(* its ceiling, and each allocation hands out one granted RID that was    *)
(* never handed out before.  RidAlloc implements this specification       *)
(* (RidAlloc!AbstractAllocator, proved in RidAllocProofs).                *)
(***************************************************************************)
EXTENDS Naturals

CONSTANTS
  RidSpace,    \* every value a RID can take
  RidStart,    \* first RID the RID master grants
  RidCeiling   \* last RID the RID master may grant

VARIABLES
  issued,      \* how many times each RID has been handed out
  granted      \* first RID the RID master has not granted yet

absVars == <<issued, granted>>

Init ==
  /\ issued = [r \in RidSpace |-> 0]
  /\ granted = RidStart

(* The RID master grants a further block of RIDs, up to its ceiling.      *)
Grant ==
  /\ granted' \in (granted + 1)..(RidCeiling + 1)
  /\ UNCHANGED issued

(* Some server hands out a granted RID nobody handed out before.           *)
Allocate ==
  \E r \in RidStart..(granted - 1) :
     /\ issued[r] = 0
     /\ issued' = [issued EXCEPT ![r] = 1]
     /\ UNCHANGED granted

Next == Grant \/ Allocate

Spec == Init /\ [][Next]_absVars
=============================================================================
