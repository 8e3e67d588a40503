------------------------ MODULE AccountControlProofs ------------------------
(***************************************************************************)
(* Proofs about AccountControl, for every set of callers: type           *)
(* correctness over a local database and over LDAP, and that no update   *)
(* is lost over a local database.                                         *)
(***************************************************************************)
EXTENDS AccountControl, TLAPS

(***************************************************************************)
(* The inductive invariant.  Over a local database a setexpiry between    *)
(* its search and its replace holds the lock, and since no other write   *)
(* can happen while it does, the value it read is still the stored one.  *)
(***************************************************************************)
IInv ==
  /\ TypeOK
  /\ UacMatchesIntent
  /\ \A c \in Clients : pc[c] = "expiry" => lock = c /\ old[c] = uac

(* Over LDAP nobody takes the lock.                                        *)
LockInv == Ldap => lock = None

(* Every step keeps the variables in their types, over either store.      *)
LEMMA TypeOKNext ==
  ASSUME TypeOK, LockInv, [Next]_vars
  PROVE  TypeOK' /\ LockInv'
<1>1. ASSUME NEW c \in Clients, NEW flags \in SUBSET Flags, NEW on \in BOOLEAN,
             NEW strict \in BOOLEAN, ToggleUserAccountFlags(c, flags, on, strict)
      PROVE  TypeOK' /\ LockInv'
  BY <1>1 DEF LockInv, TypeOK, ToggleUserAccountFlags, Updates, Apply, Outcomes
<1>2. ASSUME NEW c \in Clients, ToggleModify(c) PROVE TypeOK' /\ LockInv'
  BY <1>2, ConstAssumption DEF LockInv, TypeOK, ToggleModify, Updates, Apply, Outcomes
<1>3. ASSUME NEW c \in Clients, NEW noExpiry \in BOOLEAN, SetExpiry(c, noExpiry)
      PROVE  TypeOK' /\ LockInv'
  BY <1>3, ConstAssumption DEF LockInv, TypeOK, SetExpiry, Updates, Outcomes, Flags
<1>4. ASSUME NEW c \in Clients, SetExpiryWrite(c) PROVE TypeOK' /\ LockInv'
  BY <1>4, ConstAssumption DEF LockInv, TypeOK, SetExpiryWrite, Updates, Apply, Outcomes
<1>5. CASE UNCHANGED vars
  BY <1>5 DEF LockInv, TypeOK, vars
<1>. QED  BY <1>1, <1>2, <1>3, <1>4, <1>5 DEF Next, DisableAccount, EnableAccount, Flags

(***************************************************************************)
(* Over a local database and over LDAP alike, every state keeps the      *)
(* flags, the callers' phases, updates and reads in their types, and the *)
(* lock is free or held by a caller inside setexpiry, whose commit        *)
(* releases it.                                                           *)
(***************************************************************************)
THEOREM TypeCorrect == Spec => []TypeOK
<1>1. Init => TypeOK /\ LockInv
  BY DEF Init, TypeOK, LockInv, Updates, Outcomes
<1>2. TypeOK /\ LockInv /\ [Next]_vars => TypeOK' /\ LockInv'
  BY TypeOKNext
<1>. QED  BY <1>1, <1>2, PTL DEF Spec

LEMMA IInvInit == Init => IInv
BY DEF Init, IInv, TypeOK, UacMatchesIntent, Updates, Outcomes

(***************************************************************************)
(* Each step keeps IInv: a toggle's modify writes only over the value it  *)
(* read and only while nobody holds the lock; setexpiry's replace writes  *)
(* over the value it read, which the lock kept current.                   *)
(***************************************************************************)
LEMMA IInvNext ==
  ASSUME ~Ldap, IInv, [Next]_vars
  PROVE  IInv'
<1>1. TypeOK'
  BY TypeOKNext DEF IInv, LockInv
<1>2. ASSUME NEW c \in Clients, NEW flags \in SUBSET Flags, NEW on \in BOOLEAN,
             NEW strict \in BOOLEAN, ToggleUserAccountFlags(c, flags, on, strict)
      PROVE  IInv'
  BY <1>1, <1>2 DEF IInv, TypeOK, UacMatchesIntent, ToggleUserAccountFlags
<1>3. ASSUME NEW c \in Clients, ToggleModify(c) PROVE IInv'
  <2>1. lock = None /\ lock' = None
    BY <1>3 DEF ToggleModify
  <2>2. \A d \in Clients : pc'[d] # "expiry"
    BY <1>3, <2>1, ConstAssumption DEF IInv, TypeOK, ToggleModify
  <2>3. UacMatchesIntent'
    BY <1>3 DEF IInv, UacMatchesIntent, ToggleModify
  <2>. QED  BY <1>1, <2>2, <2>3 DEF IInv
<1>4. ASSUME NEW c \in Clients, NEW noExpiry \in BOOLEAN, SetExpiry(c, noExpiry)
      PROVE  IInv'
  <2>1. lock = None /\ lock' = c
    BY <1>4 DEF SetExpiry
  <2>2. \A d \in Clients : pc'[d] = "expiry" => d = c
    BY <1>4, <2>1, ConstAssumption DEF IInv, TypeOK, SetExpiry
  <2>3. old'[c] = uac' /\ pc'[c] = "expiry"
    BY <1>4 DEF IInv, TypeOK, SetExpiry
  <2>4. UacMatchesIntent'
    BY <1>4 DEF IInv, UacMatchesIntent, SetExpiry
  <2>. QED  BY <1>1, <2>1, <2>2, <2>3, <2>4 DEF IInv
<1>5. ASSUME NEW c \in Clients, SetExpiryWrite(c) PROVE IInv'
  <2>1. lock = c /\ old[c] = uac /\ lock' = None
    BY <1>5 DEF IInv, SetExpiryWrite
  <2>2. \A d \in Clients : pc'[d] # "expiry"
    BY <1>5, <2>1, ConstAssumption DEF IInv, TypeOK, SetExpiryWrite
  <2>3. UacMatchesIntent'
    BY <1>5, <2>1 DEF IInv, UacMatchesIntent, SetExpiryWrite
  <2>. QED  BY <1>1, <2>2, <2>3 DEF IInv
<1>6. CASE UNCHANGED vars
  BY <1>6 DEF IInv, TypeOK, UacMatchesIntent, vars
<1>. QED  BY <1>2, <1>3, <1>4, <1>5, <1>6 DEF Next, DisableAccount, EnableAccount, Flags

(***************************************************************************)
(* Over a local database no update of userAccountControl is lost, for     *)
(* any number of callers running disable_account, enable_account,         *)
(* toggle_userAccountFlags and setexpiry concurrently.                    *)
(***************************************************************************)
THEOREM LocalNoLostUpdate ==
  ASSUME ~Ldap
  PROVE  Spec => []UacMatchesIntent
<1>1. Init => IInv
  BY IInvInit
<1>2. IInv /\ [Next]_vars => IInv'
  BY IInvNext
<1>3. IInv => UacMatchesIntent
  BY DEF IInv
<1>. QED  BY <1>1, <1>2, <1>3, PTL DEF Spec

=============================================================================
