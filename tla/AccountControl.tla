--------------------------- MODULE AccountControl ---------------------------
(***************************************************************************)
(* The userAccountControl bits of one account under concurrent callers of *)
(* SamDB (src/python/samba/samdb.py):                                     *)
(*   disable_account, enable_account and toggle_userAccountFlags search   *)
(*     the account, compute the new value and send "delete: the value     *)
(*     read / add: the new value", with no transaction of their own;     *)
(*   setexpiry opens a transaction, searches the account, and sends       *)
(*     "replace: userAccountControl" with the value read, the             *)
(*     DONT_EXPIRE bit set or cleared.                                     *)
(* The delete of the value read fails when the stored value has changed   *)
(* since (userAccountControl is single-valued), so the toggles act as a  *)
(* compare-and-swap; the replace does not.  Over a local database         *)
(* setexpiry's transaction holds the lock from its search to its commit  *)
(* and a lone modify waits for it; over LDAP there is no lock.            *)
(***************************************************************************)

CONSTANTS
  Clients,   \* callers, each running one operation at a time
  Ldap,      \* TRUE over LDAP, FALSE for a local database
  None       \* no client

ASSUME ConstAssumption ==
  /\ Ldap \in BOOLEAN
  /\ None \notin Clients

(* The bits the operations touch: UF_ACCOUNTDISABLE, UF_PASSWD_NOTREQD   *)
(* and UF_DONT_EXPIRE_PASSWD (0x10000).                                   *)
Flags == {"disabled", "pwnotreqd", "noexpire"}

(* An update: set (on) or clear the bits flags.                           *)
Updates == [flags : SUBSET Flags, on : BOOLEAN]

(* old_uac | flags when on, old_uac & ~flags otherwise.                   *)
Apply(op, u) == IF op.on THEN u \cup op.flags ELSE u \ op.flags

Outcomes == {"none", "ok", "strict", "conflict"}

VARIABLES
  uac,       \* the stored userAccountControl
  lock,      \* holder of the local database's transaction lock, or None
  pc,        \* where each client is in its operation
  op,        \* each client's update
  old,       \* the userAccountControl its search read
  outcome,   \* how its last operation ended
  intended   \* history: the value the operations, applied in turn, give

vars == <<uac, lock, pc, op, old, outcome, intended>>

TypeOK ==
  /\ uac \in SUBSET Flags
  /\ pc \in [Clients -> {"idle", "toggle", "expiry"}]
  /\ op \in [Clients -> Updates]
  /\ old \in [Clients -> SUBSET Flags]
  /\ outcome \in [Clients -> Outcomes]
  /\ intended \in SUBSET Flags
  /\ lock \in {c \in Clients : pc[c] = "expiry"} \cup {None}

Init ==
  /\ uac \in SUBSET Flags
  /\ lock = None
  /\ pc = [c \in Clients |-> "idle"]
  /\ op = [c \in Clients |-> [flags |-> {}, on |-> FALSE]]
  /\ old = [c \in Clients |-> {}]
  /\ outcome = [c \in Clients |-> "none"]
  /\ intended = uac

(***************************************************************************)
(* toggle_userAccountFlags(flags, on, strict): the search, then strict    *)
(* mode's errors (a bit to set already set, or none of the bits to clear *)
(* set), the early return when nothing changes, else the modify to send.  *)
(***************************************************************************)
ToggleUserAccountFlags(c, flags, on, strict) ==
  LET upd == [flags |-> flags, on |-> on]
  IN /\ pc[c] = "idle"
     /\ op' = [op EXCEPT ![c] = upd]
     /\ old' = [old EXCEPT ![c] = uac]
     /\ IF strict /\ (IF on THEN flags \cap uac # {} ELSE flags \cap uac = {})
          THEN outcome' = [outcome EXCEPT ![c] = "strict"] /\ UNCHANGED pc
        ELSE IF Apply(upd, uac) = uac
          THEN outcome' = [outcome EXCEPT ![c] = "ok"] /\ UNCHANGED pc
        ELSE pc' = [pc EXCEPT ![c] = "toggle"] /\ UNCHANGED outcome
     /\ UNCHANGED <<uac, lock, intended>>

(* disable_account: set UF_ACCOUNTDISABLE.                                  *)
DisableAccount(c) == ToggleUserAccountFlags(c, {"disabled"}, TRUE, FALSE)

(* enable_account: clear UF_ACCOUNTDISABLE and UF_PASSWD_NOTREQD.           *)
EnableAccount(c) == ToggleUserAccountFlags(c, {"disabled", "pwnotreqd"}, FALSE, FALSE)

(* The modify sent as a plain replace, for mutation testing.              *)
ToggleModifyReplace(c) ==
  /\ pc[c] = "toggle"
  /\ ~Ldap => lock = None
  /\ uac' = Apply(op[c], old[c])
  /\ intended' = Apply(op[c], intended)
  /\ outcome' = [outcome EXCEPT ![c] = "ok"]
  /\ pc' = [pc EXCEPT ![c] = "idle"]
  /\ UNCHANGED <<lock, op, old>>

(***************************************************************************)
(* The "delete: old_uac / add: new_uac" modify.  A local database runs it *)
(* in a transaction of its own, after the lock holder's commit.  The      *)
(* delete fails when the stored value is no longer the one read.          *)
(***************************************************************************)
ToggleModify(c) ==
  /\ pc[c] = "toggle"
  /\ ~Ldap => lock = None
  /\ IF uac = old[c]
       THEN /\ uac' = Apply(op[c], old[c])
            /\ intended' = Apply(op[c], intended)
            /\ outcome' = [outcome EXCEPT ![c] = "ok"]
       ELSE /\ outcome' = [outcome EXCEPT ![c] = "conflict"]
            /\ UNCHANGED <<uac, intended>>
  /\ pc' = [pc EXCEPT ![c] = "idle"]
  /\ UNCHANGED <<lock, op, old>>

(* setexpiry(no_expiry_req): transaction_start and the search.              *)
SetExpiry(c, noExpiry) ==
  /\ pc[c] = "idle"
  /\ ~Ldap => lock = None
  /\ lock' = IF Ldap THEN lock ELSE c
  /\ op' = [op EXCEPT ![c] = [flags |-> {"noexpire"}, on |-> noExpiry]]
  /\ old' = [old EXCEPT ![c] = uac]
  /\ pc' = [pc EXCEPT ![c] = "expiry"]
  /\ UNCHANGED <<uac, outcome, intended>>

(* setexpiry without transaction_commit, for mutation testing.            *)
SetExpiryWriteNoCommit(c) ==
  /\ pc[c] = "expiry"
  /\ uac' = Apply(op[c], old[c])
  /\ intended' = Apply(op[c], intended)
  /\ outcome' = [outcome EXCEPT ![c] = "ok"]
  /\ pc' = [pc EXCEPT ![c] = "idle"]
  /\ UNCHANGED <<lock, op, old>>

(* setexpiry's "replace: userAccountControl" with the value read, then    *)
(* transaction_commit.                                                     *)
SetExpiryWrite(c) ==
  /\ pc[c] = "expiry"
  /\ uac' = Apply(op[c], old[c])
  /\ intended' = Apply(op[c], intended)
  /\ outcome' = [outcome EXCEPT ![c] = "ok"]
  /\ pc' = [pc EXCEPT ![c] = "idle"]
  /\ lock' = IF Ldap THEN lock ELSE None
  /\ UNCHANGED <<op, old>>

Next ==
  \E c \in Clients :
     \/ DisableAccount(c) \/ EnableAccount(c)
     \/ \E on \in BOOLEAN : ToggleUserAccountFlags(c, {"disabled"}, on, TRUE)
     \/ ToggleModify(c)
     \/ \E noExpiry \in BOOLEAN : SetExpiry(c, noExpiry)
     \/ SetExpiryWrite(c)

Spec == Init /\ [][Next]_vars
-----------------------------------------------------------------------------
(***************************************************************************)
(* No update is lost: the stored userAccountControl is what the           *)
(* successful disable, enable, toggle and setexpiry calls give when       *)
(* applied one after the other in the order they wrote.  A write of a     *)
(* value computed from a stale read would undo the other caller's bit    *)
(* (an account disabled meanwhile would come back enabled).               *)
(***************************************************************************)
UacMatchesIntent == uac = intended
=============================================================================
