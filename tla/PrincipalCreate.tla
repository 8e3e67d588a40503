--------------------------- MODULE PrincipalCreate ---------------------------
(***************************************************************************)
(* Creating an account with SamDB.newuser / SamDB.newcomputer             *)
(* (src/python/samba/samdb.py), next to SamDB.deleteuser run by other     *)
(* callers.                                                                *)
(*                                                                         *)
(* newuser opens a transaction, adds the account (created disabled), and  *)
(* inside "with _CleanUpOnError" optionally sends the RFC2307 modify and  *)
(* calls setpassword, which opens a nested transaction, sets unicodePwd   *)
(* and clears the disabled bit through enable_account.  If anything in    *)
(* the with block raises, __exit__ deletes the account by DN; then the    *)
(* bare except cancels the outer transaction and re-raises.                *)
(*                                                                         *)
(* The store's transactions (ldb, outside src/) nest by a counter: only   *)
(* the outermost start, commit and cancel act.  Over a local database the *)
(* outermost start takes the exclusive lock and writes go to a working    *)
(* copy that commit publishes and cancel drops; over LDAP there are no    *)
(* transactions and every write is published at once.                     *)
(***************************************************************************)
EXTENDS Naturals

CONSTANTS
  Clients,   \* callers, each running one operation at a time
  Names,     \* account DNs callers create and delete
  Ldap,      \* TRUE over LDAP, FALSE for a local database
  None       \* no client

ASSUME ConstAssumption ==
  /\ Ldap \in BOOLEAN
  /\ None \notin Clients
  /\ Names # {}          \* the initial call record names some DN

(* An entry of the directory: absent, or an account (disabled or enabled) *)
(* or a group, with the client that made it.                               *)
Absent == [st |-> "absent", by |-> None]
Entries == {Absent} \cup [st : {"disabled", "enabled", "group"}, by : Clients]

IsAccount(e) == e.st \in {"disabled", "enabled"}

Errors == {"none", "exists", "unix", "notfound", "pwpolicy", "delete", "crash"}
Phases == {"idle", "open", "unix", "pw", "pwmod", "enable", "pwfail",
           "cleanup", "cancel", "commit"}

VARIABLES
  store,     \* the published directory
  work,      \* the working copy of the local transaction in progress
  depth,     \* each client's transaction nesting counter
  lock,      \* holder of the local database's transaction lock, or None
  pc,        \* where each client is in its operation
  call,      \* each client's current call: DN, RFC2307 modify, set password
  created,   \* the client's add succeeded in its current call
  reported   \* the exception its current call propagates

vars == <<store, work, depth, lock, pc, call, created, reported>>

TypeOK ==
  /\ store \in [Names -> Entries]
  /\ work \in [Names -> Entries]
  /\ depth \in [Clients -> 0..2]
  /\ pc \in [Clients -> Phases]
  /\ call \in [Clients -> [n : Names, unix : BOOLEAN, pw : BOOLEAN, en : BOOLEAN]]
  /\ created \in [Clients -> BOOLEAN]
  /\ reported \in [Clients -> Errors]
  /\ \A c \in Clients : pc[c] = "idle" => depth[c] = 0
  /\ lock \in {c \in Clients : pc[c] # "idle"} \cup {None}

(* The directory as client c's writes see it.                              *)
View == IF Ldap THEN store ELSE work

(* Client c writes entry e at DN n.                                        *)
Write(n, e) ==
  IF Ldap THEN store' = [store EXCEPT ![n] = e] /\ UNCHANGED work
          ELSE work' = [work EXCEPT ![n] = e] /\ UNCHANGED store

(* An exception x raised in c's call; a later one replaces it as the one *)
(* the call propagates.                                                     *)
Raise(c, x) == reported' = [reported EXCEPT ![c] = x]
-----------------------------------------------------------------------------
(***************************************************************************)
(* The store's transaction calls.  transaction_start of the outermost     *)
(* transaction over a local database waits for the lock and snapshots    *)
(* the directory; nested calls only move the counter.                      *)
(***************************************************************************)
TxnStart(c) ==
  /\ depth' = [depth EXCEPT ![c] = @ + 1]
  /\ IF ~Ldap /\ depth[c] = 0
       THEN lock = None /\ lock' = c /\ work' = store
       ELSE UNCHANGED <<lock, work>>

(* The outermost transaction_commit publishes the working copy; the       *)
(* outermost transaction_cancel drops it.  Both release the lock.          *)
TxnCommit(c) ==
  /\ depth' = [depth EXCEPT ![c] = @ - 1]
  /\ IF ~Ldap /\ depth[c] = 1
       THEN lock' = None /\ store' = work
       ELSE UNCHANGED <<lock, store>>

TxnCancel(c) ==
  /\ depth' = [depth EXCEPT ![c] = @ - 1]
  /\ IF ~Ldap /\ depth[c] = 1
       THEN lock' = None /\ work' = store
       ELSE UNCHANGED <<lock, work>>

-----------------------------------------------------------------------------
Init ==
  /\ store = [n \in Names |-> Absent]
  /\ work = store
  /\ depth = [c \in Clients |-> 0]
  /\ lock = None
  /\ pc = [c \in Clients |-> "idle"]
  /\ call = [c \in Clients |-> [n |-> CHOOSE n \in Names : TRUE, unix |-> FALSE, pw |-> FALSE, en |-> FALSE]]
  /\ created = [c \in Clients |-> FALSE]
  /\ reported = [c \in Clients |-> "none"]

(* A call's first step, the outer transaction_start: the account at n is *)
(* to be added enabled or not (en), the RFC2307 modify and setpassword   *)
(* run when unix and pw hold.                                              *)
StartCall(c, n, unix, pw, en) ==
  /\ pc[c] = "idle"
  /\ TxnStart(c)
  /\ pc' = [pc EXCEPT ![c] = "open"]
  /\ call' = [call EXCEPT ![c] = [n |-> n, unix |-> unix, pw |-> pw, en |-> en]]
  /\ created' = [created EXCEPT ![c] = FALSE]
  /\ reported' = [reported EXCEPT ![c] = "none"]
  /\ UNCHANGED store

(* newuser(n): the account is added with ACCOUNTDISABLE; the RFC2307     *)
(* attributes and setpassword are optional.                                *)
NewUser(c, n, unix, pw) == StartCall(c, n, unix, pw, FALSE)

(* newcomputer(n, prepare_oldjoin=pw) has no RFC2307 modify; with          *)
(* prepare_oldjoin the account is added without ACCOUNTDISABLE and its     *)
(* password set, otherwise it is added disabled and left so.               *)
NewComputer(c, n, pw) == StartCall(c, n, FALSE, pw, pw)

(* The step after the add or the RFC2307 modify.                           *)
AfterAdd(c, unixDone) ==
  IF call[c].unix /\ ~unixDone THEN "unix" ELSE IF call[c].pw THEN "pw" ELSE "commit"

(* self.add(ldbmessage): fails when the DN is taken.                       *)
Add(c) ==
  LET n == call[c].n
  IN /\ pc[c] = "open"
     /\ IF View[n] = Absent
          THEN /\ Write(n, [st |-> IF call[c].en THEN "enabled" ELSE "disabled", by |-> c])
               /\ created' = [created EXCEPT ![c] = TRUE]
               /\ pc' = [pc EXCEPT ![c] = AfterAdd(c, FALSE)]
               /\ UNCHANGED reported
          ELSE /\ Raise(c, "exists")
               /\ pc' = [pc EXCEPT ![c] = "cancel"]
               /\ UNCHANGED <<store, work, created>>
     /\ UNCHANGED <<depth, lock, call>>

(* self.modify(ldbmessage2): refused when the account has gone, or by the *)
(* store for its own reasons (a constraint, access rights).                *)
ModifyUnix(c) ==
  /\ pc[c] = "unix"
  /\ \E ok \in BOOLEAN :
       IF ok /\ View[call[c].n] # Absent
         THEN pc' = [pc EXCEPT ![c] = AfterAdd(c, TRUE)] /\ UNCHANGED reported
         ELSE pc' = [pc EXCEPT ![c] = "cleanup"] /\ Raise(c, "unix")
  /\ UNCHANGED <<store, work, depth, lock, call, created>>

(* setpassword: transaction_start, then the search for the account.       *)
SetPassword(c) ==
  /\ pc[c] = "pw"
  /\ TxnStart(c)
  /\ IF View[call[c].n] # Absent
       THEN pc' = [pc EXCEPT ![c] = "pwmod"] /\ UNCHANGED reported
       ELSE pc' = [pc EXCEPT ![c] = "pwfail"] /\ Raise(c, "notfound")
  /\ UNCHANGED <<store, call, created>>

(* The password modify (and the optional pwdLastSet modify of             *)
(* force_password_change_at_next_login): refused when the account has     *)
(* gone, the entry is no account, or the password fails the policy.       *)
SetPasswordModify(c) ==
  /\ pc[c] = "pwmod"
  /\ \E ok \in BOOLEAN :
       IF ok /\ IsAccount(View[call[c].n])
         THEN pc' = [pc EXCEPT ![c] = "enable"] /\ UNCHANGED reported
         ELSE /\ pc' = [pc EXCEPT ![c] = "pwfail"]
              /\ Raise(c, IF View[call[c].n] = Absent THEN "notfound" ELSE "pwpolicy")
  /\ UNCHANGED <<store, work, depth, lock, call, created>>

(***************************************************************************)
(* enable_account through toggle_userAccountFlags: search the account    *)
(* (an entry without userAccountControl raises), clear the disabled bit   *)
(* unless already clear, then setpassword's nested transaction_commit,    *)
(* which only moves the counter.                                           *)
(***************************************************************************)
EnableAccount(c) ==
  LET n == call[c].n
  IN /\ pc[c] = "enable"
     /\ IF IsAccount(View[n])
          THEN /\ IF View[n].st = "disabled"
                    THEN Write(n, [View[n] EXCEPT !.st = "enabled"])
                    ELSE UNCHANGED <<store, work>>
               /\ depth' = [depth EXCEPT ![c] = @ - 1]
               /\ pc' = [pc EXCEPT ![c] = "commit"]
               /\ UNCHANGED reported
          ELSE /\ pc' = [pc EXCEPT ![c] = "pwfail"]
               /\ Raise(c, "notfound")
               /\ UNCHANGED <<store, work, depth>>
     /\ UNCHANGED <<lock, call, created>>

(* setpassword's except: the nested transaction_cancel only moves the     *)
(* counter; the exception leaves the with block.                           *)
SetPasswordCancel(c) ==
  /\ pc[c] = "pwfail"
  /\ depth' = [depth EXCEPT ![c] = @ - 1]
  /\ pc' = [pc EXCEPT ![c] = "cleanup"]
  /\ UNCHANGED <<store, work, lock, call, created, reported>>

(* _CleanUpOnError.__exit__ without the delete, for mutation testing.     *)
CleanUpOnErrorNoDelete(c) ==
  /\ pc[c] = "cleanup"
  /\ pc' = [pc EXCEPT ![c] = "cancel"]
  /\ UNCHANGED <<store, work, depth, lock, call, created, reported>>

(***************************************************************************)
(* _CleanUpOnError.__exit__: self.samdb.delete(self.dn), outside any try. *)
(* It deletes whatever entry holds the DN.  It raises when the entry is   *)
(* gone or, over LDAP, when the connection fails; that exception replaces *)
(* the one that entered __exit__.                                           *)
(***************************************************************************)
CleanUpOnError(c) ==
  LET n == call[c].n
  IN /\ pc[c] = "cleanup"
     /\ pc' = [pc EXCEPT ![c] = "cancel"]
     /\ \/ /\ View[n] # Absent
           /\ Write(n, Absent)
           /\ UNCHANGED reported
        \/ /\ View[n] = Absent \/ Ldap
           /\ Raise(c, "delete")
           /\ UNCHANGED <<store, work>>
     /\ UNCHANGED <<depth, lock, call, created>>

(* newuser's except without transaction_cancel, for mutation testing.     *)
CancelNoTxnCancel(c) ==
  /\ pc[c] = "cancel"
  /\ pc' = [pc EXCEPT ![c] = "idle"]
  /\ UNCHANGED <<store, work, depth, lock, call, created, reported>>

(* newuser's bare except: transaction_cancel, then re-raise.               *)
Cancel(c) ==
  /\ pc[c] = "cancel"
  /\ TxnCancel(c)
  /\ pc' = [pc EXCEPT ![c] = "idle"]
  /\ UNCHANGED <<store, call, created, reported>>

(* newuser's else: transaction_commit.                                     *)
Commit(c) ==
  /\ pc[c] = "commit"
  /\ TxnCommit(c)
  /\ pc' = [pc EXCEPT ![c] = "idle"]
  /\ UNCHANGED <<work, call, created, reported>>

(***************************************************************************)
(* deleteuser(n) by an idle client, in a transaction of its own: the      *)
(* search for a Person at n and its delete (when none is found the call   *)
(* raises and changes nothing).                                            *)
(***************************************************************************)
DeleteUser(c, n) ==
  /\ pc[c] = "idle"
  /\ ~Ldap => lock = None
  /\ IsAccount(store[n])
  /\ store' = [store EXCEPT ![n] = Absent]
  /\ work' = IF Ldap THEN work ELSE store'
  /\ UNCHANGED <<depth, lock, pc, call, created, reported>>

(* newgroup without waiting for the local database's lock, for mutation  *)
(* testing.                                                                 *)
NewGroupNoLock(c, n) ==
  /\ pc[c] = "idle"
  /\ store[n] = Absent
  /\ store' = [store EXCEPT ![n] = [st |-> "group", by |-> c]]
  /\ work' = IF Ldap THEN work ELSE store'
  /\ UNCHANGED <<depth, lock, pc, call, created, reported>>

(* newgroup(n): one add outside any explicit transaction (a local        *)
(* database wraps it in its own); a taken DN raises and changes nothing.  *)
NewGroup(c, n) ==
  /\ pc[c] = "idle"
  /\ ~Ldap => lock = None
  /\ store[n] = Absent
  /\ store' = [store EXCEPT ![n] = [st |-> "group", by |-> c]]
  /\ work' = IF Ldap THEN work ELSE store'
  /\ UNCHANGED <<depth, lock, pc, call, created, reported>>

(* deletegroup(n): like deleteuser, for an entry of category Group.        *)
DeleteGroup(c, n) ==
  /\ pc[c] = "idle"
  /\ ~Ldap => lock = None
  /\ store[n].st = "group"
  /\ store' = [store EXCEPT ![n] = Absent]
  /\ work' = IF Ldap THEN work ELSE store'
  /\ UNCHANGED <<depth, lock, pc, call, created, reported>>

(* The steps of client c's call in progress, after its transaction_start. *)
CallStep(c) ==
  \/ Add(c) \/ ModifyUnix(c)
  \/ SetPassword(c) \/ SetPasswordModify(c) \/ EnableAccount(c)
  \/ SetPasswordCancel(c) \/ CleanUpOnError(c)
  \/ Cancel(c) \/ Commit(c)

Next ==
  \E c \in Clients :
     \/ \E n \in Names, unix, pw \in BOOLEAN : NewUser(c, n, unix, pw)
     \/ \E n \in Names, pw \in BOOLEAN : NewComputer(c, n, pw)
     \/ \E n \in Names : DeleteUser(c, n) \/ NewGroup(c, n) \/ DeleteGroup(c, n)
     \/ CallStep(c)

Spec == Init /\ [][Next]_vars

-----------------------------------------------------------------------------
(***************************************************************************)
(* A newuser or newcomputer call that ends without success after adding   *)
(* its account does not leave that account behind, unless the             *)
(* compensating delete itself failed: over a local database the cancel    *)
(* (or, when the caller dies, the store) rolls it back, over LDAP the     *)
(* delete in _CleanUpOnError removes it.                                    *)
(***************************************************************************)
FailedCreateLeavesNoAccount ==
  [][\A c \in Clients :
       (/\ pc[c] # "idle" /\ pc'[c] = "idle" /\ created[c]
        /\ reported'[c] \notin {"none", "delete"})
          => store'[call[c].n].by # c]_vars


(***************************************************************************)
(* After its add, a newuser call writes only to the account it added: the *)
(* password modify of setpassword, the enable of enable_account and the   *)
(* delete of _CleanUpOnError all address the account by its DN, and must  *)
(* not land on an entry another caller put there.                          *)
(***************************************************************************)
WritesOwnAccountOnly ==
  [][\A c \in Clients :
       LET n == call[c].n
       IN (\/ pc[c] = "pwmod" /\ pc'[c] = "enable"
           \/ pc[c] = "enable" /\ pc'[c] = "commit"
           \/ pc[c] = "cleanup" /\ View[n] # Absent /\ View'[n] = Absent)
            => View[n].by = c]_vars
=============================================================================
