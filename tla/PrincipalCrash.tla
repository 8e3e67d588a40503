--------------------------- MODULE PrincipalCrash ---------------------------
(***************************************************************************)
(* PrincipalCreate with callers that die in the middle of an operation    *)
(* (the process is killed, the host goes down).  Nothing in samdb.py      *)
(* survives the caller: no except or __exit__ runs.  Over a local         *)
(* database the store drops the uncommitted transaction and its lock;    *)
(* over LDAP every write already sent stays in the directory.             *)
(***************************************************************************)
EXTENDS PrincipalCreate

(* Client c dies anywhere inside newuser or newcomputer.                   *)
Crash(c) ==
  /\ pc[c] # "idle"
  /\ depth' = [depth EXCEPT ![c] = 0]
  /\ IF lock = c THEN lock' = None /\ work' = store ELSE UNCHANGED <<lock, work>>
  /\ pc' = [pc EXCEPT ![c] = "idle"]
  /\ reported' = [reported EXCEPT ![c] = "crash"]
  /\ UNCHANGED <<store, call, created>>

CrashNext == Next \/ \E c \in Clients : Crash(c)

CrashSpec == Init /\ [][CrashNext]_vars

(***************************************************************************)
(* A caller that dies after its add leaves its account behind only when  *)
(* the account is already what the call would leave on success: nothing *)
(* but the commit was left to run (the RFC2307 modify and setpassword, if *)
(* asked for, are done).  A failed compensating delete is H12's concern  *)
(* and is set aside.  The spec's error section asks that operations      *)
(* either fully succeed or fully fail, with no partial state persisted.   *)
(***************************************************************************)
CrashLeavesNoPartialAccount ==
  [][\A c \in Clients :
       (/\ pc[c] # "idle" /\ reported'[c] = "crash" /\ created[c]
        /\ reported[c] # "delete"
        /\ store'[call[c].n].by = c)
          => pc[c] = "commit"]_vars
=============================================================================
