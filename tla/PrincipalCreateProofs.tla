----------------------- MODULE PrincipalCreateProofs -----------------------
(***************************************************************************)
(* Proofs about PrincipalCreate, for every set of callers and DNs.        *)
(***************************************************************************)
EXTENDS PrincipalCreate, TLAPS

(* The nesting depth of a caller's transactions at each phase: newuser's  *)
(* own transaction from its start to its commit or cancel, and            *)
(* setpassword's nested one from its search to its commit or cancel.      *)
DepthOf(p) ==
  IF p = "idle" THEN 0
  ELSE IF p \in {"pwmod", "enable", "pwfail"} THEN 2
  ELSE 1

(* The phases between newuser's add and its commit or cleanup.            *)
PostAdd == {"unix", "pw", "pwmod", "enable", "pwfail", "cleanup", "commit"}

(* The phases in which no exception has been raised yet.                  *)
Unraised == {"open", "unix", "pw", "pwmod", "enable", "commit"}

(***************************************************************************)
(* Over a local database a caller inside newuser holds the lock from its  *)
(* transaction_start on; nobody else writes while it does, so the store   *)
(* is as it was at the start (the DN still free) and its working copy     *)
(* holds, from the add on, the account it added.                          *)
(***************************************************************************)
LocalInv ==
  /\ \A c \in Clients : pc[c] # "idle" <=> lock = c
  /\ lock = None => work = store
  /\ \A c \in Clients : pc[c] = "open" => work = store
  /\ \A c \in Clients : pc[c] # "idle" /\ created[c] => store[call[c].n] = Absent
  /\ \A c \in Clients : pc[c] \in PostAdd =>
        /\ IsAccount(work[call[c].n])
        /\ work[call[c].n].by = c

(***************************************************************************)
(* The inductive invariant: the transaction depth follows the phase, an   *)
(* add has succeeded exactly after the "open" phase on the success path,  *)
(* no exception is pending on that path, LDAP never takes the lock, and a *)
(* call about to cancel after its cleanup has no account of its own left *)
(* at its DN.                                                              *)
(***************************************************************************)
DepthInv == \A c \in Clients : depth[c] = DepthOf(pc[c])

AddInv ==
  /\ \A c \in Clients : pc[c] = "open" => ~created[c]
  /\ \A c \in Clients : pc[c] \in PostAdd => created[c]

RaiseInv == \A c \in Clients : pc[c] \in Unraised => reported[c] = "none"

CleanupInv ==
  \A c \in Clients :
     pc[c] = "cancel" /\ created[c] /\ reported[c] # "delete"
       => store[call[c].n].by # c

IInv ==
  /\ TypeOK
  /\ DepthInv
  /\ AddInv
  /\ RaiseInv
  /\ Ldap => lock = None
  /\ ~Ldap => LocalInv
  /\ CleanupInv

LEMMA IInvInit == Init => IInv
BY ConstAssumption DEF Init, IInv, TypeOK, LocalInv, DepthInv, AddInv, RaiseInv, CleanupInv, DepthOf, PostAdd, Unraised,
                       Entries, Absent, Errors, Phases

(***************************************************************************)
(* Each step keeps IInv.  A caller's own steps move it along its phases,  *)
(* with the depth, the add and the exception following; the steps of an  *)
(* idle caller (deleteuser, newgroup, deletegroup, a new call) wait for   *)
(* the lock over a local database, so they cannot touch the store while  *)
(* a newuser is under way.                                                  *)
(***************************************************************************)
LEMMA IInvNextStep ==
  ASSUME IInv, [Next]_vars
  PROVE  IInv'
<1>1. ASSUME NEW c \in Clients, NEW n \in Names, NEW unix \in BOOLEAN, NEW pw \in BOOLEAN,
             NEW en \in BOOLEAN, StartCall(c, n, unix, pw, en)
      PROVE  IInv'
  <2>1. TypeOK'
    BY <1>1, ConstAssumption DEF StartCall, TxnStart, IInv, TypeOK, DepthInv, Entries, Absent, Errors, Phases, DepthOf
  <2>2. DepthInv'
    BY <1>1, ConstAssumption DEF StartCall, TxnStart, IInv, TypeOK, DepthInv, DepthOf
  <2>3. AddInv'
    BY <1>1, ConstAssumption DEF StartCall, TxnStart, IInv, TypeOK, AddInv, PostAdd
  <2>4. RaiseInv'
    BY <1>1, ConstAssumption DEF StartCall, TxnStart, IInv, TypeOK, RaiseInv, Unraised
  <2>5. (Ldap => lock = None)'
    BY <1>1, ConstAssumption DEF StartCall, TxnStart, IInv
  <2>6. (~Ldap => LocalInv)'
    BY <1>1, ConstAssumption DEF StartCall, TxnStart, IInv, TypeOK, LocalInv, AddInv, PostAdd, Entries, Absent
  <2>7. CleanupInv'
    BY <1>1, ConstAssumption DEF StartCall, TxnStart, IInv, TypeOK, CleanupInv, AddInv, PostAdd, LocalInv, Absent
  <2>. QED  BY <2>1, <2>2, <2>3, <2>4, <2>5, <2>6, <2>7 DEF IInv
<1>2. ASSUME NEW c \in Clients, Add(c) PROVE IInv'
  <2> DEFINE n == call[c].n
             e == [st |-> IF call[c].en THEN "enabled" ELSE "disabled", by |-> c]
  <2>0. /\ pc[c] = "open" /\ ~created[c] /\ reported[c] = "none"
        /\ depth[c] = 1 /\ n \in Names /\ e \in Entries
    BY <1>2 DEF Add, IInv, TypeOK, AddInv, RaiseInv, DepthInv, DepthOf, Unraised, Entries
  <2>1. CASE View[n] = Absent
    <3>1. /\ pc' = [pc EXCEPT ![c] = AfterAdd(c, FALSE)]
          /\ AfterAdd(c, FALSE) \in {"unix", "pw", "commit"}
          /\ created' = [created EXCEPT ![c] = TRUE]
          /\ UNCHANGED <<depth, lock, call, reported>>
      BY <1>2, <2>1 DEF Add, AfterAdd
    <3>2. DepthInv' /\ AddInv' /\ RaiseInv' /\ (Ldap => lock = None)'
      BY <2>0, <3>1 DEF IInv, TypeOK, DepthInv, AddInv, RaiseInv, DepthOf, PostAdd,
         Unraised, Phases
    <3>3. CASE Ldap
      <4>1. store' = [store EXCEPT ![n] = e] /\ work' = work
        BY <1>2, <2>1, <3>3 DEF Add, View, Write
      <4>2. TypeOK'
        BY <2>0, <3>1, <4>1 DEF IInv, TypeOK, Phases
      <4>3. CleanupInv'
        BY <2>0, <3>1, <4>1 DEF IInv, TypeOK, CleanupInv
      <4>. QED  BY <3>2, <3>3, <4>2, <4>3 DEF IInv
    <3>4. CASE ~Ldap
      <4>1. work' = [work EXCEPT ![n] = e] /\ store' = store
        BY <1>2, <2>1, <3>4 DEF Add, View, Write
      <4>2. lock = c /\ work = store /\ \A d \in Clients : d # c => pc[d] = "idle"
        BY <2>0, <3>4 DEF IInv, LocalInv
      <4>3. TypeOK'
        BY <2>0, <3>1, <4>1 DEF IInv, TypeOK, Phases
      <4>4. LocalInv'
        <5>1. pc'[c] \in PostAdd /\ \A d \in Clients : d # c => pc'[d] = "idle"
          BY <2>0, <3>1, <4>1, <4>2, ConstAssumption DEF IInv, TypeOK, PostAdd
        <5>2. \A d \in Clients : pc'[d] # "idle" <=> lock' = d
          BY <5>1, <2>0, <3>1, <4>1, <4>2, ConstAssumption DEF IInv, TypeOK
        <5>3. lock' = None => work' = store'
          BY <2>0, <3>1, <4>1, <4>2, ConstAssumption DEF IInv, TypeOK
        <5>4. \A d \in Clients : pc'[d] = "open" => work' = store'
          BY <5>1, <2>0, <3>1, <4>1, <4>2, ConstAssumption DEF IInv, TypeOK, PostAdd
        <5>5. \A d \in Clients : pc'[d] # "idle" /\ created'[d] => store'[call'[d].n] = Absent
          BY <2>1, <5>1, <2>0, <3>1, <4>1, <4>2, ConstAssumption DEF IInv, TypeOK, View
        <5>6. \A d \in Clients : pc'[d] \in PostAdd =>
                 IsAccount(work'[call'[d].n]) /\ work'[call'[d].n].by = d
          BY <5>1, <2>0, <3>1, <4>1, <4>2, ConstAssumption DEF IInv, TypeOK, PostAdd, IsAccount
        <5>. QED  BY <5>2, <5>3, <5>4, <5>5, <5>6 DEF LocalInv
      <4>5. CleanupInv'
        BY <2>0, <3>1, <4>1, <4>2 DEF IInv, TypeOK, CleanupInv
      <4>. QED  BY <3>2, <3>4, <4>3, <4>4, <4>5 DEF IInv
    <3>. QED  BY <3>3, <3>4
  <2>2. CASE View[n] # Absent
    <3>1. /\ pc' = [pc EXCEPT ![c] = "cancel"]
          /\ reported' = [reported EXCEPT ![c] = "exists"]
          /\ UNCHANGED <<store, work, created, depth, lock, call>>
      BY <1>2, <2>2 DEF Add, Raise
    <3>2. TypeOK' /\ DepthInv' /\ AddInv' /\ RaiseInv' /\ (Ldap => lock = None)'
      BY <2>0, <3>1 DEF IInv, TypeOK, DepthInv, AddInv, RaiseInv, DepthOf, PostAdd,
         Unraised, Phases, Errors
    <3>3. (~Ldap => LocalInv)'
      BY <2>0, <3>1 DEF IInv, TypeOK, LocalInv, PostAdd
    <3>4. CleanupInv'
      BY <2>0, <3>1 DEF IInv, TypeOK, CleanupInv
    <3>. QED  BY <3>2, <3>3, <3>4 DEF IInv
  <2>. QED  BY <2>1, <2>2
<1>3. ASSUME NEW c \in Clients,
             ModifyUnix(c)
      PROVE  IInv'
  <2>1. TypeOK'
    BY <1>3, ConstAssumption DEF ModifyUnix, AfterAdd, Raise, View, IInv, TypeOK, DepthInv, Entries, Absent, Errors, Phases, DepthOf
  <2>2. DepthInv'
    BY <1>3, ConstAssumption DEF ModifyUnix, AfterAdd, Raise, View, IInv, TypeOK, DepthInv, DepthOf
  <2>3. AddInv'
    BY <1>3, ConstAssumption DEF ModifyUnix, AfterAdd, Raise, View, IInv, TypeOK, AddInv, PostAdd
  <2>4. RaiseInv'
    BY <1>3, ConstAssumption DEF ModifyUnix, AfterAdd, Raise, View, IInv, TypeOK, RaiseInv, Unraised
  <2>5. (Ldap => lock = None)'
    BY <1>3, ConstAssumption DEF ModifyUnix, AfterAdd, Raise, View, IInv
  <2>6. (~Ldap => LocalInv)'
    BY <1>3, ConstAssumption DEF ModifyUnix, AfterAdd, Raise, View, IInv, TypeOK, LocalInv, AddInv, PostAdd, Entries, Absent
  <2>7. CleanupInv'
    BY <1>3, ConstAssumption DEF ModifyUnix, AfterAdd, Raise, View, IInv, TypeOK, CleanupInv, AddInv, PostAdd, LocalInv, Absent
  <2>. QED  BY <2>1, <2>2, <2>3, <2>4, <2>5, <2>6, <2>7 DEF IInv
<1>4. ASSUME NEW c \in Clients,
             SetPassword(c)
      PROVE  IInv'
  <2>1. TypeOK'
    <3>1. depth[c] = 1
      BY <1>4 DEF SetPassword, IInv, TypeOK, DepthInv, DepthOf
    <3>2. depth' = [depth EXCEPT ![c] = 2] /\ UNCHANGED <<store, work, lock, call, created>>
      BY <1>4, <3>1 DEF SetPassword, TxnStart
    <3>3. \/ pc' = [pc EXCEPT ![c] = "pwmod"] /\ UNCHANGED reported
          \/ pc' = [pc EXCEPT ![c] = "pwfail"] /\ reported' = [reported EXCEPT ![c] = "notfound"]
      BY <1>4 DEF SetPassword, Raise
    <3>4. pc' \in [Clients -> Phases] /\ reported' \in [Clients -> Errors]
      BY <1>4, <3>3 DEF IInv, TypeOK, Errors, Phases
    <3>5. \A d \in Clients : pc'[d] = "idle" => depth'[d] = 0
      BY <1>4, <3>1, <3>2, <3>3 DEF IInv, TypeOK
    <3>6. lock' \in {d \in Clients : pc'[d] # "idle"} \cup {None}
      BY <1>4, <3>2, <3>3 DEF IInv, TypeOK
    <3>7. call' \in [Clients -> [n : Names, unix : BOOLEAN, pw : BOOLEAN, en : BOOLEAN]]
          /\ created' \in [Clients -> BOOLEAN] /\ store' \in [Names -> Entries]
          /\ work' \in [Names -> Entries]
      BY <3>2 DEF IInv, TypeOK
    <3>8. depth' \in [Clients -> 0..2]
      BY <3>1, <3>2 DEF IInv, TypeOK
    <3>. QED  BY <3>4, <3>5, <3>6, <3>7, <3>8 DEF TypeOK
  <2>2. DepthInv'
    BY <1>4, ConstAssumption DEF SetPassword, TxnStart, Raise, View, IInv, TypeOK, DepthInv, DepthOf
  <2>3. AddInv'
    BY <1>4, ConstAssumption DEF SetPassword, TxnStart, Raise, View, IInv, TypeOK, AddInv, PostAdd
  <2>4. RaiseInv'
    BY <1>4, ConstAssumption DEF SetPassword, TxnStart, Raise, View, IInv, TypeOK, RaiseInv, Unraised
  <2>5. (Ldap => lock = None)'
    BY <1>4, ConstAssumption DEF SetPassword, TxnStart, Raise, View, IInv
  <2>6. (~Ldap => LocalInv)'
    BY <1>4, ConstAssumption DEF SetPassword, TxnStart, Raise, View, IInv, TypeOK, LocalInv, AddInv, PostAdd, Entries, Absent
  <2>7. CleanupInv'
    BY <1>4, ConstAssumption DEF SetPassword, TxnStart, Raise, View, IInv, TypeOK, CleanupInv, AddInv, PostAdd, LocalInv, Absent
  <2>. QED  BY <2>1, <2>2, <2>3, <2>4, <2>5, <2>6, <2>7 DEF IInv
<1>5. ASSUME NEW c \in Clients,
             SetPasswordModify(c)
      PROVE  IInv'
  <2>1. TypeOK'
    BY <1>5, ConstAssumption DEF SetPasswordModify, Raise, View, IsAccount, IInv, TypeOK, DepthInv, Entries, Absent, Errors, Phases, DepthOf
  <2>2. DepthInv'
    BY <1>5, ConstAssumption DEF SetPasswordModify, Raise, View, IsAccount, IInv, TypeOK, DepthInv, DepthOf
  <2>3. AddInv'
    BY <1>5, ConstAssumption DEF SetPasswordModify, Raise, View, IsAccount, IInv, TypeOK, AddInv, PostAdd
  <2>4. RaiseInv'
    BY <1>5, ConstAssumption DEF SetPasswordModify, Raise, View, IsAccount, IInv, TypeOK, RaiseInv, Unraised
  <2>5. (Ldap => lock = None)'
    BY <1>5, ConstAssumption DEF SetPasswordModify, Raise, View, IsAccount, IInv
  <2>6. (~Ldap => LocalInv)'
    BY <1>5, ConstAssumption DEF SetPasswordModify, Raise, View, IsAccount, IInv, TypeOK, LocalInv, AddInv, PostAdd, Entries, Absent
  <2>7. CleanupInv'
    BY <1>5, ConstAssumption DEF SetPasswordModify, Raise, View, IsAccount, IInv, TypeOK, CleanupInv, AddInv, PostAdd, LocalInv, Absent
  <2>. QED  BY <2>1, <2>2, <2>3, <2>4, <2>5, <2>6, <2>7 DEF IInv
<1>6. ASSUME NEW c \in Clients,
             EnableAccount(c)
      PROVE  IInv'
  <2>1. TypeOK' /\ CleanupInv'
    <3> DEFINE n == call[c].n
    <3>0. /\ pc[c] = "enable" /\ depth[c] = 2 /\ n \in Names
          /\ store[n] \in Entries /\ work[n] \in Entries
      BY <1>6 DEF EnableAccount, IInv, TypeOK, DepthInv, DepthOf
    <3>1. CASE IsAccount(View[n])
      <4>1. /\ depth' = [depth EXCEPT ![c] = 1] /\ pc' = [pc EXCEPT ![c] = "commit"]
            /\ UNCHANGED <<lock, call, created, reported>>
        BY <1>6, <3>0, <3>1 DEF EnableAccount
      <4>2. CASE Ldap /\ View[n].st = "disabled"
        <5>1. store' = [store EXCEPT ![n] = [store[n] EXCEPT !.st = "enabled"]] /\ work' = work
          BY <1>6, <3>1, <4>2 DEF EnableAccount, View, Write
        <5>2. [store[n] EXCEPT !.st = "enabled"] \in Entries
              /\ [store[n] EXCEPT !.st = "enabled"].by = store[n].by
          BY <3>0, <3>1, <4>2 DEF View, Entries, IsAccount, Absent
        <5>. QED  BY <3>0, <4>1, <5>1, <5>2 DEF IInv, TypeOK, CleanupInv, Phases
      <4>3. CASE ~Ldap /\ View[n].st = "disabled"
        <5>1. work' = [work EXCEPT ![n] = [work[n] EXCEPT !.st = "enabled"]] /\ store' = store
          BY <1>6, <3>1, <4>3 DEF EnableAccount, View, Write
        <5>2. [work[n] EXCEPT !.st = "enabled"] \in Entries
          BY <3>0, <3>1, <4>3 DEF View, Entries, IsAccount, Absent
        <5>. QED  BY <3>0, <4>1, <5>1, <5>2 DEF IInv, TypeOK, CleanupInv, Phases
      <4>4. CASE View[n].st # "disabled"
        <5>1. UNCHANGED <<store, work>>
          BY <1>6, <3>1, <4>4 DEF EnableAccount
        <5>. QED  BY <3>0, <4>1, <5>1 DEF IInv, TypeOK, CleanupInv, Phases
      <4>. QED  BY <4>2, <4>3, <4>4
    <3>2. CASE ~IsAccount(View[n])
      <4>1. /\ pc' = [pc EXCEPT ![c] = "pwfail"]
            /\ reported' = [reported EXCEPT ![c] = "notfound"]
            /\ UNCHANGED <<store, work, depth, lock, call, created>>
        BY <1>6, <3>2 DEF EnableAccount, Raise
      <4>. QED  BY <3>0, <4>1 DEF IInv, TypeOK, CleanupInv, Phases, Errors
    <3>. QED  BY <3>1, <3>2
  <2>2. DepthInv'
    BY <1>6, ConstAssumption DEF EnableAccount, Raise, View, Write, IsAccount, IInv, TypeOK, DepthInv, DepthOf
  <2>3. AddInv'
    BY <1>6, ConstAssumption DEF EnableAccount, Raise, View, Write, IsAccount, IInv, TypeOK, AddInv, PostAdd
  <2>4. RaiseInv'
    BY <1>6, ConstAssumption DEF EnableAccount, Raise, View, Write, IsAccount, IInv, TypeOK, RaiseInv, Unraised
  <2>5. (Ldap => lock = None)'
    BY <1>6, ConstAssumption DEF EnableAccount, Raise, View, Write, IsAccount, IInv
  <2>6. (~Ldap => LocalInv)'
    BY <1>6, ConstAssumption DEF EnableAccount, Raise, View, Write, IsAccount, IInv, TypeOK, LocalInv, AddInv, PostAdd, Entries, Absent
  <2>7. CleanupInv'
    BY <2>1
  <2>. QED  BY <2>1, <2>2, <2>3, <2>4, <2>5, <2>6, <2>7 DEF IInv
<1>7. ASSUME NEW c \in Clients,
             SetPasswordCancel(c)
      PROVE  IInv'
  <2>1. TypeOK'
    BY <1>7, ConstAssumption DEF SetPasswordCancel, IInv, TypeOK, DepthInv, Entries, Absent, Errors, Phases, DepthOf
  <2>2. DepthInv'
    BY <1>7, ConstAssumption DEF SetPasswordCancel, IInv, TypeOK, DepthInv, DepthOf
  <2>3. AddInv'
    BY <1>7, ConstAssumption DEF SetPasswordCancel, IInv, TypeOK, AddInv, PostAdd
  <2>4. RaiseInv'
    BY <1>7, ConstAssumption DEF SetPasswordCancel, IInv, TypeOK, RaiseInv, Unraised
  <2>5. (Ldap => lock = None)'
    BY <1>7, ConstAssumption DEF SetPasswordCancel, IInv
  <2>6. (~Ldap => LocalInv)'
    BY <1>7, ConstAssumption DEF SetPasswordCancel, IInv, TypeOK, LocalInv, AddInv, PostAdd, Entries, Absent
  <2>7. CleanupInv'
    BY <1>7, ConstAssumption DEF SetPasswordCancel, IInv, TypeOK, CleanupInv, AddInv, PostAdd, LocalInv, Absent
  <2>. QED  BY <2>1, <2>2, <2>3, <2>4, <2>5, <2>6, <2>7 DEF IInv
<1>8. ASSUME NEW c \in Clients,
             CleanUpOnError(c)
      PROVE  IInv'
  <2>1. TypeOK'
    <3>1. store' \in [Names -> Entries] /\ work' \in [Names -> Entries]
      BY <1>8 DEF CleanUpOnError, View, Write, IInv, TypeOK, Entries, Absent
    <3>2. reported' \in [Clients -> Errors]
      BY <1>8 DEF CleanUpOnError, Raise, IInv, TypeOK, Errors
    <3>3. pc' \in [Clients -> Phases] /\ pc'[c] # "idle" /\ pc[c] # "idle"
      BY <1>8 DEF CleanUpOnError, IInv, TypeOK, Phases
    <3>4. UNCHANGED <<depth, lock, call, created>>
      BY <1>8 DEF CleanUpOnError
    <3>5. \A d \in Clients : pc'[d] = "idle" => depth'[d] = 0
      BY <1>8, <3>4 DEF CleanUpOnError, IInv, TypeOK
    <3>6. lock' \in {d \in Clients : pc'[d] # "idle"} \cup {None}
      BY <1>8, <3>4 DEF CleanUpOnError, IInv, TypeOK
    <3>7. call' \in [Clients -> [n : Names, unix : BOOLEAN, pw : BOOLEAN, en : BOOLEAN]]
          /\ created' \in [Clients -> BOOLEAN] /\ depth' \in [Clients -> 0..2]
      BY <3>4 DEF IInv, TypeOK
    <3>. QED  BY <3>1, <3>2, <3>3, <3>5, <3>6, <3>7 DEF TypeOK
  <2>2. DepthInv'
    BY <1>8, ConstAssumption DEF CleanUpOnError, Raise, View, Write, IInv, TypeOK, DepthInv, DepthOf
  <2>3. AddInv'
    BY <1>8, ConstAssumption DEF CleanUpOnError, Raise, View, Write, IInv, TypeOK, AddInv, PostAdd
  <2>4. RaiseInv'
    BY <1>8, ConstAssumption DEF CleanUpOnError, Raise, View, Write, IInv, TypeOK, RaiseInv, Unraised
  <2>5. (Ldap => lock = None)'
    BY <1>8, ConstAssumption DEF CleanUpOnError, Raise, View, Write, IInv
  <2>6. (~Ldap => LocalInv)'
    BY <1>8, ConstAssumption DEF CleanUpOnError, Raise, View, Write, IInv, TypeOK, LocalInv, AddInv, PostAdd, Entries, Absent
  <2>7. CleanupInv'
    BY <1>8, ConstAssumption DEF CleanUpOnError, Raise, View, Write, IInv, TypeOK, CleanupInv, AddInv, PostAdd, LocalInv, Absent
  <2>. QED  BY <2>1, <2>2, <2>3, <2>4, <2>5, <2>6, <2>7 DEF IInv
<1>9. ASSUME NEW c \in Clients,
             Cancel(c)
      PROVE  IInv'
  <2>1. TypeOK'
    BY <1>9, ConstAssumption DEF Cancel, TxnCancel, IInv, TypeOK, DepthInv, Entries, Absent, Errors, Phases, DepthOf
  <2>2. DepthInv'
    BY <1>9, ConstAssumption DEF Cancel, TxnCancel, IInv, TypeOK, DepthInv, DepthOf
  <2>3. AddInv'
    BY <1>9, ConstAssumption DEF Cancel, TxnCancel, IInv, TypeOK, AddInv, PostAdd
  <2>4. RaiseInv'
    BY <1>9, ConstAssumption DEF Cancel, TxnCancel, IInv, TypeOK, RaiseInv, Unraised
  <2>5. (Ldap => lock = None)'
    BY <1>9, ConstAssumption DEF Cancel, TxnCancel, IInv
  <2>6. (~Ldap => LocalInv)'
    <3>1. SUFFICES ASSUME ~Ldap PROVE LocalInv'
      OBVIOUS
    <3>2. lock = c /\ depth[c] = 1 /\ \A d \in Clients : d # c => pc[d] = "idle"
      BY <1>9, <3>1 DEF Cancel, IInv, TypeOK, LocalInv, DepthInv, DepthOf
    <3>3. lock' = None /\ work' = store /\ store' = store /\ pc'[c] = "idle"
      BY <1>9, <3>1, <3>2 DEF Cancel, TxnCancel, IInv, TypeOK
    <3>4. \A d \in Clients : pc'[d] = "idle"
      BY <1>9, <3>2, <3>3 DEF Cancel, IInv, TypeOK
    <3>. QED  BY <3>3, <3>4, ConstAssumption DEF LocalInv, PostAdd
  <2>7. CleanupInv'
    BY <1>9, ConstAssumption DEF Cancel, TxnCancel, IInv, TypeOK, CleanupInv, AddInv, PostAdd, LocalInv, Absent
  <2>. QED  BY <2>1, <2>2, <2>3, <2>4, <2>5, <2>6, <2>7 DEF IInv
<1>10. ASSUME NEW c \in Clients,
             Commit(c)
      PROVE  IInv'
  <2>1. TypeOK'
    BY <1>10, ConstAssumption DEF Commit, TxnCommit, IInv, TypeOK, DepthInv, Entries, Absent, Errors, Phases, DepthOf
  <2>2. DepthInv'
    BY <1>10, ConstAssumption DEF Commit, TxnCommit, IInv, TypeOK, DepthInv, DepthOf
  <2>3. AddInv'
    BY <1>10, ConstAssumption DEF Commit, TxnCommit, IInv, TypeOK, AddInv, PostAdd
  <2>4. RaiseInv'
    BY <1>10, ConstAssumption DEF Commit, TxnCommit, IInv, TypeOK, RaiseInv, Unraised
  <2>5. (Ldap => lock = None)'
    BY <1>10, ConstAssumption DEF Commit, TxnCommit, IInv
  <2>6. (~Ldap => LocalInv)'
    <3>1. SUFFICES ASSUME ~Ldap PROVE LocalInv'
      OBVIOUS
    <3>2. lock = c /\ depth[c] = 1 /\ \A d \in Clients : d # c => pc[d] = "idle"
      BY <1>10, <3>1 DEF Commit, IInv, TypeOK, LocalInv, DepthInv, DepthOf
    <3>3. lock' = None /\ store' = work /\ work' = work /\ pc'[c] = "idle"
      BY <1>10, <3>1, <3>2 DEF Commit, TxnCommit, IInv, TypeOK
    <3>4. \A d \in Clients : pc'[d] = "idle"
      BY <1>10, <3>2, <3>3 DEF Commit, IInv, TypeOK
    <3>. QED  BY <3>3, <3>4, ConstAssumption DEF LocalInv, PostAdd
  <2>7. CleanupInv'
    BY <1>10, ConstAssumption DEF Commit, TxnCommit, IInv, TypeOK, CleanupInv, AddInv, PostAdd, LocalInv, Absent
  <2>. QED  BY <2>1, <2>2, <2>3, <2>4, <2>5, <2>6, <2>7 DEF IInv
<1>11. ASSUME NEW c \in Clients, NEW n \in Names,
             DeleteUser(c, n)
      PROVE  IInv'
  <2>1. TypeOK'
    BY <1>11, ConstAssumption DEF DeleteUser, IsAccount, IInv, TypeOK, DepthInv, Entries, Absent, Errors, Phases, DepthOf
  <2>2. DepthInv'
    BY <1>11, ConstAssumption DEF DeleteUser, IsAccount, IInv, TypeOK, DepthInv, DepthOf
  <2>3. AddInv'
    BY <1>11, ConstAssumption DEF DeleteUser, IsAccount, IInv, TypeOK, AddInv, PostAdd
  <2>4. RaiseInv'
    BY <1>11, ConstAssumption DEF DeleteUser, IsAccount, IInv, TypeOK, RaiseInv, Unraised
  <2>5. (Ldap => lock = None)'
    BY <1>11, ConstAssumption DEF DeleteUser, IsAccount, IInv
  <2>6. (~Ldap => LocalInv)'
    BY <1>11, ConstAssumption DEF DeleteUser, IsAccount, IInv, TypeOK, LocalInv, AddInv, PostAdd, Entries, Absent
  <2>7. CleanupInv'
    BY <1>11, ConstAssumption DEF DeleteUser, IsAccount, IInv, TypeOK, CleanupInv, AddInv, PostAdd, LocalInv, Absent
  <2>. QED  BY <2>1, <2>2, <2>3, <2>4, <2>5, <2>6, <2>7 DEF IInv
<1>12. ASSUME NEW c \in Clients, NEW n \in Names,
             NewGroup(c, n)
      PROVE  IInv'
  <2>1. TypeOK'
    BY <1>12, ConstAssumption DEF NewGroup, IInv, TypeOK, DepthInv, Entries, Absent, Errors, Phases, DepthOf
  <2>2. DepthInv'
    BY <1>12, ConstAssumption DEF NewGroup, IInv, TypeOK, DepthInv, DepthOf
  <2>3. AddInv'
    BY <1>12, ConstAssumption DEF NewGroup, IInv, TypeOK, AddInv, PostAdd
  <2>4. RaiseInv'
    BY <1>12, ConstAssumption DEF NewGroup, IInv, TypeOK, RaiseInv, Unraised
  <2>5. (Ldap => lock = None)'
    BY <1>12, ConstAssumption DEF NewGroup, IInv
  <2>6. (~Ldap => LocalInv)'
    BY <1>12, ConstAssumption DEF NewGroup, IInv, TypeOK, LocalInv, AddInv, PostAdd, Entries, Absent
  <2>7. CleanupInv'
    BY <1>12, ConstAssumption DEF NewGroup, IInv, TypeOK, CleanupInv, AddInv, PostAdd, LocalInv, Absent
  <2>. QED  BY <2>1, <2>2, <2>3, <2>4, <2>5, <2>6, <2>7 DEF IInv
<1>13. ASSUME NEW c \in Clients, NEW n \in Names,
             DeleteGroup(c, n)
      PROVE  IInv'
  <2>1. TypeOK'
    BY <1>13, ConstAssumption DEF DeleteGroup, IInv, TypeOK, DepthInv, Entries, Absent, Errors, Phases, DepthOf
  <2>2. DepthInv'
    BY <1>13, ConstAssumption DEF DeleteGroup, IInv, TypeOK, DepthInv, DepthOf
  <2>3. AddInv'
    BY <1>13, ConstAssumption DEF DeleteGroup, IInv, TypeOK, AddInv, PostAdd
  <2>4. RaiseInv'
    BY <1>13, ConstAssumption DEF DeleteGroup, IInv, TypeOK, RaiseInv, Unraised
  <2>5. (Ldap => lock = None)'
    BY <1>13, ConstAssumption DEF DeleteGroup, IInv
  <2>6. (~Ldap => LocalInv)'
    BY <1>13, ConstAssumption DEF DeleteGroup, IInv, TypeOK, LocalInv, AddInv, PostAdd, Entries, Absent
  <2>7. CleanupInv'
    BY <1>13, ConstAssumption DEF DeleteGroup, IInv, TypeOK, CleanupInv, AddInv, PostAdd, LocalInv, Absent
  <2>. QED  BY <2>1, <2>2, <2>3, <2>4, <2>5, <2>6, <2>7 DEF IInv
<1>14. CASE UNCHANGED vars
  BY <1>14 DEF vars, IInv, TypeOK, LocalInv, DepthInv, AddInv, RaiseInv, CleanupInv
<1>. QED  BY <1>1, <1>2, <1>3, <1>4, <1>5, <1>6, <1>7, <1>8, <1>9, <1>10,
             <1>11, <1>12, <1>13, <1>14 DEF Next, CallStep, NewUser, NewComputer

(* IInv holds in every state of every behaviour.                           *)
LEMMA IInvAlways == Spec => []IInv
<1>1. Init => IInv
  BY IInvInit
<1>2. IInv /\ [Next]_vars => IInv'
  BY IInvNextStep
<1>. QED  BY <1>1, <1>2, PTL DEF Spec

(***************************************************************************)
(* Over a local database and over LDAP alike, every caller that is back   *)
(* at idle has closed every transaction it opened (newuser's and          *)
(* setpassword's) and holds no lock, and the lock is only ever held by a *)
(* caller inside newuser.                                                   *)
(***************************************************************************)
THEOREM TypeCorrect == Spec => []TypeOK
BY IInvAlways, PTL DEF IInv

(***************************************************************************)
(* A newuser or newcomputer that fails after its add leaves no account of *)
(* its own at its DN, unless the compensating delete in                    *)
(* _CleanUpOnError itself failed, over a local database (the cancel drops *)
(* the add) and over LDAP (the delete removed it, and other callers only  *)
(* put their own entries there).                                           *)
(***************************************************************************)
(* The step FailedCreateLeavesNoAccount constrains.                         *)
FailedCreateStep ==
  \A c \in Clients :
     (/\ pc[c] # "idle" /\ pc'[c] = "idle" /\ created[c]
      /\ reported'[c] \notin {"none", "delete"})
        => store'[call[c].n].by # c

THEOREM CleanupLeavesNoAccount == Spec => FailedCreateLeavesNoAccount
<1>1. ASSUME IInv, [Next]_vars, NEW c \in Clients,
             pc[c] # "idle", pc'[c] = "idle", created[c],
             reported'[c] \notin {"none", "delete"}
      PROVE  store'[call[c].n].by # c
  <2>1. CASE Cancel(c)
    <3>1. store' = store /\ reported' = reported /\ call' = call
      BY <2>1 DEF Cancel, TxnCancel
    <3>. QED  BY <1>1, <2>1, <3>1 DEF Cancel, IInv, CleanupInv
  <2>2. CASE Commit(c)
    BY <1>1, <2>2 DEF Commit, IInv, RaiseInv, Unraised
  <2>3. CASE ~Cancel(c) /\ ~Commit(c)
    <3>1. pc' = pc
      <4>1. ASSUME NEW d \in Clients, NEW n \in Names, NEW unix \in BOOLEAN,
                   NEW pw \in BOOLEAN, NEW en \in BOOLEAN, StartCall(d, n, unix, pw, en)
            PROVE  FALSE
        BY <1>1, <4>1 DEF StartCall, IInv, TypeOK
      <4>2. ASSUME NEW d \in Clients,
                   \/ Add(d) \/ ModifyUnix(d) \/ SetPassword(d) \/ SetPasswordModify(d)
                   \/ EnableAccount(d) \/ SetPasswordCancel(d) \/ CleanUpOnError(d)
                   \/ Cancel(d) \/ Commit(d)
            PROVE  FALSE
        <5>1. d = c
          BY <1>1, <4>2 DEF Add, ModifyUnix, SetPassword, SetPasswordModify,
             EnableAccount, SetPasswordCancel, CleanUpOnError, Cancel, Commit,
             IInv, TypeOK
        <5>2. pc'[c] # "idle"
          BY <1>1, <2>3, <4>2, <5>1 DEF Add, AfterAdd, ModifyUnix, SetPassword,
             SetPasswordModify, EnableAccount, SetPasswordCancel, CleanUpOnError,
             IInv, TypeOK
        <5>. QED  BY <1>1, <5>2
      <4>3. ASSUME NEW d \in Clients, NEW n \in Names,
                   DeleteUser(d, n) \/ NewGroup(d, n) \/ DeleteGroup(d, n)
            PROVE  pc' = pc
        BY <4>3 DEF DeleteUser, NewGroup, DeleteGroup
      <4>. QED  BY <4>1, <4>2, <4>3, <1>1 DEF Next, CallStep, NewUser, NewComputer, vars
    <3>. QED  BY <1>1, <3>1
  <2>. QED  BY <2>1, <2>2, <2>3
<1>2. IInv /\ [Next]_vars => [FailedCreateStep]_vars
  BY <1>1 DEF FailedCreateStep
<1>. QED  BY <1>2, IInvAlways, PTL DEF Spec, FailedCreateLeavesNoAccount, FailedCreateStep

(* The step WritesOwnAccountOnly constrains.                               *)
WritesOwnStep ==
  \A c \in Clients :
     LET n == call[c].n
     IN (\/ pc[c] = "pwmod" /\ pc'[c] = "enable"
         \/ pc[c] = "enable" /\ pc'[c] = "commit"
         \/ pc[c] = "cleanup" /\ View[n] # Absent /\ View'[n] = Absent)
          => View[n].by = c

(***************************************************************************)
(* Over a local database, for any number of callers and DNs, newuser's   *)
(* setpassword modify, its enable_account and the delete of               *)
(* _CleanUpOnError all act on the account newuser itself added: the lock *)
(* its transaction_start took keeps every other caller from deleting it  *)
(* or creating another entry at its DN before the commit or the cancel.  *)
(***************************************************************************)
THEOREM LocalWritesOwnAccount ==
  ASSUME ~Ldap
  PROVE  Spec => WritesOwnAccountOnly
<1>1. IInv => WritesOwnStep
  <2> SUFFICES ASSUME IInv, NEW c \in Clients,
                      pc[c] \in {"pwmod", "enable", "cleanup"}
               PROVE  View[call[c].n].by = c
    BY DEF WritesOwnStep
  <2>. QED  BY DEF IInv, LocalInv, PostAdd, View
<1>2. IInv /\ [Next]_vars => [WritesOwnStep]_vars
  BY <1>1
<1>. QED  BY <1>2, IInvAlways, PTL DEF Spec, WritesOwnAccountOnly, WritesOwnStep
=============================================================================
