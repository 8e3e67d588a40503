------------------------ MODULE GroupMembersProofs ------------------------
(***************************************************************************)
(* Proofs about GroupMembers, for every directory, set of groups and set  *)
(* of callers: type correctness over a local database and over LDAP, and *)
(* that no membership change is lost over a local database when members  *)
(* are named by SID, by DN as stored or by short name.                    *)
(***************************************************************************)
EXTENDS GroupMembers, FiniteSetTheorems, TLAPS

(* The record of a call, as the callers' steps write it.                   *)
CallRecs == [g : Groups, op : Ops, refs : RefSeqs \cup {<<>>},
             result : {"none", "ok", "failed"}]

(***************************************************************************)
(* TypeOK strengthened so that it is inductive: the call records are     *)
(* records, an idle caller has no pending changes and a searched one's   *)
(* are indices of its references, and over LDAP nobody takes the lock.  *)
(***************************************************************************)
TypeInv ==
  /\ TypeOK
  /\ call \in [Clients -> CallRecs]
  /\ \A c \in Clients : pc[c] = "idle" => emit[c] = {}
  /\ \A c \in Clients : emit[c] \subseteq DOMAIN call[c].refs
  /\ ~Transactional => lock = None

(* A sequence of references a caller passes: its indices and its items.  *)
LEMMA RefSeqFacts ==
  ASSUME NEW refs \in RefSeqs
  PROVE  /\ DOMAIN refs \subseteq 1..MaxRefs
         /\ \A i \in DOMAIN refs : refs[i] \in Refs /\ refs[i].who \in Principals
<1>1. PICK k \in 1..MaxRefs : refs \in [1..k -> Refs]
  BY DEF RefSeqs
<1>. QED  BY <1>1, ConstAssumption DEF Refs

(* The principals a pending modify names are principals.                   *)
LEMMA TargetsType ==
  ASSUME TypeInv, NEW c \in Clients
  PROVE  /\ Targets(c) \subseteq Principals
         /\ Named(call[c].refs) \subseteq Principals
<1>1. call[c].refs \in RefSeqs \/ call[c].refs = <<>>
  BY DEF TypeInv, CallRecs
<1>2. CASE call[c].refs \in RefSeqs
  BY <1>2, RefSeqFacts DEF TypeInv, Targets, Named
<1>3. CASE call[c].refs = <<>>
  BY <1>3 DEF TypeInv, Targets, Named
<1>. QED  BY <1>1, <1>2, <1>3

LEMMA TypeInvInit == Init => TypeInv
BY ConstAssumption DEF Init, TypeInv, TypeOK, CallRecs, NoCall, Ops

LEMMA TypeInvNext ==
  ASSUME TypeInv, [Next]_vars
  PROVE  TypeInv'
<1>1. ASSUME NEW c \in Clients, NEW g \in Groups, NEW op \in Ops,
             NEW refs \in RefSeqs, CallRejected(c, g, op, refs)
      PROVE  TypeInv'
  BY <1>1 DEF CallRejected, CanStart, TypeInv, TypeOK, CallRecs
<1>2. ASSUME NEW c \in Clients, NEW g \in Groups, NEW op \in Ops,
             NEW refs \in RefSeqs, CallUnmodified(c, g, op, refs)
      PROVE  TypeInv'
  <2>1. Named(refs) \subseteq Principals
    BY RefSeqFacts DEF Named
  <2>. QED  BY <1>2, <2>1 DEF CallUnmodified, CanStart, TypeInv, TypeOK, CallRecs, Intended
<1>3. ASSUME NEW c \in Clients, NEW g \in Groups, NEW op \in Ops,
             NEW refs \in RefSeqs, CallSearched(c, g, op, refs)
      PROVE  TypeInv'
  <2>1. DOMAIN refs \subseteq 1..MaxRefs
    BY RefSeqFacts
  <2>. QED  BY <1>3, <2>1 DEF CallSearched, CanStart, TypeInv, TypeOK, CallRecs
<1>4. ASSUME NEW c \in Clients, Modify(c) PROVE TypeInv'
  <2>1. Targets(c) \subseteq Principals /\ Named(call[c].refs) \subseteq Principals
    BY TargetsType
  <2>. QED  BY <1>4, <2>1 DEF Modify, TypeInv, TypeOK, CallRecs, Intended
<1>5. ASSUME NEW c \in Clients, ModifyRejected(c) PROVE TypeInv'
  BY <1>5 DEF ModifyRejected, TypeInv, TypeOK, CallRecs
<1>6. CASE UNCHANGED vars
  BY <1>6 DEF vars, TypeInv, TypeOK
<1>. QED  BY <1>1, <1>2, <1>3, <1>4, <1>5, <1>6 DEF Next

(***************************************************************************)
(* Over a local database and over LDAP alike, the groups hold principals, *)
(* every call record names a group, an operation, a sequence of at most  *)
(* MaxRefs references and a result, and the lock is free or held by a    *)
(* caller between its search and its modify.                               *)
(***************************************************************************)
THEOREM TypeCorrect == Spec => []TypeOK
<1>1. Init => TypeInv
  BY TypeInvInit
<1>2. TypeInv /\ [Next]_vars => TypeInv'
  BY TypeInvNext
<1>3. TypeInv => TypeOK
  BY DEF TypeInv
<1>. QED  BY <1>1, <1>2, <1>3, PTL DEF Spec

(***************************************************************************)
(* A caller between its search and its modify holds the lock, and the     *)
(* changes it will send are still those the member loop computes against *)
(* the group as it is now: nobody wrote the group since the search.      *)
(***************************************************************************)
PendingInv ==
  \A c \in Clients :
     pc[c] = "searched" =>
        /\ lock = c
        /\ call[c].refs \in RefSeqs
        /\ emit[c] = {i \in DOMAIN call[c].refs :
                        Emits(members[call[c].g], call[c].op, call[c].refs[i])}

(* The inductive invariant behind MembersMatchIntent.                       *)
IInv ==
  /\ TypeInv
  /\ MembersMatchIntent
  /\ PendingInv

(* The reference forms _is_member matches reliably: a SID string, a DN as *)
(* the directory stores it, and a short name (resolved to the stored DN). *)
ExactForms == Forms \subseteq {"sid", "dn", "name"}

(***************************************************************************)
(* With those forms _is_member finds a principal in a group's member list *)
(* exactly when it is there: by SID for a SID string (a principal named  *)
(* by SID has one), by the stored DN string otherwise.                    *)
(***************************************************************************)
LEMMA IsMemberExact ==
  ASSUME ExactForms, NEW ref \in Refs, NEW snap \in SUBSET Principals
  PROVE  IsMember(snap, MemberKey(ref), MemberSid(ref)) <=> ref.who \in snap
<1>1. CASE ref.form = "sid"
  BY <1>1, ConstAssumption DEF IsMember, MemberKey, MemberSid, Refs
<1>2. CASE ref.form \in {"dn", "name"}
  BY <1>2, ConstAssumption DEF IsMember, MemberKey, MemberSid, Refs
<1>. QED  BY <1>1, <1>2 DEF ExactForms, Refs

(* Hence the loop emits a change for a reference exactly when the change  *)
(* is needed.                                                               *)
LEMMA EmitsExact ==
  ASSUME ExactForms, NEW ref \in Refs, NEW snap \in SUBSET Principals, NEW op \in Ops
  PROVE  Emits(snap, op, ref) <=> IF op = "add" THEN ref.who \notin snap
                                                ELSE ref.who \in snap
BY IsMemberExact DEF Emits

(***************************************************************************)
(* The modify a caller sends, built from a snapshot that is still        *)
(* current, turns the group into what the call asks for: the references  *)
(* it skipped are those already as asked.                                 *)
(***************************************************************************)
LEMMA PendingModifyExact ==
  ASSUME ExactForms, IInv, NEW c \in Clients, pc[c] = "searched"
  PROVE  LET g == call[c].g
             op == call[c].op
         IN  (IF op = "add" THEN members[g] \cup Targets(c) ELSE members[g] \ Targets(c))
               = Intended(members[g], op, call[c].refs)
<1> DEFINE g == call[c].g
           op == call[c].op
           refs == call[c].refs
<1>1. /\ refs \in RefSeqs /\ g \in Groups /\ op \in Ops
      /\ members[g] \subseteq Principals
      /\ emit[c] = {i \in DOMAIN refs : Emits(members[g], op, refs[i])}
  BY DEF IInv, PendingInv, TypeInv, TypeOK, CallRecs
<1>2. \A i \in DOMAIN refs :
         i \in emit[c] <=> IF op = "add" THEN refs[i].who \notin members[g]
                                         ELSE refs[i].who \in members[g]
  BY <1>1, RefSeqFacts, EmitsExact
<1>3. Targets(c) \subseteq Named(refs)
  BY <1>1 DEF Targets, Named
<1>4. CASE op = "add"
  <2>1. Named(refs) \subseteq members[g] \cup Targets(c)
    BY <1>2, <1>4 DEF Named, Targets
  <2>. QED  BY <1>3, <2>1, <1>4 DEF Intended
<1>5. CASE op = "remove"
  <2>1. Targets(c) \subseteq members[g]
    BY <1>1, <1>2, <1>5 DEF Targets
  <2>2. members[g] \cap Named(refs) \subseteq Targets(c)
    BY <1>2, <1>5 DEF Named, Targets
  <2>. QED  BY <1>3, <2>1, <2>2, <1>5 DEF Intended
<1>. QED  BY <1>1, <1>4, <1>5 DEF Ops

(* While the lock is free no caller is between its search and its modify. *)
LEMMA FreeLockNoneSearched ==
  ASSUME PendingInv, lock = None, NEW d \in Clients
  PROVE  pc[d] # "searched"
BY ConstAssumption DEF PendingInv

(* While c is between its search and its modify, nobody else is.           *)
LEMMA SearchedAlone ==
  ASSUME PendingInv, NEW c \in Clients, pc[c] = "searched",
         NEW d \in Clients \ {c}
  PROVE  pc[d] # "searched"
BY DEF PendingInv

LEMMA IInvInit == Init => IInv
<1>. SUFFICES ASSUME Init PROVE IInv
  OBVIOUS
<1>1. TypeInv
  BY TypeInvInit
<1>2. MembersMatchIntent
  BY DEF Init, MembersMatchIntent
<1>3. PendingInv
  BY DEF Init, PendingInv
<1>. QED  BY <1>1, <1>2, <1>3 DEF IInv

LEMMA IInvNext ==
  ASSUME ExactForms, Transactional, IInv, [Next]_vars
  PROVE  IInv'
<1>0. TypeInv'
  BY TypeInvNext DEF IInv
<1>1. ASSUME NEW c \in Clients, NEW g \in Groups, NEW op \in Ops,
             NEW refs \in RefSeqs, CallRejected(c, g, op, refs)
      PROVE  IInv'
  <2>1. lock = None /\ UNCHANGED <<members, lock, pc, emit, expected>>
    BY <1>1 DEF CallRejected, CanStart
  <2>2. \A d \in Clients : pc[d] # "searched"
    BY <2>1, FreeLockNoneSearched DEF IInv
  <2>3. PendingInv'
    BY <2>1, <2>2 DEF PendingInv
  <2>. QED  BY <1>0, <2>1, <2>3 DEF IInv, MembersMatchIntent
<1>2. ASSUME NEW c \in Clients, NEW g \in Groups, NEW op \in Ops,
             NEW refs \in RefSeqs, CallUnmodified(c, g, op, refs)
      PROVE  IInv'
  <2>1. /\ lock = None /\ UNCHANGED <<members, lock, pc, emit>>
        /\ \A i \in DOMAIN refs : ~Emits(members[g], op, refs[i])
        /\ expected' = [expected EXCEPT ![g] = Intended(@, op, refs)]
    BY <1>2 DEF CallUnmodified, CanStart
  <2>2. \A d \in Clients : pc[d] # "searched"
    BY <2>1, FreeLockNoneSearched DEF IInv
  <2>3. PendingInv'
    BY <2>1, <2>2 DEF PendingInv
  <2>4. members[g] \subseteq Principals /\ members = expected
    BY DEF IInv, TypeInv, TypeOK, MembersMatchIntent
  <2>5. \A i \in DOMAIN refs : IF op = "add" THEN refs[i].who \in members[g]
                                             ELSE refs[i].who \notin members[g]
    BY <2>1, <2>4, RefSeqFacts, EmitsExact
  <2>6. Intended(members[g], op, refs) = members[g]
    BY <2>5 DEF Intended, Named
  <2>7. MembersMatchIntent'
    BY <2>1, <2>4, <2>6 DEF MembersMatchIntent, IInv, TypeInv, TypeOK
  <2>. QED  BY <1>0, <2>3, <2>7 DEF IInv
<1>3. ASSUME NEW c \in Clients, NEW g \in Groups, NEW op \in Ops,
             NEW refs \in RefSeqs, CallSearched(c, g, op, refs)
      PROVE  IInv'
  <2>1. /\ lock = None /\ lock' = c /\ pc'[c] = "searched"
        /\ UNCHANGED <<members, expected>>
        /\ emit' = [emit EXCEPT ![c] = {i \in DOMAIN refs : Emits(members[g], op, refs[i])}]
        /\ call' = [call EXCEPT ![c] = [g |-> g, op |-> op, refs |-> refs, result |-> "none"]]
        /\ pc' = [pc EXCEPT ![c] = "searched"]
    BY <1>3 DEF CallSearched, CanStart, IInv, TypeInv, TypeOK
  <2>2. \A d \in Clients : pc[d] # "searched"
    BY <2>1, FreeLockNoneSearched DEF IInv
  <2>3. PendingInv'
    BY <2>1, <2>2 DEF PendingInv, IInv, TypeInv, TypeOK
  <2>. QED  BY <1>0, <2>1, <2>3 DEF IInv, MembersMatchIntent
<1>4. ASSUME NEW c \in Clients, Modify(c) PROVE IInv'
  <2> DEFINE g == call[c].g
  <2>1. /\ pc[c] = "searched" /\ pc' = [pc EXCEPT ![c] = "idle"]
        /\ members' = [members EXCEPT ![g] = IF call[c].op = "add" THEN @ \cup Targets(c)
                                                                     ELSE @ \ Targets(c)]
        /\ expected' = [expected EXCEPT ![g] = Intended(@, call[c].op, call[c].refs)]
    BY <1>4 DEF Modify
  <2>2. \A d \in Clients : pc'[d] # "searched"
    BY <2>1, SearchedAlone DEF IInv, TypeInv, TypeOK
  <2>3. PendingInv'
    BY <2>2 DEF PendingInv
  <2>4. (IF call[c].op = "add" THEN members[g] \cup Targets(c) ELSE members[g] \ Targets(c))
          = Intended(members[g], call[c].op, call[c].refs)
    BY <2>1, PendingModifyExact
  <2>5. MembersMatchIntent'
    BY <2>1, <2>4 DEF MembersMatchIntent, IInv
  <2>. QED  BY <1>0, <2>3, <2>5 DEF IInv
<1>5. ASSUME NEW c \in Clients, ModifyRejected(c) PROVE IInv'
  <2>1. /\ pc[c] = "searched" /\ pc' = [pc EXCEPT ![c] = "idle"]
        /\ UNCHANGED <<members, expected>>
    BY <1>5 DEF ModifyRejected
  <2>2. \A d \in Clients : pc'[d] # "searched"
    BY <2>1, SearchedAlone DEF IInv, TypeInv, TypeOK
  <2>3. PendingInv'
    BY <2>2 DEF PendingInv
  <2>. QED  BY <1>0, <2>1, <2>3 DEF IInv, MembersMatchIntent
<1>6. CASE UNCHANGED vars
  BY <1>0, <1>6 DEF vars, IInv, MembersMatchIntent, PendingInv
<1>. QED  BY <1>1, <1>2, <1>3, <1>4, <1>5, <1>6 DEF Next

(***************************************************************************)
(* Over a local database, where transaction_start takes the store's lock *)
(* (samdb.py: add_remove_group_members wraps the search and the modify in *)
(* one transaction), and with members named by SID, stored DN or short   *)
(* name, no membership change is lost: each group holds exactly what the *)
(* successful calls asked for, in the order they took effect.  With     *)
(* other spellings of a DN the run gm_dn_spelling shows that it fails.   *)
(***************************************************************************)
THEOREM LocalMembersMatchIntent ==
  ASSUME Transactional, ExactForms
  PROVE  Spec => []MembersMatchIntent
<1>1. Init => IInv
  BY IInvInit
<1>2. IInv /\ [Next]_vars => IInv'
  BY IInvNext
<1>3. IInv => MembersMatchIntent
  BY DEF IInv
<1>. QED  BY <1>1, <1>2, <1>3, PTL DEF Spec
-----------------------------------------------------------------------------
(***************************************************************************)
(* When no two references of a call name the same principal, the modify  *)
(* holds as many values as the loop emitted changes: the map from an     *)
(* emitted index to the principal it names is a bijection.               *)
(***************************************************************************)
LEMMA TargetsCount ==
  ASSUME TypeInv, NEW c \in Clients,
         \A i, j \in DOMAIN call[c].refs :
            i # j => call[c].refs[i].who # call[c].refs[j].who
  PROVE  Cardinality(Targets(c)) = Cardinality(emit[c])
<1> DEFINE f == [i \in emit[c] |-> call[c].refs[i].who]
<1>1. emit[c] \subseteq DOMAIN call[c].refs /\ emit[c] \subseteq 1..MaxRefs
  BY DEF TypeInv, TypeOK
<1>2. IsFiniteSet(emit[c])
  <2>1. IsFiniteSet(1..MaxRefs)
    BY ConstAssumption, FS_Interval
  <2>. QED  BY <1>1, <2>1, FS_Subset
<1>3. f \in Bijection(emit[c], Targets(c))
  <2>1. f \in [emit[c] -> Targets(c)]
    BY DEF Targets
  <2>2. IsInjective(f)
    BY <1>1 DEF IsInjective
  <2>3. \A t \in Targets(c) : \E i \in emit[c] : f[i] = t
    BY DEF Targets
  <2>. QED  BY <2>1, <2>2, <2>3 DEF Bijection, Injection, Surjection
<1>. QED  BY <1>2, <1>3, FS_Bijection DEF ExistsBijection

(***************************************************************************)
(* Under the lock and with exact forms, the values a pending modify adds *)
(* are all absent from the group and those it deletes all present.        *)
(***************************************************************************)
LEMMA PendingTargetsFit ==
  ASSUME ExactForms, IInv, NEW c \in Clients, pc[c] = "searched"
  PROVE  IF call[c].op = "add" THEN Targets(c) \cap members[call[c].g] = {}
                               ELSE Targets(c) \subseteq members[call[c].g]
<1> DEFINE g == call[c].g
           op == call[c].op
           refs == call[c].refs
<1>1. /\ refs \in RefSeqs /\ g \in Groups /\ op \in Ops
      /\ members[g] \subseteq Principals
      /\ emit[c] = {i \in DOMAIN refs : Emits(members[g], op, refs[i])}
  BY DEF IInv, PendingInv, TypeInv, TypeOK, CallRecs
<1>2. \A i \in emit[c] : IF op = "add" THEN refs[i].who \notin members[g]
                                       ELSE refs[i].who \in members[g]
  BY <1>1, RefSeqFacts, EmitsExact
<1>. QED  BY <1>2 DEF Targets

(* A reference set that names no object or names a principal twice.       *)
BadRefs(refs) ==
  \/ \E i \in DOMAIN refs : ~NamesObject(refs[i])
  \/ \E i, j \in DOMAIN refs : i # j /\ refs[i].who = refs[j].who

(* The invariant that carries FailsOnlyOnBadRef.                           *)
FailInv == IInv /\ FailsOnlyOnBadRef

LEMMA FailInvNext ==
  ASSUME ExactForms, Transactional, FailInv, [Next]_vars
  PROVE  FailInv'
<1>1. IInv'
  BY IInvNext DEF FailInv
<1>. SUFFICES ASSUME NEW d \in Clients, call'[d].result = "failed"
              PROVE  BadRefs(call'[d].refs)
  BY <1>1 DEF FailInv, FailsOnlyOnBadRef, BadRefs
<1>2. \A e \in Clients : call[e].result = "failed" => BadRefs(call[e].refs)
  BY DEF FailInv, FailsOnlyOnBadRef, BadRefs
<1>3. ASSUME NEW c \in Clients, NEW g \in Groups, NEW op \in Ops,
             NEW refs \in RefSeqs, CallRejected(c, g, op, refs)
      PROVE  BadRefs(call'[d].refs)
  <2>1. CASE d = c
    <3>1. call'[d].refs = refs /\ ResolveError(refs)
      BY <1>3, <2>1 DEF CallRejected, FailInv, IInv, TypeInv
    <3>2. PICK i \in DOMAIN refs : ~Resolves(refs[i])
      BY <3>1 DEF ResolveError
    <3>3. refs[i].form # "guid"
      BY RefSeqFacts DEF ExactForms, Refs
    <3>. QED  BY <3>1, <3>2, <3>3 DEF Resolves, NamesObject, BadRefs
  <2>2. CASE d # c
    BY <1>2, <1>3, <2>2 DEF CallRejected
  <2>. QED  BY <2>1, <2>2
<1>4. ASSUME NEW c \in Clients, NEW g \in Groups, NEW op \in Ops,
             NEW refs \in RefSeqs, CallUnmodified(c, g, op, refs)
      PROVE  BadRefs(call'[d].refs)
  BY <1>2, <1>4 DEF CallUnmodified
<1>5. ASSUME NEW c \in Clients, NEW g \in Groups, NEW op \in Ops,
             NEW refs \in RefSeqs, CallSearched(c, g, op, refs)
      PROVE  BadRefs(call'[d].refs)
  BY <1>2, <1>5 DEF CallSearched
<1>6. ASSUME NEW c \in Clients, Modify(c) PROVE BadRefs(call'[d].refs)
  BY <1>2, <1>6 DEF Modify, FailInv, IInv, TypeInv, CallRecs
<1>7. ASSUME NEW c \in Clients, ModifyRejected(c) PROVE BadRefs(call'[d].refs)
  <2>1. call' = [call EXCEPT ![c].result = "failed"]
    BY <1>7 DEF ModifyRejected
  <2>2. CASE d # c
    BY <1>2, <2>1, <2>2 DEF FailInv, IInv, TypeInv, CallRecs
  <2>3. CASE d = c
    <3>1. call'[d].refs = call[c].refs
      BY <2>1, <2>3 DEF FailInv, IInv, TypeInv, CallRecs
    <3>2. pc[c] = "searched" /\ ~ModifyAccepted(c)
      BY <1>7 DEF ModifyRejected
    <3>3. IF call[c].op = "add" THEN Targets(c) \cap members[call[c].g] = {}
                                ELSE Targets(c) \subseteq members[call[c].g]
      BY <3>2, PendingTargetsFit DEF FailInv
    <3>4. Cardinality(Targets(c)) # Cardinality(emit[c])
      BY <3>2, <3>3 DEF ModifyAccepted
    <3>5. \E i, j \in DOMAIN call[c].refs :
             i # j /\ call[c].refs[i].who = call[c].refs[j].who
      BY <3>4, TargetsCount DEF FailInv, IInv
    <3>. QED  BY <3>1, <3>5 DEF BadRefs
  <2>. QED  BY <2>2, <2>3
<1>8. CASE UNCHANGED vars
  BY <1>2, <1>8 DEF vars
<1>. QED  BY <1>3, <1>4, <1>5, <1>6, <1>7, <1>8 DEF Next

(***************************************************************************)
(* Over a local database and with members named by SID, stored DN or     *)
(* short name, add_remove_group_members fails only when a reference names *)
(* no object or several, or when one call names a principal twice: a     *)
(* present member added or an absent one removed never makes it fail.    *)
(***************************************************************************)
THEOREM LocalFailsOnlyOnBadRef ==
  ASSUME Transactional, ExactForms
  PROVE  Spec => []FailsOnlyOnBadRef
<1>1. Init => FailInv
  BY IInvInit DEF Init, FailInv, FailsOnlyOnBadRef, NoCall
<1>2. FailInv /\ [Next]_vars => FailInv'
  BY FailInvNext
<1>3. FailInv => FailsOnlyOnBadRef
  BY DEF FailInv
<1>. QED  BY <1>1, <1>2, <1>3, PTL DEF Spec
=============================================================================
