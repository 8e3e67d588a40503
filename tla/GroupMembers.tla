---------------------------- MODULE GroupMembers ----------------------------
(***************************************************************************)
(* SamDB.add_remove_group_members (src/python/samba/samdb.py): adding or  *)
(* removing a list of members, each named by a SID string, a DN or a      *)
(* short name, to or from one group.                                       *)
(*                                                                         *)
(* The call opens a transaction, reads the group's member attribute once  *)
(* (with extended DNs), resolves every reference, decides for each one   *)
(* with _is_member against that one snapshot whether to emit "add:" or    *)
(* "delete:", and sends all of them as one modify.  The store applies a   *)
(* modify atomically and rejects adding a present value or deleting an    *)
(* absent one; any exception cancels the transaction.                     *)
(*                                                                         *)
(* Over a local database, transaction_start takes the store's exclusive   *)
(* lock; over LDAP there is no transaction (the comment in _CleanUpOnError *)
(* says so), so the read and the modify of two callers may interleave.    *)
(* The constant Transactional selects which.                               *)
(***************************************************************************)
EXTENDS Naturals, Sequences, FiniteSets

CONSTANTS
  Principals,     \* directory objects that can be members
  HasSid,         \* the principals with an objectSid (contacts have none)
  NameOf,         \* the short name each principal is found by
  Groups,         \* the groups
  Clients,        \* callers of add_remove_group_members
  Forms,          \* the reference forms callers use, a subset of AllForms
  MaxRefs,        \* most references in one call
  Transactional,  \* TRUE for a local database, FALSE over LDAP
  None            \* no SID, no lock holder

(***************************************************************************)
(* How a caller may name a member:                                         *)
(*   "sid"    its SID string, S-1-5-21-...                                 *)
(*   "dn"     its DN, spelled as the directory stores it                   *)
(*   "dnAlt"  its DN spelled otherwise (case, spacing, or relative to the *)
(*            domain and completed by normalize_dn_in_domain)             *)
(*   "ext"    an extended DN <SID=...>;CN=...                              *)
(*   "name"   its short name (sAMAccountName, or name for a contact)      *)
(*   "guid"   its GUID string                                              *)
(***************************************************************************)
AllForms == {"sid", "dn", "dnAlt", "ext", "name", "guid"}

ASSUME ConstAssumption ==
  /\ HasSid \subseteq Principals
  /\ DOMAIN NameOf = Principals
  /\ Forms \subseteq AllForms
  /\ MaxRefs \in Nat \ {0}
  /\ Transactional \in BOOLEAN
  /\ None \notin Principals \cup Clients
  /\ Groups # {}          \* the record of a call not running names a group

Refs == {r \in [form : Forms, who : Principals] : r.form = "sid" => r.who \in HasSid}
RefSeqs == UNION {[1..k -> Refs] : k \in 1..MaxRefs}
Ops == {"add", "remove"}

(* The record of a call that is not running.                               *)
NoCall == [g |-> CHOOSE g \in Groups : TRUE, op |-> "add", refs |-> <<>>,
           result |-> "none"]

VARIABLES
  members,    \* the member attribute of each group, as the store holds it
  lock,       \* the client holding the store's transaction lock, or None
  pc,         \* "idle" or "searched": the group is read, the modify not sent
  call,       \* each client's current or last call and its result
  emit,       \* indices of the references the pending modify adds or deletes
  expected    \* history: each group as the successful calls asked it to be

vars == <<members, lock, pc, call, emit, expected>>

TypeOK ==
  /\ members \in [Groups -> SUBSET Principals]
  /\ expected \in [Groups -> SUBSET Principals]
  /\ pc \in [Clients -> {"idle", "searched"}]
  /\ lock \in {c \in Clients : pc[c] = "searched"} \cup {None}
  /\ \A c \in Clients :
       /\ call[c].g \in Groups /\ call[c].op \in Ops
       /\ call[c].refs \in RefSeqs \cup {<<>>}
       /\ call[c].result \in {"none", "ok", "failed"}
  /\ emit \in [Clients -> SUBSET (1..MaxRefs)]
-----------------------------------------------------------------------------
(***************************************************************************)
(* Resolving one reference (the loop body, lines 485-519).  A SID string  *)
(* becomes <SID=...> and is compared by SID; a DN is used as the string   *)
(* extended_str(1) gives, which for a plain DN is the DN as spelled; a    *)
(* short name is looked up and yields the stored DN, failing when no      *)
(* object or several objects match.  There is no GUID branch: a GUID      *)
(* string is not a DN and is searched as a short name, which finds        *)
(* nothing.  The key abstracts the targetmember_dn string: two keys are   *)
(* equal exactly when the strings are.                                     *)
(***************************************************************************)
NameMatches(ref) == {q \in Principals : NameOf[q] = NameOf[ref.who]}

Resolves(ref) ==
  /\ ref.form # "guid"
  /\ ref.form = "name" => NameMatches(ref) = {ref.who}

MemberKey(ref) == IF ref.form = "name" THEN <<"dn", ref.who>> ELSE <<ref.form, ref.who>>

MemberSid(ref) == IF ref.form = "sid" THEN ref.who ELSE None

(* Variants of _is_member with one comparison dropped, for mutation      *)
(* testing: matching by DN string only, and by SID only.                  *)
IsMemberByDnOnly(snap, key, sid) == \E m \in snap : key = <<"dn", m>>

IsMemberBySidOnly(snap, key, sid) == \E m \in snap : m \in HasSid /\ sid = m

(***************************************************************************)
(* _is_member: a stored member value is an extended DN; it matches when   *)
(* it carries a SID equal to the candidate's SID, or when its plain DN    *)
(* (str of the parsed value, the stored spelling) equals the candidate's  *)
(* targetmember_dn string.                                                 *)
(***************************************************************************)
IsMember(snap, key, sid) ==
  \E m \in snap : (m \in HasSid /\ sid = m) \/ key = <<"dn", m>>

(* The principals a call names, all of which it means to add or remove.   *)
Named(refs) == {refs[i].who : i \in DOMAIN refs}

(* How the group is meant to look once a call of op naming refs is done.  *)
Intended(set, op, refs) ==
  IF op = "add" THEN set \cup Named(refs) ELSE set \ Named(refs)

(* Whether the member loop emits a change for reference ref against the   *)
(* group snapshot snap: "add:" for a non-member, "delete:" for a member.  *)
Emits(snap, op, ref) ==
  LET isMember == IsMember(snap, MemberKey(ref), MemberSid(ref))
  IN IF op = "add" THEN ~isMember ELSE isMember

(* Some reference raises (not found, several found) in the member loop.   *)
ResolveError(refs) == \E i \in DOMAIN refs : ~Resolves(refs[i])

Init ==
  /\ members = [g \in Groups |-> {}]
  /\ expected = members
  /\ lock = None
  /\ pc = [c \in Clients |-> "idle"]
  /\ call = [c \in Clients |-> NoCall]
  /\ emit = [c \in Clients |-> {}]

(* transaction_start: over a local database it waits for the lock.       *)
CanStart(c) == pc[c] = "idle" /\ (Transactional => lock = None)

(***************************************************************************)
(* Client c calls add_remove_group_members(g, refs, op) and a reference   *)
(* does not resolve: the exception cancels the transaction, nothing is    *)
(* written.                                                                *)
(***************************************************************************)
CallRejected(c, g, op, refs) ==
  /\ CanStart(c)
  /\ ResolveError(refs)
  /\ call' = [call EXCEPT ![c] = [g |-> g, op |-> op, refs |-> refs, result |-> "failed"]]
  /\ UNCHANGED <<members, lock, pc, emit, expected>>

(***************************************************************************)
(* Every reference resolves and each is already (add) or not (remove) a   *)
(* member of the snapshot: modified stays False, no modify is sent and    *)
(* the transaction commits.                                                *)
(***************************************************************************)
CallUnmodified(c, g, op, refs) ==
  /\ CanStart(c)
  /\ ~ResolveError(refs)
  /\ \A i \in DOMAIN refs : ~Emits(members[g], op, refs[i])
  /\ call' = [call EXCEPT ![c] = [g |-> g, op |-> op, refs |-> refs, result |-> "ok"]]
  /\ expected' = [expected EXCEPT ![g] = Intended(@, op, refs)]
  /\ UNCHANGED <<members, lock, pc, emit>>

(***************************************************************************)
(* Every reference resolves and some emit a change: the group has been    *)
(* read and the modify is built, to be sent by a later step.  Over LDAP   *)
(* other clients may write the group in between.                           *)
(***************************************************************************)
CallSearched(c, g, op, refs) ==
  /\ CanStart(c)
  /\ ~ResolveError(refs)
  /\ emit' = [emit EXCEPT ![c] = {i \in DOMAIN refs : Emits(members[g], op, refs[i])}]
  /\ emit'[c] # {}
  /\ call' = [call EXCEPT ![c] = [g |-> g, op |-> op, refs |-> refs, result |-> "none"]]
  /\ pc' = [pc EXCEPT ![c] = "searched"]
  /\ lock' = IF Transactional THEN c ELSE lock
  /\ UNCHANGED <<members, expected>>

(* The principals the pending modify of c adds or deletes.                 *)
Targets(c) == {call[c].refs[i].who : i \in emit[c]}

(***************************************************************************)
(* The store applies a modify atomically and refuses it when it adds a    *)
(* value twice or one already present, or deletes one that is absent.    *)
(***************************************************************************)
ModifyAccepted(c) ==
  LET g == call[c].g
  IN /\ Cardinality(Targets(c)) = Cardinality(emit[c])
     /\ IF call[c].op = "add" THEN Targets(c) \cap members[g] = {}
                              ELSE Targets(c) \subseteq members[g]

(* The failure path of the modify without transaction_cancel, for         *)
(* mutation testing.                                                       *)
ModifyRejectedNoCancel(c) ==
  /\ pc[c] = "searched"
  /\ ~ModifyAccepted(c)
  /\ call' = [call EXCEPT ![c].result = "failed"]
  /\ pc' = [pc EXCEPT ![c] = "idle"]
  /\ emit' = [emit EXCEPT ![c] = {}]
  /\ UNCHANGED <<members, lock, expected>>

(***************************************************************************)
(* modify_ldif succeeds: the members are added or deleted and the         *)
(* transaction commits, releasing the lock.                                *)
(***************************************************************************)
Modify(c) ==
  LET g == call[c].g
  IN /\ pc[c] = "searched"
     /\ ModifyAccepted(c)
     /\ members' = [members EXCEPT ![g] = IF call[c].op = "add" THEN @ \cup Targets(c)
                                                                  ELSE @ \ Targets(c)]
     /\ expected' = [expected EXCEPT ![g] = Intended(@, call[c].op, call[c].refs)]
     /\ call' = [call EXCEPT ![c].result = "ok"]
     /\ pc' = [pc EXCEPT ![c] = "idle"]
     /\ emit' = [emit EXCEPT ![c] = {}]
     /\ lock' = IF Transactional THEN None ELSE lock

(***************************************************************************)
(* modify_ldif raises: the bare except cancels the transaction, releasing *)
(* the lock, and re-raises; nothing was written.                           *)
(***************************************************************************)
ModifyRejected(c) ==
  /\ pc[c] = "searched"
  /\ ~ModifyAccepted(c)
  /\ call' = [call EXCEPT ![c].result = "failed"]
  /\ pc' = [pc EXCEPT ![c] = "idle"]
  /\ emit' = [emit EXCEPT ![c] = {}]
  /\ lock' = IF Transactional THEN None ELSE lock
  /\ UNCHANGED <<members, expected>>

Next ==
  \E c \in Clients :
     \/ \E g \in Groups, op \in Ops, refs \in RefSeqs :
           \/ CallRejected(c, g, op, refs)
           \/ CallUnmodified(c, g, op, refs)
           \/ CallSearched(c, g, op, refs)
     \/ Modify(c)
     \/ ModifyRejected(c)

Spec == Init /\ [][Next]_vars
-----------------------------------------------------------------------------
(***************************************************************************)
(* A reference names an object: as the spec reads it, every form does     *)
(* when the principal exists, except a short name shared by several.     *)
(***************************************************************************)
NamesObject(ref) == ref.form = "name" => NameMatches(ref) = {ref.who}

(***************************************************************************)
(* Each group holds exactly the members the successful calls asked for,  *)
(* applied in the order they took effect: a call that reports success    *)
(* added (removed) every principal it named, whichever form named it,    *)
(* and no write was lost to another caller's stale snapshot.              *)
(***************************************************************************)
MembersMatchIntent == members = expected

(***************************************************************************)
(* add_remove_group_members fails only when some reference names no      *)
(* object or several, or when one call names the same principal twice    *)
(* (the code emits the change twice and the store refuses the second).   *)
(* Adding a present member or removing an absent one is a no-op that    *)
(* succeeds when the member is named by SID, by DN as stored or by short *)
(* name (a differently spelled DN, an extended DN or a GUID can fail).    *)
(***************************************************************************)
FailsOnlyOnBadRef ==
  \A c \in Clients :
     LET refs == call[c].refs
     IN call[c].result = "failed" =>
          \/ \E i \in DOMAIN refs : ~NamesObject(refs[i])
          \/ \E i, j \in DOMAIN refs : i # j /\ refs[i].who = refs[j].who
=============================================================================
