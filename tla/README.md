# TLA+ models of SamDB's RID allocator, group membership and account creation

This directory holds TLA+ specifications of the parts of
`src/python/samba/samdb.py` that carry state across steps and callers. It also
holds TLC configurations that model-check them, and TLAPS proofs about the RID
allocator. `PROJECT.json` lists every component, run, mutant, hazard and finding,
and maps each definition to the source lines it translates.

## The system and its parts

`SamDB` is the Python front end to a Samba AD directory. It reaches the directory
either as a local database file (ldb/tdb) or over LDAP. Four parts of it hold the
hard logic:

| Part | Code | Modules |
|---|---|---|
| RID pool allocator | `free_rid_bounds`, `next_free_rid`, `allocate_rid` (1542-1649) | `RidAllocAbstract`, `RidAlloc`, `RidAllocProofs` |
| Group membership engine | `add_remove_group_members`, `_is_member`, `group_member_filter` (317-560) | `GroupMembers` |
| Account creation with transactional wrapper | `newuser`, `newcomputer`, `setpassword`, `enable_account`, `_CleanUpOnError`, `deleteuser`, `newgroup`, `deletegroup` | `PrincipalCreate`, `PrincipalCrash` |
| Account control flags | `disable_account`, `enable_account`, `toggle_userAccountFlags`, `setexpiry` (133-196, 1019-1059) | `AccountControl`, `AccountControlProofs` |

The parts interact only through the directory:

- Account creation yields the principals that group calls name and whose flags the account-control calls change.
- The RID allocator (inside the store, during an add) hands out the RIDs of their objectSids.

Each module therefore models one part, with the store reduced to what that part
reads and writes. The `MC*` modules give the constants model values for TLC.

These parts are not modelled, and `PROJECT.json` gives the reasons:

- the other single-write account operations (`unlock_account`, `newcontact`, the password-policy setters, ...);
- the DN string helpers (`normalize_dn_in_domain`, `dsdb_Dn`);
- schema loading (`schema.py`);
- the waf build probes (`samba_conftests.py`).

## RidAlloc: the RID pool allocator

Each server has a RID Set with three stored attributes:

- `allocPool` models `rIDAllocationPool`;
- `prevPool` models `rIDPreviousAllocationPool`;
- `nextRid` models `rIDNextRID`.

A pool is the 64-bit word `hi<<32 | lo`. Absent attributes read as the sentinels `2^64-1` and `2^32-1`.

- `FreeRidBounds(a, p, n)` is `free_rid_bounds` translated line by line: the
  first-use branch, the promotion to the new pool, and the three errors in the
  code's order.
- The width is the constant `Two32` (2^w). The models use w = 4, so the sentinels
  keep their place at the top of the range.
- `AllocateRid(s)` is what `allocate_rid` does with that result. It stores the
  advanced previous pool and next RID in the same transaction, as the spec
  requires. The allocator is C code outside `src/`.
- `ProvisionPool(s)` is the RID master. It is modelled from the spec: it gives a
  fresh, disjoint pool to a server that has none or is consuming its last one.
- The history variable `issued` counts how often each RID was handed out.

Properties:

- `UniqueRids`: no RID is issued twice.
- `NoRidLeaked`: every RID the master handed out is issued or still ahead of some server's cursor.
- `AbstractAllocator`: the allocator implements `RidAllocAbstract`. That module is
  the promise without pools: the RID master raises a grant cursor up to its
  ceiling, and each allocation hands out one granted RID never handed out before.
  The refinement mapping sends `ridAvail` to the grant cursor and keeps `issued`.
  The pools, previous pools and next RIDs have no abstract counterpart.

Runs:

- **rid_alloc** (pass, 243 states). Two servers and pools of 3 over 4-bit RIDs.
  The RID master stops at 14, so every server runs through first use, promotion,
  exhaustion and "out of RIDs". All three invariants and the refinement hold.
- **rid_top** (violation). The same with the ceiling at 15 = 2^4-1. The last pool
  ends at the sentinel: after RID 15, `free_rid_bounds` sees `rIDNextRID = 2^w-1`,
  takes it for "unused" and restarts at 13, so `UniqueRids` fails. Real RID
  masters stop far below 2^32-1, so this is latent. The spec does not state the
  bound it relies on.

## GroupMembers: the membership engine

The state is:

- `members`, each group's member attribute;
- `lock`, the local database's transaction lock;
- each caller's `pc`, `call` and `emit`;
- the history variable `expected`.

One call of `add_remove_group_members` is up to two steps:

1. `CallRejected`, `CallUnmodified` or `CallSearched`. This step is
   `transaction_start`, the group search, and the whole member loop over one
   snapshot. It ends in one of three ways: a resolution error that cancels, no
   change (commit), or a pending modify.
2. `Modify` or `ModifyRejected`. The store applies the modify atomically, or
   refuses it when it adds a present value, deletes an absent one, or names one
   value twice.

A reference to a member has one of these forms:

- a SID string;
- a DN spelled as stored;
- a DN spelled otherwise (`dnAlt`);
- an extended DN (`ext`);
- a short name;
- a GUID string.

`MemberKey` and `MemberSid` give the `targetmember_dn` and `membersid` the loop
computes for each form. `IsMember` is `_is_member`: a match by SID, or by exact DN
string. The constant `Transactional` chooses a local database or LDAP, where
`transaction_start` isolates nothing.

Properties:

- `MembersMatchIntent`: the groups are what the successful calls, in their order, asked for.
- `FailsOnlyOnBadRef`: a call fails only on a reference that names no object or several, or on a principal named twice. The forms it is checked with are the SID and short name, and the theorem adds the stored DN; a differently spelled or extended DN, or a GUID, can make a call fail, as gm_dn_spelling and the note below show.

Runs:

- **gm_local** (pass, about 13k states, 20 s). Two callers over a local database.
  The directory has a user, a contact (no SID) sharing the user's name, and a
  second user, so that short names are sometimes ambiguous. Calls use SID and
  name references, up to 2 per call.
- **gm_dn_spelling** (violation of `MembersMatchIntent`). A removal through a
  differently spelled DN reports success and removes nothing.

No run checks the LDAP mode against `MembersMatchIntent`. Over LDAP a call that
overlaps another still leaves a result that some serial order of the two would
give, and the code makes no isolation promise there: its comment says LDAP has
no transactions. The LDAP mode is covered by `TypeCorrect`.

A GUID member reference is searched as a name and fails (line 507), although
the spec allows GUIDs. The model has the `guid` form, but no run checks it; the
runs are spent on the divergences above.

## PrincipalCreate: account creation and the transaction wrapper

The state is:

- `store`, the published directory: DN to absent, account (disabled or enabled) or group, with the caller that made it;
- `work`, the local transaction's working copy;
- `depth`, the nesting counter of each caller;
- `lock`;
- each caller's `pc` and `call`;
- `created` and `reported`, the exception the call propagates. A later exception
  replaces an earlier one, so a failing compensating delete masks the root cause.

The transaction semantics come from the store (ldb, outside `src/`) and are
marked spec-modelled. Transactions nest by a counter. Only the outermost start
(taking the lock), commit (publishing) and cancel (dropping the copy) act. Over
LDAP every write is published at once.

`newuser` is the chain of steps:

1. `NewUser` (outer start; `StartCall` with the account to be added disabled);
2. `Add`;
3. `ModifyUnix`;
4. `SetPassword` (nested start and search);
5. `SetPasswordModify`;
6. `EnableAccount` (toggle flags and nested commit);
7. `Commit`.

The failure path is `SetPasswordCancel`, then `CleanUpOnError` (the delete in
`__exit__`), then `Cancel`. `newcomputer` (`NewComputer`) is the same chain without the RFC2307
modify. Without `prepare_oldjoin` it stops after the add, which leaves the account
disabled. With `prepare_oldjoin` the add writes the account enabled (the code sets
only `UF_WORKSTATION_TRUST_ACCOUNT`), and setpassword follows with its
enable_account, which writes nothing. `deleteuser`, `newgroup` and `deletegroup` are single steps by idle
callers. `CallStep(c)` is the disjunction of the steps of a call in progress.

**Liveness.** No liveness property is checked. Every call is a finite chain of
blocking store calls. Over LDAP no step waits, so under weak fairness every
call returns whatever the code does. Over a local database a started call holds
the lock until it returns, so the same holds. A caller waiting to start would
need strong fairness of the store's lock, which tdb does not promise.

**Crashes.** `PrincipalCrash` adds `Crash(c)`: the caller dies anywhere inside
newuser. No `except` or `__exit__` runs. A local store drops the open transaction
and frees its lock; over LDAP every write already sent stays.

Properties:

- `TypeOK` includes that a caller back at idle has closed every transaction and holds no lock.
- `FailedCreateLeavesNoAccount` (action): a creation that ends in an exception
  after its add leaves no account of its own, unless the compensating delete
  itself failed.
- `WritesOwnAccountOnly` (action): after its add, the password modify, the enable
  and the cleanup delete of a newuser all land on the account it added.

Runs (one DN and two callers, who create, delete and re-create accounts and
groups at that DN):

- **pc_local** (pass, 1966 states). Local database: `TypeOK` and
  `WritesOwnAccountOnly`. The lock held from the outer start to the commit keeps
  other callers off the DN.
- **pc_ldap** (pass, 10068 states): `FailedCreateLeavesNoAccount` over LDAP.
- **pc_dn_reuse** (violation of `WritesOwnAccountOnly`). Over LDAP caller 2
  deletes caller 1's half-made account and creates its own at that DN. Caller 1's
  setpassword and enable_account then find that account by DN, or its cleanup
  deletes it.
- **pc_crash** (violation of `CrashLeavesNoPartialAccount`, under `CrashSpec`).
  The property says that a caller dying after its add leaves its account only
  when nothing but the commit was left to run. Over LDAP a newuser with RFC2307
  attributes dies after the add and before the RFC2307 modify. A disabled
  account without those attributes stays. The spec asks for all-or-nothing
  operations. Over a local database the property holds: the store drops the open
  transaction.

setpassword's transaction nests in newuser's (line 984). The spec forbids
nesting; the store counts it, and the inner cancel rolls nothing back. The model
has this nesting and `TypeOK` checks it unwinds, but no run flags it as a
divergence.

## AccountControl: the userAccountControl flags

The state is:

- `uac`, the stored flags (disabled, password-not-required, don't-expire);
- `lock`;
- each caller's `pc`, `op` (the update), `old` (the value its search read) and `outcome`;
- the history variable `intended`: the successful updates applied in the order they wrote.

`ToggleUserAccountFlags` is the search together with strict mode's errors and the
early return. `DisableAccount` and `EnableAccount` are instances of it.
`ToggleModify` is the "delete: old / add: new" modify. It fails when the stored
value changed since the search (the attribute is single-valued), so it acts as a
compare-and-swap. `SetExpiry` is setexpiry's `transaction_start` and search;
`SetExpiryWrite` is its replace and commit. Over a local database setexpiry
holds the lock across the two, and a lone modify waits for it.

Property: `UacMatchesIntent`, no update is lost.

Runs (two callers, every initial flag set):

- **ac_local** (pass, 9062 states): `TypeOK`, `UacMatchesIntent`.
- **ac_ldap** (violation of `UacMatchesIntent`). setexpiry searches, then a
  toggle of another caller lands, and setexpiry's replace writes the value it
  read back. The toggle is undone. The initial flags are chosen by `Init`, so the
  trace TLC prints depends on the search order. One trace starts enabled, and a
  disable_account is undone: the account is enabled again. Another starts
  disabled, and an enable_account is undone: the account is disabled again.

## Mutants

Every property of a passing run is paired in `PROJECT.json` with a mutant of the
code it is about, and TLC finds the property broken by that mutant:

- free_rid_bounds without the exhaustion check breaks `UniqueRids` and `AbstractAllocator`.
- free_rid_bounds with `>=` for `>` breaks `NoRidLeaked`: every pool loses its last RID.
- The RID master without its ceiling breaks `TypeOK`.
- `_is_member` without the SID comparison breaks `MembersMatchIntent`.
- `_is_member` without the DN comparison breaks `FailsOnlyOnBadRef`.
- A rejected modify without `transaction_cancel` breaks `TypeOK`.
- newuser's `except` without `transaction_cancel` breaks `TypeOK`.
- `_CleanUpOnError` without the delete breaks `FailedCreateLeavesNoAccount`.
- newgroup not waiting for the local lock breaks `WritesOwnAccountOnly`.
- setexpiry without its commit breaks `TypeOK`.
- The toggles sending a plain replace breaks `UacMatchesIntent`.

## Bounds

Every model uses two callers, the least that makes interleavings and stale
snapshots possible.

- **RidAlloc.** A width of 4 bits with pools of 3 gives each server at least two
  pools, and lets the ceiling sit just below or at the sentinel.
- **GroupMembers.** One group suffices, because calls on different groups touch
  disjoint state. Three principals cover a SID-less contact, an ambiguous name
  and a second resolvable user. Two references per call are needed for a
  repeated principal and for the stale-skip anomaly.
- **PrincipalCreate.** One DN suffices, because every race in it is about two
  callers at the same DN.
- **AccountControl.** One account. Three flags let each caller's update touch a
  bit the other's does not.

## Proofs

`RidAllocProofs` proves four theorems. Each holds for every set of servers and
every width, pool size and RID range that satisfies the module's ASSUMEs.

- `THEOREM TypeCorrect == Spec => []TypeOK`.
- `THEOREM RidsUnique` proves `Spec => []UniqueRids` under the extra assumption
  `CeilingBelowSentinel` (`RidCeiling < 2^w - 1`); rid_top shows it is needed.
- `THEOREM AllocatorRefinement` proves `Spec => AbstractAllocator` under the same
  assumption.

`UniqueRids` is not inductive, so the proof uses the strengthening `IInv`, which
states:

- `TypeOK`;
- every RID Set is well formed (`RidSetOK`): the previous pool and next RID are both absent or both present; the next RID lies within the previous pool; both pools lie within the handed-out range; a spare pool lies above the previous one;
- every RID a server may still hand out is unissued;
- those sets of two servers are disjoint;
- RIDs the master has not handed out are unissued.

The proof shows `Init => IInv`, and `IInv /\ [Next]_vars => IInv'` with one lemma
per action (`AllocStep` takes the three cases of free_rid_bounds). It then
combines them with PTL. The 32-bit decoding is handled by lemmas on `%` and `\div`
with a symbolic `Two32`.

The refinement proof follows the same invariant:

- The initial states map to abstract initial states.
- `AbsAllocate`: under `IInv`, an `AllocateRid` step is an abstract `Allocate` of
  the RID free_rid_bounds returns. That RID is unconsumed, hence unissued and
  below the grant cursor.
- `AbsGrant`: a `ProvisionPool` step is an abstract `Grant`. The cursor rises by
  the pool size and stays within the ceiling.

A further RidAlloc theorem rests on `IInv` and on `CeilingBelowSentinel`:

- `NoRidLeak`: `Spec => []NoRidLeaked`, with the inductive invariant
  `LeakInv == IInv /\ NoRidLeaked`. Lemma `AllocKeeps` shows that an allocation
  removes from what its server may hand out only the RID it returns. Lemma
  `ProvisionKeeps` shows that a new pool keeps everything and adds its own RIDs.

`AccountControlProofs` proves `THEOREM LocalNoLostUpdate`: over a local database,
`Spec => []UacMatchesIntent`, for any set of callers. Its inductive invariant
adds to `TypeOK` and `UacMatchesIntent` that a caller inside setexpiry holds the
lock and read the current value. This is why the replace writes no stale value:
no toggle modify can land while the lock is held. Over LDAP the last conjunct
fails, and ac_ldap shows the lost update.

`AccountControlProofs` also proves `THEOREM TypeCorrect == Spec => []TypeOK` over
a local database and over LDAP. The strengthening adds `LockInv`: over LDAP no
caller ever holds the lock.

`PrincipalCreateProofs` proves three theorems about newuser/newcomputer, for any
set of callers and DNs. The ASSUME `Names # {}` is needed because the call record
of an idle caller names some DN. The inductive invariant `IInv` is the
conjunction of:

- `TypeOK`;
- `DepthInv`: the transaction nesting depth matches the caller's step;
- `AddInv`: a caller past its add has created its account, and one before it
  has not;
- `RaiseInv`: no error is reported before the step that raises it;
- over LDAP, nobody holds the lock;
- over a local database (`LocalInv`), five facts:
  - a caller is inside a transaction exactly when it holds the lock;
  - with the lock free, the working copy is the store;
  - before its add, a caller's working copy is still the store;
  - while a caller that created an account is inside its transaction, the
    committed store has no object at that DN;
  - after the add, the working copy holds an account that this caller created;
- `CleanupInv`: a cancelled creation whose add succeeded, and whose delete was
  not reported, has left no account of its own in the store.

TLC checked `IInv` as an invariant before it was proved: with 2 callers and
2 DNs, locally and over LDAP, and with 3 callers and 1 DN over LDAP.

The three theorems:

- `TypeCorrect`: `Spec => []TypeOK`.
- `CleanupLeavesNoAccount`: `Spec => FailedCreateLeavesNoAccount`. The action
  property follows from `CleanupInv` at the cancel step.
- `LocalWritesOwnAccount`: under `~Ldap`, `Spec => WritesOwnAccountOnly`. The
  password, enable and cleanup steps write only the DN whose account `LocalInv`
  says the caller created. pc_dn_reuse shows it fails over LDAP.

`GroupMembersProofs` proves three theorems for any directory, set of groups and
callers, and reference bound. The ASSUME `Groups # {}` is needed because an idle
caller's record names some group.

- `TypeCorrect`: `Spec => []TypeOK`, over both stores. Its strengthening `TypeInv`
  adds three facts: call records are records; an idle caller has no pending
  changes; pending changes index the caller's references.
- `LocalMembersMatchIntent`: under `Transactional` and
  `Forms \subseteq {"sid", "dn", "name"}`, `Spec => []MembersMatchIntent`.

The inductive invariant of `LocalMembersMatchIntent` is
`TypeInv /\ MembersMatchIntent /\ PendingInv`. `PendingInv` says that a caller
between its search and its modify holds the lock, and that its pending changes
are still what the member loop computes against the current group. The argument
rests on three lemmas:

- `IsMemberExact`: with those forms, `_is_member` finds a principal exactly when
  it is a member.
- `EmitsExact`: hence a change is emitted exactly when it is needed.
- `PendingModifyExact`: hence the modify turns the group into
  `Intended(members, op, refs)`.

The lock keeps the snapshot current; `SearchedAlone` says that only one caller
can be between search and modify. gm_dn_spelling shows that the hypothesis on
the forms is needed. Without the lock, the snapshot can be stale when the
modify is sent.

`LocalFailsOnlyOnBadRef`, under the same hypotheses, proves
`Spec => []FailsOnlyOnBadRef` with the invariant `IInv /\ FailsOnlyOnBadRef`.

- A rejected call has a reference that does not resolve. Without GUID strings,
  that is a short name shared by several objects.
- A refused modify needs a reason. By `PendingTargetsFit`, under the lock the
  values it adds are all absent and those it deletes all present. So the store
  can refuse it only for a repeated value.
- `TargetsCount` shows that distinct references give as many values as emitted
  changes. Its proof applies `FS_Bijection` (FiniteSetTheorems) to the map from
  an emitted index to the principal it names.

What stays with TLC:

- Liveness: none is stated (see PrincipalCreate), and TLAPS would not handle
  fairness and ENABLED here.
- Nothing recursive is proved.
- Some properties fail in some modes: over LDAP, with other spellings of a DN,
  with DN reuse, or after a crash. Those properties are proved only for the
  modes where they hold. The violation runs show the rest.

## Plan for later work

- Model the group argument's resolution (SID, GUID, DN or name).
- Model `set_attribute_replmetadata_version`: a read-modify-write replace with no transaction.
