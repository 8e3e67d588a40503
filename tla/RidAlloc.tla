------------------------------ MODULE RidAlloc ------------------------------
(***************************************************************************)
(* The RID pool allocator of SamDB (src/python/samba/samdb.py).           *)
(*                                                                         *)
(* Every domain controller (a member of Servers) owns a RID Set object    *)
(* holding three stored attributes:                                        *)
(*   rIDAllocationPool          the newest pool the RID master gave it,   *)
(*   rIDPreviousAllocationPool  the pool it is consuming,                 *)
(*   rIDNextRID                 the last RID it handed out.               *)
(* A pool is one 64-bit integer hi<<32 | lo; an absent pool reads as      *)
(* 2^64-1 and an absent rIDNextRID as 2^32-1 (free_rid_bounds).           *)
(*                                                                         *)
(* free_rid_bounds computes the next RID from the three attributes; the   *)
(* allocator that consumes it (dsdb allocate_rid, outside src/) stores    *)
(* the advanced rIDPreviousAllocationPool and rIDNextRID in the same      *)
(* transaction, and the RID master hands out fresh disjoint pools.  Both  *)
(* of those are modelled from the spec.                                    *)
(*                                                                         *)
(* The 32-bit width is a constant: Two32 stands for 2^32, a smaller power *)
(* of two in the models, so the sentinels keep their place at the top.    *)
(***************************************************************************)
EXTENDS Naturals

CONSTANTS
  Servers,     \* the domain controllers, each with its own RID Set
  Two32,       \* 2^w for the RID width w (2^32 in the code)
  PoolSize,    \* number of RIDs the RID master puts in one pool
  RidStart,    \* first RID the RID master hands out
  RidCeiling   \* last RID the RID master may hand out

Uint32Max == Two32 - 1              \* uint32_max in free_rid_bounds
Uint64Max == Two32 * Two32 - 1      \* uint64_max in free_rid_bounds
Rid       == 0..Uint32Max
PoolWord  == 0..Uint64Max

ASSUME WidthAssumption == Two32 \in Nat \ {0, 1}
ASSUME PowerAssumption == \E w \in 1..Two32 : Two32 = 2^w
ASSUME PoolAssumption  == PoolSize \in Nat \ {0}
ASSUME RangeAssumption == /\ RidStart \in 1..Uint32Max
                          /\ RidCeiling \in RidStart..Uint32Max

(* The encoding hi<<32 | lo of a pool and its two halves.                 *)
PoolValue(lo, hi) == hi * Two32 + lo
PoolLo(p) == p % Two32              \* pool & uint32_max
PoolHi(p) == p \div Two32           \* pool >> 32

VARIABLES
  allocPool,   \* rIDAllocationPool of each server
  prevPool,    \* rIDPreviousAllocationPool of each server
  nextRid,     \* rIDNextRID of each server
  ridAvail,    \* first RID the RID master has not yet handed out
  issued       \* history: how many times each RID has been allocated

vars == <<allocPool, prevPool, nextRid, ridAvail, issued>>

TypeOK ==
  /\ allocPool \in [Servers -> PoolWord]
  /\ prevPool \in [Servers -> PoolWord]
  /\ nextRid \in [Servers -> Rid]
  /\ ridAvail \in RidStart..(RidCeiling + 1)
  /\ issued \in [Rid -> Nat]

(***************************************************************************)
(* Variants of free_rid_bounds with a plausible bug each, for mutation     *)
(* testing of the properties below: the pool-exhausted check dropped, and *)
(* an off-by-one that treats the last RID of a pool as already used.      *)
(***************************************************************************)
FreeRidBoundsNoExhaustCheck(a, p, n) ==
  LET firstUse  == p = Uint64Max \/ n = Uint32Max
      p1        == IF firstUse THEN a ELSE p
      n1        == IF firstUse THEN PoolLo(a) ELSE n + 1
      exhausted == n1 > PoolHi(p1)
      p2        == IF exhausted THEN a ELSE p1
      n2        == IF exhausted THEN PoolLo(a) ELSE n1
      err       == IF a = Uint64Max THEN "BadRidSet"
                   ELSE IF n2 < PoolLo(p2) \/ n2 > PoolHi(p2) THEN "BadRidChosen"
                   ELSE "None"
  IN [err |-> err, rid |-> n2, hi |-> PoolHi(p2), prev |-> p2]

FreeRidBoundsEarlyPromote(a, p, n) ==
  LET firstUse  == p = Uint64Max \/ n = Uint32Max
      p1        == IF firstUse THEN a ELSE p
      n1        == IF firstUse THEN PoolLo(a) ELSE n + 1
      exhausted == n1 >= PoolHi(p1)
      p2        == IF exhausted THEN a ELSE p1
      n2        == IF exhausted THEN PoolLo(a) ELSE n1
      err       == IF a = Uint64Max THEN "BadRidSet"
                   ELSE IF exhausted /\ a = p1 THEN "OutOfRids"
                   ELSE IF n2 < PoolLo(p2) \/ n2 > PoolHi(p2) THEN "BadRidChosen"
                   ELSE "None"
  IN [err |-> err, rid |-> n2, hi |-> PoolHi(p2), prev |-> p2]

(***************************************************************************)
(* free_rid_bounds(a, p, n): the RID it returns for allocation pool a,    *)
(* previous pool p and next RID n, with the pool it is taken from, or the *)
(* error it raises.  The three error paths are, in order: no allocation   *)
(* pool ("Bad RID Set"), the previous pool is used up and no new pool was *)
(* provisioned ("RID pools out of RIDs"), and the chosen RID lies outside *)
(* its pool ("Bad RID chosen").                                            *)
(***************************************************************************)
FreeRidBounds(a, p, n) ==
  LET firstUse  == p = Uint64Max \/ n = Uint32Max
      p1        == IF firstUse THEN a ELSE p
      n1        == IF firstUse THEN PoolLo(a) ELSE n + 1
      exhausted == n1 > PoolHi(p1)
      p2        == IF exhausted THEN a ELSE p1
      n2        == IF exhausted THEN PoolLo(a) ELSE n1
      err       == IF a = Uint64Max THEN "BadRidSet"
                   ELSE IF exhausted /\ a = p1 THEN "OutOfRids"
                   ELSE IF n2 < PoolLo(p2) \/ n2 > PoolHi(p2) THEN "BadRidChosen"
                   ELSE "None"
  IN [err |-> err, rid |-> n2, hi |-> PoolHi(p2), prev |-> p2]

Init ==
  /\ allocPool = [s \in Servers |-> Uint64Max]
  /\ prevPool = [s \in Servers |-> Uint64Max]
  /\ nextRid = [s \in Servers |-> Uint32Max]
  /\ ridAvail = RidStart
  /\ issued = [r \in Rid |-> 0]

(***************************************************************************)
(* Server s allocates a RID: free_rid_bounds on its stored attributes,    *)
(* then the advanced previous pool and next RID are stored in the same    *)
(* transaction.  A call that raises changes nothing.                       *)
(***************************************************************************)
AllocateRid(s) ==
  LET res == FreeRidBounds(allocPool[s], prevPool[s], nextRid[s])
  IN /\ res.err = "None"
     /\ prevPool' = [prevPool EXCEPT ![s] = res.prev]
     /\ nextRid' = [nextRid EXCEPT ![s] = res.rid]
     /\ issued' = [issued EXCEPT ![res.rid] = @ + 1]
     /\ UNCHANGED <<allocPool, ridAvail>>

(* The RID master without its ceiling check, for mutation testing.        *)
ProvisionPoolNoCeiling(s) ==
  /\ allocPool[s] = Uint64Max \/ allocPool[s] = prevPool[s]
  /\ allocPool' = [allocPool EXCEPT ![s] = PoolValue(ridAvail, ridAvail + PoolSize - 1)]
  /\ ridAvail' = ridAvail + PoolSize
  /\ UNCHANGED <<prevPool, nextRid, issued>>

(***************************************************************************)
(* The RID master gives server s a fresh pool of PoolSize RIDs when s has *)
(* no pool yet or is already consuming the one it was last given.          *)
(***************************************************************************)
ProvisionPool(s) ==
  /\ allocPool[s] = Uint64Max \/ allocPool[s] = prevPool[s]
  /\ ridAvail + PoolSize - 1 <= RidCeiling
  /\ allocPool' = [allocPool EXCEPT ![s] = PoolValue(ridAvail, ridAvail + PoolSize - 1)]
  /\ ridAvail' = ridAvail + PoolSize
  /\ UNCHANGED <<prevPool, nextRid, issued>>

Next == \E s \in Servers : AllocateRid(s) \/ ProvisionPool(s)

Spec == Init /\ [][Next]_vars

-----------------------------------------------------------------------------
(* The RIDs of the pool word p, empty for an absent pool.                  *)
PoolRids(p) == IF p = Uint64Max THEN {} ELSE PoolLo(p)..PoolHi(p)

(* RIDs a RID Set with allocation pool a, previous pool p and next RID n  *)
(* may still hand out without asking the RID master.                       *)
UnconsumedOf(a, p, n) ==
  (IF p = Uint64Max \/ n = Uint32Max THEN {} ELSE (n + 1)..PoolHi(p))
  \cup (IF a = p THEN {} ELSE PoolRids(a))

Unconsumed(s) == UnconsumedOf(allocPool[s], prevPool[s], nextRid[s])

(***************************************************************************)
(* No RID is ever allocated twice, by the same server or by two servers:  *)
(* the objectSids built from them are unique domain-wide.                 *)
(***************************************************************************)
UniqueRids == \A r \in Rid : issued[r] <= 1

(***************************************************************************)
(* No RID is lost: every RID the RID master has handed out is either     *)
(* allocated already or still ahead of some server's cursor.  A server    *)
(* that moved to a new pool before using up the old one would lose RIDs. *)
(***************************************************************************)
NoRidLeaked ==
  \A r \in RidStart..(ridAvail - 1) :
     issued[r] = 0 => \E s \in Servers : r \in Unconsumed(s)

-----------------------------------------------------------------------------
(***************************************************************************)
(* The refinement mapping: the RID master's cursor is the abstract grant  *)
(* cursor and the allocation history is the abstract one.  The pools,     *)
(* previous pools and next RIDs of the RID Sets have no abstract          *)
(* counterpart.                                                            *)
(***************************************************************************)
Abs == INSTANCE RidAllocAbstract WITH RidSpace <- Rid, granted <- ridAvail

(***************************************************************************)
(* The pool allocator implements the abstract allocator: every            *)
(* free_rid_bounds result that allocate_rid stores is a RID the RID       *)
(* master granted and nobody handed out before, and every pool the RID    *)
(* master provisions only raises the grant cursor, up to the ceiling.     *)
(***************************************************************************)
AbstractAllocator == Abs!Spec
=============================================================================
