--------------------------- MODULE RidAllocProofs ---------------------------
(***************************************************************************)
(* Proofs about the RID pool allocator of RidAlloc, for every number of   *)
(* servers, every width and every pool size.                              *)
(***************************************************************************)
EXTENDS RidAlloc, TLAPS

-----------------------------------------------------------------------------
(* Arithmetic of the pool word hi<<32 | lo.                                *)

LEMMA Two32Facts == Two32 \in Nat /\ Two32 >= 2 /\ Uint32Max \in Nat
                    /\ Uint64Max = Uint32Max * Two32 + Uint32Max
BY WidthAssumption DEF Uint32Max, Uint64Max

(* Both halves of a pool word are 32-bit values.                           *)
LEMMA PoolHalves ==
  ASSUME NEW p \in PoolWord
  PROVE  PoolLo(p) \in Rid /\ PoolHi(p) \in Rid
BY WidthAssumption, Z3 DEF PoolWord, Rid, PoolLo, PoolHi, Uint32Max, Uint64Max

(* Encoding two 32-bit halves gives a pool word, and decoding returns them. *)
LEMMA PoolDecode ==
  ASSUME NEW lo \in Rid, NEW hi \in Rid
  PROVE  /\ PoolValue(lo, hi) \in PoolWord
         /\ PoolLo(PoolValue(lo, hi)) = lo
         /\ PoolHi(PoolValue(lo, hi)) = hi
BY WidthAssumption, Z3
   DEF PoolWord, Rid, PoolValue, PoolLo, PoolHi, Uint32Max, Uint64Max

(* The absent pool 2^64-1 reads as the range [2^32-1, 2^32-1].            *)
LEMMA AbsentPoolHalves ==
  PoolLo(Uint64Max) = Uint32Max /\ PoolHi(Uint64Max) = Uint32Max
<1>1. Uint32Max \in Rid
  BY WidthAssumption DEF Rid, Uint32Max
<1>2. Uint64Max = PoolValue(Uint32Max, Uint32Max)
  BY Two32Facts DEF PoolValue
<1>. QED  BY <1>1, <1>2, PoolDecode

-----------------------------------------------------------------------------
(* Type correctness.                                                       *)

(* Whatever free_rid_bounds returns without an error is a RID of the pool *)
(* it names, and that pool is one of its inputs.                           *)
LEMMA FreeRidBoundsType ==
  ASSUME NEW a \in PoolWord, NEW p \in PoolWord, NEW n \in Rid,
         FreeRidBounds(a, p, n).err = "None"
  PROVE  /\ FreeRidBounds(a, p, n).rid \in Rid
         /\ FreeRidBounds(a, p, n).prev \in {a, p}
<1>. DEFINE res == FreeRidBounds(a, p, n)
<1>1. res.prev \in {a, p}
  BY DEF FreeRidBounds
<1>2. res.rid \in PoolLo(res.prev)..PoolHi(res.prev)
  BY WidthAssumption DEF FreeRidBounds, PoolWord, Rid, PoolLo, PoolHi
<1>3. PoolLo(res.prev) \in Rid /\ PoolHi(res.prev) \in Rid
  BY <1>1, PoolHalves
<1>. QED  BY <1>1, <1>2, <1>3, WidthAssumption DEF Rid, Uint32Max, res

(* Every step keeps the variables in their types.                         *)
LEMMA TypeOKNext == TypeOK /\ [Next]_vars => TypeOK'
<1>. SUFFICES ASSUME TypeOK, [Next]_vars PROVE TypeOK'
  OBVIOUS
<1>1. CASE \E s \in Servers : AllocateRid(s)
  <2>1. PICK s \in Servers : AllocateRid(s)  BY <1>1
  <2>. DEFINE res == FreeRidBounds(allocPool[s], prevPool[s], nextRid[s])
  <2>2. res.rid \in Rid /\ res.prev \in PoolWord
    BY <2>1, FreeRidBoundsType DEF AllocateRid, TypeOK
  <2>. QED  BY <2>1, <2>2 DEF AllocateRid, TypeOK
<1>2. CASE \E s \in Servers : ProvisionPool(s)
  <2>1. PICK s \in Servers : ProvisionPool(s)  BY <1>2
  <2>2. ridAvail \in Rid /\ ridAvail + PoolSize - 1 \in Rid
    BY <2>1, PoolAssumption, RangeAssumption, WidthAssumption
    DEF ProvisionPool, TypeOK, Rid, Uint32Max
  <2>3. PoolValue(ridAvail, ridAvail + PoolSize - 1) \in PoolWord
    BY <2>2, PoolDecode
  <2>. QED  BY <2>1, <2>3, PoolAssumption, RangeAssumption
    DEF ProvisionPool, TypeOK
<1>3. CASE UNCHANGED vars
  BY <1>3 DEF vars, TypeOK
<1>. QED  BY <1>1, <1>2, <1>3 DEF Next

(* The allocator's variables always have their types.                      *)
THEOREM TypeCorrect == Spec => []TypeOK
<1>1. Init => TypeOK
  BY WidthAssumption, RangeAssumption, Two32Facts
  DEF Init, TypeOK, PoolWord, Rid, Uint64Max, Uint32Max
<1>2. TypeOK /\ [Next]_vars => TypeOK'
  BY TypeOKNext
<1>. QED  BY <1>1, <1>2, PTL DEF Spec

-----------------------------------------------------------------------------
(***************************************************************************)
(* Uniqueness of RIDs.  It needs the RID master to stay below 2^32-1: a   *)
(* server that hands out RID 2^32-1 stores it as rIDNextRID, which        *)
(* free_rid_bounds then reads as "no RID used yet" (run rid_top_of_range). *)
(***************************************************************************)
CeilingBelowSentinel == RidCeiling < Uint32Max

(* A RID Set as free_rid_bounds expects it, with every pool below the RID  *)
(* master's cursor m: pools are proper ranges, the previous pool and the  *)
(* next RID are both present or both absent, the next RID lies in the     *)
(* previous pool, and a spare allocation pool lies above the previous one. *)
RidSetOK(a, p, n, m) ==
  /\ a # Uint64Max => RidStart <= PoolLo(a) /\ PoolLo(a) <= PoolHi(a) /\ PoolHi(a) < m
  /\ (p = Uint64Max) <=> (n = Uint32Max)
  /\ p # Uint64Max => RidStart <= PoolLo(p) /\ PoolLo(p) <= n /\ n <= PoolHi(p)
                      /\ PoolHi(p) < m
  /\ a # p /\ a # Uint64Max /\ p # Uint64Max => PoolHi(p) < PoolLo(a)

(***************************************************************************)
(* The inductive invariant: the RIDs a server may still hand out have     *)
(* never been allocated, no two servers may hand out the same RID, and    *)
(* nothing at or above the RID master's cursor has been allocated.        *)
(***************************************************************************)
IInv ==
  /\ TypeOK
  /\ \A s \in Servers : RidSetOK(allocPool[s], prevPool[s], nextRid[s], ridAvail)
  /\ \A s \in Servers : \A r \in Unconsumed(s) : issued[r] = 0
  /\ \A s, t \in Servers : s # t => Unconsumed(s) \cap Unconsumed(t) = {}
  /\ \A r \in ridAvail..Uint32Max : issued[r] = 0
  /\ UniqueRids

(* What a well-formed RID Set may still hand out lies below the cursor.    *)
LEMMA UnconsumedBelow ==
  ASSUME NEW a \in PoolWord, NEW p \in PoolWord, NEW n \in Rid, NEW m \in Nat,
         RidSetOK(a, p, n, m)
  PROVE  UnconsumedOf(a, p, n) \subseteq RidStart..(m - 1)
<1>1. PoolLo(a) \in Rid /\ PoolHi(a) \in Rid /\ PoolLo(p) \in Rid /\ PoolHi(p) \in Rid
  BY PoolHalves
<1>. QED  BY <1>1, WidthAssumption, RangeAssumption
          DEF RidSetOK, UnconsumedOf, PoolRids, Rid, Uint32Max

(***************************************************************************)
(* One successful free_rid_bounds on a well-formed RID Set returns a RID  *)
(* the set could still hand out, and storing the result leaves a          *)
(* well-formed set that can hand out only what it could before, minus     *)
(* that RID.                                                               *)
(***************************************************************************)
LEMMA AllocStep ==
  ASSUME NEW a \in PoolWord, NEW p \in PoolWord, NEW n \in Rid, NEW m \in Nat,
         m <= RidCeiling + 1, CeilingBelowSentinel,
         RidSetOK(a, p, n, m),
         FreeRidBounds(a, p, n).err = "None"
  PROVE  /\ FreeRidBounds(a, p, n).rid \in UnconsumedOf(a, p, n)
         /\ UnconsumedOf(a, FreeRidBounds(a, p, n).prev, FreeRidBounds(a, p, n).rid)
              \subseteq UnconsumedOf(a, p, n) \ {FreeRidBounds(a, p, n).rid}
         /\ RidSetOK(a, FreeRidBounds(a, p, n).prev, FreeRidBounds(a, p, n).rid, m)
<1>. DEFINE res == FreeRidBounds(a, p, n)
<1>1. PoolLo(a) \in Rid /\ PoolHi(a) \in Rid /\ PoolLo(p) \in Rid /\ PoolHi(p) \in Rid
  BY PoolHalves
<1>2. a # Uint64Max
  BY DEF FreeRidBounds
<1>3. RidStart <= PoolLo(a) /\ PoolLo(a) <= PoolHi(a) /\ PoolHi(a) < m
  BY <1>2 DEF RidSetOK
<1>4. m - 1 < Uint32Max
  BY WidthAssumption, RangeAssumption DEF CeilingBelowSentinel, Uint32Max
<1>5. CASE p = Uint64Max \/ n = Uint32Max
  <2>1. p = Uint64Max /\ n = Uint32Max
    BY <1>5 DEF RidSetOK
  <2>2. res.prev = a /\ res.rid = PoolLo(a)
    BY <1>1, <1>2, <1>3, <2>1 DEF FreeRidBounds
  <2>3. UnconsumedOf(a, p, n) = PoolLo(a)..PoolHi(a)
    BY <1>2, <2>1 DEF UnconsumedOf, PoolRids
  <2>4. UnconsumedOf(a, a, PoolLo(a)) = (PoolLo(a) + 1)..PoolHi(a)
    BY <1>1, <1>2, <1>3, <1>4, WidthAssumption DEF UnconsumedOf, Rid, Uint32Max
  <2>5. RidSetOK(a, a, PoolLo(a), m)
    BY <1>1, <1>2, <1>3, <1>4, WidthAssumption DEF RidSetOK, Rid, Uint32Max
  <2>. QED  BY <1>1, <1>3, <2>2, <2>3, <2>4, <2>5 DEF Rid
<1>6. CASE ~(p = Uint64Max \/ n = Uint32Max) /\ n + 1 <= PoolHi(p)
  <2>1. res.prev = p /\ res.rid = n + 1
    BY <1>1, <1>6, WidthAssumption DEF FreeRidBounds, Rid, Uint32Max
  <2>2. n + 1 # Uint32Max
    BY <1>1, <1>4, <1>6, WidthAssumption DEF RidSetOK, Rid, Uint32Max
  <2>3. UnconsumedOf(a, p, n + 1) \subseteq UnconsumedOf(a, p, n) \ {n + 1}
    BY <1>1, <1>6, <2>2, WidthAssumption DEF UnconsumedOf, PoolRids, RidSetOK, Rid, Uint32Max
  <2>4. n + 1 \in UnconsumedOf(a, p, n)
    BY <1>1, <1>6, WidthAssumption DEF UnconsumedOf, Rid, Uint32Max
  <2>5. RidSetOK(a, p, n + 1, m)
    BY <1>1, <1>6, <2>2, WidthAssumption DEF RidSetOK, Rid, Uint32Max
  <2>. QED  BY <2>1, <2>3, <2>4, <2>5
<1>7. CASE ~(p = Uint64Max \/ n = Uint32Max) /\ n + 1 > PoolHi(p)
  <2>1. a # p
    BY <1>7 DEF FreeRidBounds
  <2>2. res.prev = a /\ res.rid = PoolLo(a)
    BY <1>1, <1>3, <1>7 DEF FreeRidBounds, Rid
  <2>3. UnconsumedOf(a, p, n) = PoolLo(a)..PoolHi(a)
    BY <1>1, <1>2, <1>7, <2>1 DEF UnconsumedOf, PoolRids, Rid
  <2>4. UnconsumedOf(a, a, PoolLo(a)) = (PoolLo(a) + 1)..PoolHi(a)
    BY <1>1, <1>2, <1>3, <1>4, WidthAssumption DEF UnconsumedOf, Rid, Uint32Max
  <2>5. RidSetOK(a, a, PoolLo(a), m)
    BY <1>1, <1>2, <1>3, <1>4, WidthAssumption DEF RidSetOK, Rid, Uint32Max
  <2>. QED  BY <1>1, <1>3, <2>2, <2>3, <2>4, <2>5, WidthAssumption DEF Rid, Uint32Max
<1>. QED  BY <1>1, <1>5, <1>6, <1>7, WidthAssumption DEF Rid, Uint32Max

(***************************************************************************)
(* The RID master's new pool [m, m + PoolSize - 1] keeps the RID Set      *)
(* well-formed and adds exactly its own RIDs to what the set may hand out. *)
(***************************************************************************)
LEMMA ProvisionStep ==
  ASSUME NEW a \in PoolWord, NEW p \in PoolWord, NEW n \in Rid, NEW m \in Nat,
         CeilingBelowSentinel, RidStart <= m, m + PoolSize - 1 <= RidCeiling,
         RidSetOK(a, p, n, m),
         a = Uint64Max \/ a = p
  PROVE  /\ RidSetOK(PoolValue(m, m + PoolSize - 1), p, n, m + PoolSize)
         /\ UnconsumedOf(PoolValue(m, m + PoolSize - 1), p, n)
              \subseteq UnconsumedOf(a, p, n) \cup m..(m + PoolSize - 1)
<1>. DEFINE a2 == PoolValue(m, m + PoolSize - 1)
<1>1. m \in Rid /\ m + PoolSize - 1 \in Rid
  BY PoolAssumption, RangeAssumption, WidthAssumption DEF Rid, Uint32Max
<1>2. PoolLo(a2) = m /\ PoolHi(a2) = m + PoolSize - 1 /\ a2 \in PoolWord
  BY <1>1, PoolDecode
<1>3. a2 # Uint64Max
  BY <1>2, AbsentPoolHalves, WidthAssumption, RangeAssumption
  DEF CeilingBelowSentinel, Uint32Max
<1>4. PoolLo(p) \in Rid /\ PoolHi(p) \in Rid
  BY PoolHalves
<1>5. a2 # p
  BY <1>2, <1>3, <1>4 DEF RidSetOK, Rid
<1>6. UnconsumedOf(a, p, n) \cup m..(m + PoolSize - 1)
        = UnconsumedOf(a2, p, n) \cup UnconsumedOf(a, p, n)
  BY <1>2, <1>3, <1>5 DEF UnconsumedOf, PoolRids
<1>7. RidSetOK(a2, p, n, m + PoolSize)
  BY <1>1, <1>2, <1>3, <1>4, PoolAssumption DEF RidSetOK, Rid
<1>. QED  BY <1>6, <1>7

-----------------------------------------------------------------------------
LEMMA IInvInit == Init => IInv
<1>. SUFFICES ASSUME Init PROVE IInv
  OBVIOUS
<1>1. TypeOK
  BY TypeCorrect, WidthAssumption, RangeAssumption, Two32Facts
  DEF Init, TypeOK, PoolWord, Rid, Uint64Max, Uint32Max
<1>2. \A s \in Servers : Unconsumed(s) = {}
  BY DEF Init, Unconsumed, UnconsumedOf
<1>3. \A s \in Servers : RidSetOK(allocPool[s], prevPool[s], nextRid[s], ridAvail)
  BY DEF Init, RidSetOK
<1>4. \A r \in ridAvail..Uint32Max : issued[r] = 0
  BY RangeAssumption DEF Init, Rid
<1>. QED  BY <1>1, <1>2, <1>3, <1>4 DEF Init, IInv, UniqueRids

(***************************************************************************)
(* A successful allocation by s takes a RID from what s may still hand    *)
(* out: it was never allocated, no other server may hand it out, and s    *)
(* may not hand it out again.                                              *)
(***************************************************************************)
LEMMA IInvAllocate ==
  ASSUME CeilingBelowSentinel, IInv, NEW s \in Servers, AllocateRid(s)
  PROVE  IInv'
<1>. DEFINE a == allocPool[s]
            p == prevPool[s]
            n == nextRid[s]
            res == FreeRidBounds(a, p, n)
<1>1. TypeOK'
  BY TypeOKNext DEF IInv, Next
<1>2. /\ a \in PoolWord /\ p \in PoolWord /\ n \in Rid
      /\ ridAvail \in Nat /\ ridAvail <= RidCeiling + 1
  BY RangeAssumption DEF IInv, TypeOK
<1>3. /\ res.err = "None"
      /\ prevPool' = [prevPool EXCEPT ![s] = res.prev]
      /\ nextRid' = [nextRid EXCEPT ![s] = res.rid]
      /\ issued' = [issued EXCEPT ![res.rid] = @ + 1]
      /\ UNCHANGED <<allocPool, ridAvail>>
  BY DEF AllocateRid
<1>4. /\ res.rid \in Unconsumed(s)
      /\ UnconsumedOf(a, res.prev, res.rid) \subseteq Unconsumed(s) \ {res.rid}
      /\ RidSetOK(a, res.prev, res.rid, ridAvail)
  BY <1>2, <1>3, AllocStep DEF IInv, Unconsumed
<1>5. Unconsumed(s)' = UnconsumedOf(a, res.prev, res.rid)
  BY <1>3 DEF IInv, TypeOK, Unconsumed
<1>6. \A t \in Servers \ {s} : Unconsumed(t)' = Unconsumed(t)
  BY <1>3 DEF IInv, TypeOK, Unconsumed
<1>7. res.rid \in RidStart..(ridAvail - 1)
  BY <1>2, <1>4, UnconsumedBelow DEF IInv, Unconsumed
<1>8. issued[res.rid] = 0
  BY <1>4 DEF IInv
<1>9. \A t \in Servers \ {s} : res.rid \notin Unconsumed(t)
  BY <1>4 DEF IInv
<1>10. \A r \in Rid : issued'[r] = IF r = res.rid THEN 1 ELSE issued[r]
  BY <1>3, <1>7, <1>8 DEF IInv, TypeOK, Rid
<1>11. \A t \in Servers :
         RidSetOK(allocPool[t], prevPool[t], nextRid[t], ridAvail)'
  BY <1>3, <1>4 DEF IInv, TypeOK
<1>12. \A t \in Servers : \A r \in Unconsumed(t)' : issued'[r] = 0
  <2>1. SUFFICES ASSUME NEW t \in Servers, NEW r \in Unconsumed(t)'
                 PROVE  issued'[r] = 0
    OBVIOUS
  <2>2. r \in Unconsumed(t) /\ r # res.rid
    BY <1>4, <1>5, <1>6, <1>9
  <2>3. r \in Rid
    <3>1. Unconsumed(t) \subseteq RidStart..(ridAvail - 1)
      BY <1>2, UnconsumedBelow DEF IInv, TypeOK, Unconsumed
    <3>. QED  BY <1>2, <2>2, <3>1, RangeAssumption, WidthAssumption
              DEF Rid, Uint32Max
  <2>. QED  BY <1>10, <2>2, <2>3 DEF IInv
  
<1>13. \A t, u \in Servers : t # u => Unconsumed(t)' \cap Unconsumed(u)' = {}
  BY <1>4, <1>5, <1>6 DEF IInv
<1>14. \A r \in ridAvail'..Uint32Max : issued'[r] = 0
  <2>1. SUFFICES ASSUME NEW r \in ridAvail..Uint32Max PROVE issued'[r] = 0
    BY <1>3
  <2>2. r \in Rid /\ r # res.rid
    BY <1>2, <1>7, RangeAssumption DEF Rid
  <2>. QED  BY <1>10, <2>2 DEF IInv
<1>15. UniqueRids'
  BY <1>8, <1>10 DEF IInv, UniqueRids
<1>. QED  BY <1>1, <1>11, <1>12, <1>13, <1>14, <1>15 DEF IInv

(* A RID Set well-formed below one cursor is well-formed below a later one. *)
LEMMA RidSetOKMono ==
  ASSUME NEW a \in PoolWord, NEW p \in PoolWord, NEW n \in Rid,
         NEW m \in Nat, NEW m2 \in Nat, m <= m2, RidSetOK(a, p, n, m)
  PROVE  RidSetOK(a, p, n, m2)
<1>1. PoolHi(a) \in Rid /\ PoolHi(p) \in Rid
  BY PoolHalves
<1>. QED  BY <1>1, WidthAssumption DEF RidSetOK, Rid, Uint32Max

(***************************************************************************)
(* A new pool from the RID master adds to what s may hand out only RIDs   *)
(* at the master's cursor, which no server may hand out and nobody has    *)
(* allocated.                                                              *)
(***************************************************************************)
LEMMA IInvProvision ==
  ASSUME CeilingBelowSentinel, IInv, NEW s \in Servers, ProvisionPool(s)
  PROVE  IInv'
<1>. DEFINE a == allocPool[s]
            p == prevPool[s]
            n == nextRid[s]
            m == ridAvail
            a2 == PoolValue(m, m + PoolSize - 1)
<1>1. TypeOK'
  BY TypeOKNext DEF IInv, Next
<1>2. /\ a \in PoolWord /\ p \in PoolWord /\ n \in Rid
      /\ m \in Nat /\ RidStart <= m
  BY RangeAssumption DEF IInv, TypeOK
<1>3. /\ a = Uint64Max \/ a = p
      /\ m + PoolSize - 1 <= RidCeiling
      /\ allocPool' = [allocPool EXCEPT ![s] = a2]
      /\ ridAvail' = m + PoolSize
      /\ UNCHANGED <<prevPool, nextRid, issued>>
  BY DEF ProvisionPool
<1>4. /\ RidSetOK(a2, p, n, m + PoolSize)
      /\ UnconsumedOf(a2, p, n) \subseteq Unconsumed(s) \cup m..(m + PoolSize - 1)
  BY <1>2, <1>3, ProvisionStep DEF IInv, Unconsumed
<1>5. Unconsumed(s)' = UnconsumedOf(a2, p, n)
  BY <1>3 DEF IInv, TypeOK, Unconsumed
<1>6. \A t \in Servers \ {s} : Unconsumed(t)' = Unconsumed(t)
  BY <1>3 DEF IInv, TypeOK, Unconsumed
<1>7. \A t \in Servers : Unconsumed(t) \subseteq RidStart..(m - 1)
  BY <1>2, UnconsumedBelow DEF IInv, TypeOK, Unconsumed
<1>8. m..(m + PoolSize - 1) \subseteq m..Uint32Max
  BY <1>2, <1>3, PoolAssumption, RangeAssumption, WidthAssumption DEF Uint32Max
<1>9. \A t \in Servers :
        RidSetOK(allocPool[t], prevPool[t], nextRid[t], ridAvail)'
  <2>1. SUFFICES ASSUME NEW t \in Servers
                 PROVE  RidSetOK(allocPool[t], prevPool[t], nextRid[t], ridAvail)'
    OBVIOUS
  <2>2. CASE t = s
    BY <1>3, <1>4, <2>2 DEF IInv, TypeOK
  <2>3. CASE t # s
    <3>1. RidSetOK(allocPool[t], prevPool[t], nextRid[t], m + PoolSize)
      BY <1>2, PoolAssumption, RidSetOKMono DEF IInv, TypeOK
    <3>. QED  BY <1>3, <2>3, <3>1 DEF IInv, TypeOK
  <2>. QED  BY <2>2, <2>3
<1>10. \A t \in Servers : \A r \in Unconsumed(t)' : issued'[r] = 0
  <2>1. SUFFICES ASSUME NEW t \in Servers, NEW r \in Unconsumed(t)'
                 PROVE  issued[r] = 0
    BY <1>3
  <2>2. CASE r \in Unconsumed(t)
    BY <2>2 DEF IInv
  <2>3. CASE r \notin Unconsumed(t)
    <3>1. t = s /\ r \in m..Uint32Max
      BY <1>4, <1>5, <1>6, <1>8, <2>3
    <3>. QED  BY <3>1 DEF IInv
  <2>. QED  BY <2>2, <2>3
<1>11. \A t, u \in Servers : t # u => Unconsumed(t)' \cap Unconsumed(u)' = {}
  <2>1. SUFFICES ASSUME NEW t \in Servers, NEW u \in Servers, t # u
                 PROVE  Unconsumed(t)' \cap Unconsumed(u)' = {}
    OBVIOUS
  <2>2. CASE t # s /\ u # s
    BY <1>6, <2>1, <2>2 DEF IInv
  <2>3. CASE t = s
    <3>1. Unconsumed(u) \cap (m..(m + PoolSize - 1)) = {}
      BY <1>2, <1>7
    <3>. QED  BY <1>4, <1>5, <1>6, <2>1, <2>3, <3>1 DEF IInv
  <2>4. CASE u = s
    <3>1. Unconsumed(t) \cap (m..(m + PoolSize - 1)) = {}
      BY <1>2, <1>7
    <3>. QED  BY <1>4, <1>5, <1>6, <2>1, <2>4, <3>1 DEF IInv
  <2>. QED  BY <2>2, <2>3, <2>4
<1>12. \A r \in ridAvail'..Uint32Max : issued'[r] = 0
  BY <1>2, <1>3, PoolAssumption DEF IInv
<1>13. UniqueRids'
  BY <1>3 DEF IInv, UniqueRids
<1>. QED  BY <1>1, <1>9, <1>10, <1>11, <1>12, <1>13 DEF IInv

LEMMA IInvNext == CeilingBelowSentinel /\ IInv /\ [Next]_vars => IInv'
<1>. SUFFICES ASSUME CeilingBelowSentinel, IInv, [Next]_vars PROVE IInv'
  OBVIOUS
<1>1. CASE \E s \in Servers : AllocateRid(s)
  BY <1>1, IInvAllocate
<1>2. CASE \E s \in Servers : ProvisionPool(s)
  BY <1>2, IInvProvision
<1>3. CASE UNCHANGED vars
  BY <1>3 DEF vars, IInv, TypeOK, RidSetOK, Unconsumed, UnconsumedOf, PoolRids,
            UniqueRids
<1>. QED  BY <1>1, <1>2, <1>3 DEF Next

(***************************************************************************)
(* No RID is allocated twice, for every number of servers, width and pool *)
(* size, as long as the RID master never hands out the RID 2^32-1.        *)
(***************************************************************************)
THEOREM RidsUnique ==
  ASSUME CeilingBelowSentinel
  PROVE  Spec => []UniqueRids
<1>1. Init => IInv
  BY IInvInit
<1>2. IInv /\ [Next]_vars => IInv'
  BY IInvNext
<1>3. IInv => UniqueRids
  BY DEF IInv
<1>. QED  BY <1>1, <1>2, <1>3, PTL DEF Spec
-----------------------------------------------------------------------------
(***************************************************************************)
(* Refinement of the abstract allocator RidAllocAbstract, under the       *)
(* mapping granted <- ridAvail.  The invariant IInv carries the argument: *)
(* the RID an allocation returns is one its server could still hand out, *)
(* so it lies below the RID master's cursor and was never allocated.      *)
(***************************************************************************)

(* A successful allocation is an abstract Allocate of the RID it returns.  *)
LEMMA AbsAllocate ==
  ASSUME CeilingBelowSentinel, IInv, NEW s \in Servers, AllocateRid(s)
  PROVE  Abs!Allocate
<1>. DEFINE a == allocPool[s]
            p == prevPool[s]
            n == nextRid[s]
            res == FreeRidBounds(a, p, n)
<1>1. /\ a \in PoolWord /\ p \in PoolWord /\ n \in Rid
      /\ ridAvail \in Nat /\ ridAvail <= RidCeiling + 1
      /\ RidSetOK(a, p, n, ridAvail)
  BY RangeAssumption DEF IInv, TypeOK
<1>2. res.err = "None"
  BY DEF AllocateRid
<1>3. res.rid \in Unconsumed(s)
  BY <1>1, <1>2, AllocStep DEF Unconsumed
<1>4. res.rid \in RidStart..(ridAvail - 1)
  BY <1>1, <1>3, UnconsumedBelow DEF Unconsumed
<1>5. issued[res.rid] = 0
  BY <1>3 DEF IInv
<1>6. issued' = [issued EXCEPT ![res.rid] = 1]
  BY <1>5 DEF AllocateRid
<1>7. ridAvail' = ridAvail
  BY DEF AllocateRid
<1>. QED  BY <1>4, <1>5, <1>6, <1>7 DEF Abs!Allocate

(* Provisioning a pool is an abstract Grant of its RIDs.                   *)
LEMMA AbsGrant ==
  ASSUME IInv, NEW s \in Servers, ProvisionPool(s)
  PROVE  Abs!Grant
BY PoolAssumption, RangeAssumption DEF IInv, TypeOK, ProvisionPool, Abs!Grant

(***************************************************************************)
(* The RID pool allocator implements the abstract allocator for every     *)
(* number of servers, width and pool size, as long as the RID master      *)
(* never hands out the RID 2^32-1.                                         *)
(***************************************************************************)
THEOREM AllocatorRefinement ==
  ASSUME CeilingBelowSentinel
  PROVE  Spec => AbstractAllocator
<1>1. Spec => []IInv
  BY IInvInit, IInvNext, PTL DEF Spec
<1>2. Init => Abs!Init
  BY DEF Init, Abs!Init
<1>3. IInv /\ [Next]_vars => [Abs!Next]_Abs!absVars
  <2>. SUFFICES ASSUME IInv, [Next]_vars PROVE [Abs!Next]_Abs!absVars
    OBVIOUS
  <2>1. CASE \E s \in Servers : AllocateRid(s)
    BY <2>1, AbsAllocate DEF Abs!Next
  <2>2. CASE \E s \in Servers : ProvisionPool(s)
    BY <2>2, AbsGrant DEF Abs!Next
  <2>3. CASE UNCHANGED vars
    BY <2>3 DEF vars, Abs!absVars
  <2>. QED  BY <2>1, <2>2, <2>3 DEF Next
<1>. QED  BY <1>1, <1>2, <1>3, PTL DEF Spec, AbstractAllocator, Abs!Spec
-----------------------------------------------------------------------------
(***************************************************************************)
(* No RID is leaked.  NoRidLeaked is inductive on top of IInv: an          *)
(* allocation takes from what its server may hand out only the RID it     *)
(* returns, and a new pool keeps what the server could hand out and adds  *)
(* its own RIDs.                                                           *)
(***************************************************************************)
LEMMA AllocKeeps ==
  ASSUME NEW a \in PoolWord, NEW p \in PoolWord, NEW n \in Rid, NEW m \in Nat,
         m <= RidCeiling + 1, CeilingBelowSentinel,
         RidSetOK(a, p, n, m),
         FreeRidBounds(a, p, n).err = "None"
  PROVE  UnconsumedOf(a, p, n) \ {FreeRidBounds(a, p, n).rid}
           \subseteq UnconsumedOf(a, FreeRidBounds(a, p, n).prev, FreeRidBounds(a, p, n).rid)
<1>. DEFINE res == FreeRidBounds(a, p, n)
<1>1. PoolLo(a) \in Rid /\ PoolHi(a) \in Rid /\ PoolLo(p) \in Rid /\ PoolHi(p) \in Rid
  BY PoolHalves
<1>2. a # Uint64Max
  BY DEF FreeRidBounds
<1>3. RidStart <= PoolLo(a) /\ PoolLo(a) <= PoolHi(a) /\ PoolHi(a) < m
  BY <1>2 DEF RidSetOK
<1>4. m - 1 < Uint32Max
  BY WidthAssumption, RangeAssumption DEF CeilingBelowSentinel, Uint32Max
<1>5. CASE p = Uint64Max \/ n = Uint32Max
  <2>1. p = Uint64Max /\ n = Uint32Max
    BY <1>5 DEF RidSetOK
  <2>2. res.prev = a /\ res.rid = PoolLo(a)
    BY <1>1, <1>2, <1>3, <2>1 DEF FreeRidBounds
  <2>3. UnconsumedOf(a, p, n) = PoolLo(a)..PoolHi(a)
    BY <1>2, <2>1 DEF UnconsumedOf, PoolRids
  <2>4. UnconsumedOf(a, a, PoolLo(a)) = (PoolLo(a) + 1)..PoolHi(a)
    BY <1>1, <1>2, <1>3, <1>4, WidthAssumption DEF UnconsumedOf, Rid, Uint32Max
  <2>. QED  BY <1>1, <2>2, <2>3, <2>4 DEF Rid
<1>6. CASE ~(p = Uint64Max \/ n = Uint32Max) /\ n + 1 <= PoolHi(p)
  <2>1. res.prev = p /\ res.rid = n + 1
    BY <1>1, <1>6, WidthAssumption DEF FreeRidBounds, Rid, Uint32Max
  <2>2. n + 1 # Uint32Max
    BY <1>1, <1>4, <1>6, WidthAssumption DEF RidSetOK, Rid, Uint32Max
  <2>3. UnconsumedOf(a, p, n) \ {n + 1} \subseteq UnconsumedOf(a, p, n + 1)
    BY <1>1, <1>6, <2>2, WidthAssumption DEF UnconsumedOf, PoolRids, Rid, Uint32Max
  <2>. QED  BY <2>1, <2>3
<1>7. CASE ~(p = Uint64Max \/ n = Uint32Max) /\ n + 1 > PoolHi(p)
  <2>1. a # p
    BY <1>7 DEF FreeRidBounds
  <2>2. res.prev = a /\ res.rid = PoolLo(a)
    BY <1>1, <1>3, <1>7 DEF FreeRidBounds, Rid
  <2>3. UnconsumedOf(a, p, n) = PoolLo(a)..PoolHi(a)
    BY <1>1, <1>2, <1>7, <2>1 DEF UnconsumedOf, PoolRids, Rid
  <2>4. UnconsumedOf(a, a, PoolLo(a)) = (PoolLo(a) + 1)..PoolHi(a)
    BY <1>1, <1>2, <1>3, <1>4, WidthAssumption DEF UnconsumedOf, Rid, Uint32Max
  <2>. QED  BY <1>1, <2>2, <2>3, <2>4 DEF Rid
<1>. QED  BY <1>1, <1>5, <1>6, <1>7, WidthAssumption DEF Rid, Uint32Max

LEMMA ProvisionKeeps ==
  ASSUME NEW a \in PoolWord, NEW p \in PoolWord, NEW n \in Rid, NEW m \in Nat,
         CeilingBelowSentinel, RidStart <= m, m + PoolSize - 1 <= RidCeiling,
         RidSetOK(a, p, n, m),
         a = Uint64Max \/ a = p
  PROVE  UnconsumedOf(a, p, n) \cup m..(m + PoolSize - 1)
           \subseteq UnconsumedOf(PoolValue(m, m + PoolSize - 1), p, n)
<1>. DEFINE a2 == PoolValue(m, m + PoolSize - 1)
<1>1. m \in Rid /\ m + PoolSize - 1 \in Rid
  BY PoolAssumption, RangeAssumption, WidthAssumption DEF Rid, Uint32Max
<1>2. PoolLo(a2) = m /\ PoolHi(a2) = m + PoolSize - 1
  BY <1>1, PoolDecode
<1>3. a2 # Uint64Max
  BY <1>2, AbsentPoolHalves, WidthAssumption, RangeAssumption
  DEF CeilingBelowSentinel, Uint32Max
<1>4. PoolLo(p) \in Rid /\ PoolHi(p) \in Rid
  BY PoolHalves
<1>5. a2 # p
  BY <1>2, <1>3, <1>4 DEF RidSetOK, Rid
<1>6. PoolRids(a) = {} \/ a = p
  BY DEF PoolRids
<1>. QED  BY <1>2, <1>3, <1>5, <1>6 DEF UnconsumedOf, PoolRids

(* The invariant that carries NoRidLeaked.                                 *)
LeakInv == IInv /\ NoRidLeaked

LEMMA LeakInvInit == Init => LeakInv
BY IInvInit, RangeAssumption DEF Init, LeakInv, NoRidLeaked

LEMMA LeakInvNext ==
  ASSUME CeilingBelowSentinel, LeakInv, [Next]_vars
  PROVE  LeakInv'
<1>1. IInv'
  BY IInvNext DEF LeakInv
<1>2. ASSUME NEW s \in Servers, AllocateRid(s) PROVE NoRidLeaked'
  <2> DEFINE a == allocPool[s]
             p == prevPool[s]
             n == nextRid[s]
             res == FreeRidBounds(a, p, n)
  <2>1. /\ a \in PoolWord /\ p \in PoolWord /\ n \in Rid
        /\ ridAvail \in Nat /\ ridAvail <= RidCeiling + 1
        /\ RidSetOK(a, p, n, ridAvail)
    BY RangeAssumption DEF LeakInv, IInv, TypeOK
  <2>2. /\ res.err = "None"
        /\ prevPool' = [prevPool EXCEPT ![s] = res.prev]
        /\ nextRid' = [nextRid EXCEPT ![s] = res.rid]
        /\ issued' = [issued EXCEPT ![res.rid] = @ + 1]
        /\ UNCHANGED <<allocPool, ridAvail>>
    BY <1>2 DEF AllocateRid
  <2>3. Unconsumed(s) \ {res.rid} \subseteq Unconsumed(s)'
    <3>1. Unconsumed(s)' = UnconsumedOf(a, res.prev, res.rid)
      BY <2>2 DEF LeakInv, IInv, TypeOK, Unconsumed
    <3>. QED  BY <2>1, <2>2, <3>1, AllocKeeps DEF Unconsumed
  <2>4. \A t \in Servers \ {s} : Unconsumed(t)' = Unconsumed(t)
    BY <2>2 DEF LeakInv, IInv, TypeOK, Unconsumed
  <2>5. SUFFICES ASSUME NEW r \in RidStart..(ridAvail - 1), issued'[r] = 0
                 PROVE  \E t \in Servers : r \in Unconsumed(t)'
    BY <2>2 DEF NoRidLeaked
  <2>6. r \in Rid
    BY <2>1, RangeAssumption, WidthAssumption DEF CeilingBelowSentinel, Rid, Uint32Max
  <2>7. r # res.rid /\ issued[r] = 0
    BY <2>2, <2>5, <2>6 DEF LeakInv, IInv, TypeOK
  <2>8. PICK t \in Servers : r \in Unconsumed(t)
    BY <2>7 DEF LeakInv, NoRidLeaked
  <2>. QED  BY <2>3, <2>4, <2>7, <2>8
<1>3. ASSUME NEW s \in Servers, ProvisionPool(s) PROVE NoRidLeaked'
  <2> DEFINE a == allocPool[s]
             p == prevPool[s]
             n == nextRid[s]
             m == ridAvail
             a2 == PoolValue(m, m + PoolSize - 1)
  <2>1. /\ a \in PoolWord /\ p \in PoolWord /\ n \in Rid
        /\ m \in Nat /\ RidStart <= m
        /\ RidSetOK(a, p, n, m)
    BY RangeAssumption DEF LeakInv, IInv, TypeOK
  <2>2. /\ a = Uint64Max \/ a = p
        /\ m + PoolSize - 1 <= RidCeiling
        /\ allocPool' = [allocPool EXCEPT ![s] = a2]
        /\ ridAvail' = m + PoolSize
        /\ UNCHANGED <<prevPool, nextRid, issued>>
    BY <1>3 DEF ProvisionPool
  <2>3. Unconsumed(s) \cup m..(m + PoolSize - 1) \subseteq Unconsumed(s)'
    <3>1. Unconsumed(s)' = UnconsumedOf(a2, p, n)
      BY <2>2 DEF LeakInv, IInv, TypeOK, Unconsumed
    <3>. QED  BY <2>1, <2>2, <3>1, ProvisionKeeps DEF Unconsumed
  <2>4. \A t \in Servers \ {s} : Unconsumed(t)' = Unconsumed(t)
    BY <2>2 DEF LeakInv, IInv, TypeOK, Unconsumed
  <2>5. SUFFICES ASSUME NEW r \in RidStart..(ridAvail' - 1), issued'[r] = 0
                 PROVE  \E t \in Servers : r \in Unconsumed(t)'
    BY DEF NoRidLeaked
  <2>8. ridAvail' = m + PoolSize /\ issued' = issued
    BY <1>3 DEF ProvisionPool
  <2>9. r \in RidStart..(m + PoolSize - 1) /\ issued[r] = 0
    BY <2>1, <2>8, <2>5, PoolAssumption
  <2>6. CASE r < m
    <3>1. PICK t \in Servers : r \in Unconsumed(t)
      BY <2>1, <2>9, <2>6 DEF LeakInv, NoRidLeaked
    <3>. QED  BY <2>3, <2>4, <3>1
  <2>7. CASE r >= m
    BY <2>1, <2>3, <2>7, <2>9, PoolAssumption
  <2>. QED  BY <2>1, <2>6, <2>7, <2>9
<1>4. ASSUME UNCHANGED vars PROVE NoRidLeaked'
  <2>1. \A t \in Servers : Unconsumed(t)' = Unconsumed(t)
    BY <1>4 DEF vars, Unconsumed
  <2>2. issued' = issued /\ ridAvail' = ridAvail
    BY <1>4 DEF vars
  <2>3. NoRidLeaked /\ ridAvail \in Nat
    BY RangeAssumption DEF LeakInv, IInv, TypeOK
  <2>4. SUFFICES ASSUME NEW r \in RidStart..(ridAvail' - 1), issued'[r] = 0
                 PROVE  \E t \in Servers : r \in Unconsumed(t)'
    BY DEF NoRidLeaked
  <2>5. r \in RidStart..(ridAvail - 1) /\ issued[r] = 0
    BY <2>2, <2>3, <2>4
  <2>6. PICK t \in Servers : r \in Unconsumed(t)
    BY <2>3, <2>5 DEF NoRidLeaked
  <2>. QED  BY <2>1, <2>6
<1>. QED  BY <1>1, <1>2, <1>3, <1>4 DEF Next, LeakInv

(***************************************************************************)
(* Every RID the RID master has handed out is allocated already or still *)
(* ahead of some server: no server moves to a new pool while RIDs of its *)
(* old one are unused, for every number of servers, width and pool size, *)
(* as long as the RID master never hands out the RID 2^32-1.             *)
(***************************************************************************)
THEOREM NoRidLeak ==
  ASSUME CeilingBelowSentinel
  PROVE  Spec => []NoRidLeaked
<1>1. Init => LeakInv
  BY LeakInvInit
<1>2. LeakInv /\ [Next]_vars => LeakInv'
  BY LeakInvNext
<1>3. LeakInv => NoRidLeaked
  BY DEF LeakInv
<1>. QED  BY <1>1, <1>2, <1>3, PTL DEF Spec
=============================================================================
