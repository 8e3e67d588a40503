\* The RID master hands out the top pool [13, 15]; its last RID is
\* 2^4 - 1, the value free_rid_bounds also reads as "rIDNextRID absent".
CONSTANTS
  s1 = s1
  s2 = s2
  Servers <- MCServers
  Two32 = 16
  PoolSize = 3
  RidStart = 1
  RidCeiling = 15
SYMMETRY MCSymmetry
SPECIFICATION Spec
INVARIANT UniqueRids
CHECK_DEADLOCK FALSE
