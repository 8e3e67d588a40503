\* Two servers drawing 4-bit RIDs from pools of three; the RID master
\* stops below 15 = 2^4 - 1, as the real one stops below 2^32 - 1.
CONSTANTS
  s1 = s1
  s2 = s2
  Servers <- MCServers
  Two32 = 16
  PoolSize = 3
  RidStart = 1
  RidCeiling = 14
SYMMETRY MCSymmetry
SPECIFICATION Spec
INVARIANTS TypeOK UniqueRids NoRidLeaked
PROPERTIES AbstractAllocator
CHECK_DEADLOCK FALSE
