\* Local database (transactions hold the store's lock), references by SID,
\* by DN as stored and by short name, at most two per call.
CONSTANTS
  p1 = p1  p2 = p2  p3 = p3  g1 = g1  c1 = c1  c2 = c2
  None = None
  Principals <- MCPrincipals
  HasSid <- MCHasSid
  NameOf <- MCNameOf
  Groups <- MCGroups
  Clients <- MCClients
  Forms = {"sid", "name"}
  MaxRefs = 2
  Transactional = TRUE
SYMMETRY MCSymmetry
SPECIFICATION Spec
INVARIANTS TypeOK MembersMatchIntent FailsOnlyOnBadRef
