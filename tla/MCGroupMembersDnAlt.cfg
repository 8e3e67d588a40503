\* Members named by DN, spelled as stored or otherwise (another letter case).
\* _is_member compares the typed DN string with the stored one, so a removal
\* through the other spelling finds no member and silently does nothing.
CONSTANTS
  p1 = p1  p2 = p2  p3 = p3  g1 = g1  c1 = c1  c2 = c2
  None = None
  Principals <- MCPrincipals
  HasSid <- MCHasSid
  NameOf <- MCNameOf
  Groups <- MCGroups
  Clients <- MCClients
  Forms = {"dn", "dnAlt"}
  MaxRefs = 1
  Transactional = TRUE
SYMMETRY MCSymmetry
SPECIFICATION Spec
INVARIANT MembersMatchIntent
