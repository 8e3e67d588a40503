\* Over LDAP: setexpiry's transaction isolates nothing.
CONSTANTS
  c1 = c1  c2 = c2
  None = None
  Clients <- MCClients
  Ldap = TRUE
SYMMETRY MCSymmetry
SPECIFICATION Spec
INVARIANT UacMatchesIntent
