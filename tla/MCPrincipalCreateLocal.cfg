\* A local database: the outer transaction holds the lock for the whole call.
CONSTANTS
  c1 = c1  c2 = c2  n1 = n1
  None = None
  Clients <- MCClients
  Names <- MCNames
  Ldap = FALSE
SYMMETRY MCSymmetry
SPECIFICATION Spec
INVARIANT TypeOK
PROPERTY WritesOwnAccountOnly
