\* A local database: setexpiry holds the lock, the toggles do not.
CONSTANTS
  c1 = c1  c2 = c2
  None = None
  Clients <- MCClients
  Ldap = FALSE
SYMMETRY MCSymmetry
SPECIFICATION Spec
INVARIANTS TypeOK UacMatchesIntent
