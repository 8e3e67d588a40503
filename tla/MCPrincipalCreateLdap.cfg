\* Over LDAP: no transactions, every write is published at once.
CONSTANTS
  c1 = c1  c2 = c2  n1 = n1
  None = None
  Clients <- MCClients
  Names <- MCNames
  Ldap = TRUE
SYMMETRY MCSymmetry
SPECIFICATION Spec
PROPERTIES FailedCreateLeavesNoAccount
