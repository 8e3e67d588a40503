\* Over LDAP a caller dies between its add and its setpassword.
CONSTANTS
  c1 = c1  c2 = c2  n1 = n1
  None = None
  Clients <- MCClients
  Names <- MCNames
  Ldap = TRUE
SYMMETRY MCSymmetry
SPECIFICATION CrashSpec
PROPERTY CrashLeavesNoPartialAccount
