\* Over LDAP a caller that finds its DN reused by another caller writes the
\* other caller's account (setpassword, enable or the cleanup delete).
CONSTANTS
  c1 = c1  c2 = c2  n1 = n1
  None = None
  Clients <- MCClients
  Names <- MCNames
  Ldap = TRUE
SYMMETRY MCSymmetry
SPECIFICATION Spec
PROPERTY WritesOwnAccountOnly
