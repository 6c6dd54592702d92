\* CHECK_DEADLOCK: the last account may be deleted.
\* Two accounts, two keys, two calls at a time.
SPECIFICATION Spec
CONSTANTS
  a1 = a1
  a2 = a2
  k1 = k1
  k2 = k2
  p1 = p1
  p2 = p2
  Accounts <- TwoAccounts
  Keys <- TwoKeys
  Calls <- TwoCalls
  MaxSecrets = 2
  MaxChanges = 1
  None = None
SYMMETRY Symmetry
INVARIANT NoSecretOutlivesAccount
PROPERTY RevokedStaysRevoked
INVARIANT OfferedIsAdmitted
CHECK_DEADLOCK FALSE
