\* Logging in with the password one has registered with.
SPECIFICATION BackendSpec
CONSTANTS
  u = u  v = v  k = k  l = l  none = none
  Conns = {}
  Texts <- StorageTexts
  NoText = none
  ValidNames = {u, v}
  ValidEmails = {k, l}
  ValidPasswords = {k, l}
  Folded <- Distinct
  MaxMessages = 3
SYMMETRY StorageSymmetry
CHECK_DEADLOCK FALSE
INVARIANT RegisteredCanLogIn
