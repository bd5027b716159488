\* Two clients register at once, and one may type :menu instead.
SPECIFICATION Spec
CONSTANTS
  c1 = c1  c2 = c2  c3 = c3
  u = u  v = v  w = w  g = g  k = k  l = l
  none = none
  NoText = none
  Folded <- Distinct
  Conns = {c1, c2}
  Texts <- LoginTexts
  ValidNames <- LoginNames
  ValidEmails <- LoginPasswords
  ValidPasswords <- LoginPasswords
  Input <- LoginInput
  MaxMessages = 0
  ToLower <- Lower
  Periods <- Numbers
  Lines = {}
  MaxLocalPart = 4
  Addresses <- AnyAddresses
SYMMETRY LoginSymmetry
CHECK_DEADLOCK FALSE
INVARIANTS
  ConnectedIsRegistered
  UniqueUsernames
  OnlyBackendPanics
  PlainEmailsValidated
PROPERTIES
  ConnectedNameIsFixed
  LockedOutForGood
