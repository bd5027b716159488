\* The life of a session.
SPECIFICATION SessionSpec
CONSTANTS
  c1 = c1  c2 = c2
  u = u  k = k  none = none
  NoText = none
  Folded <- Distinct
  Conns = {c1, c2}
  Texts <- SessionTexts
  ValidNames = {u}
  ValidEmails = {k}
  ValidPasswords = {k}
  Input <- SessionInput
  MaxMessages = 1
CHECK_DEADLOCK FALSE
INVARIANTS
  ShutdownInOrder
PROPERTIES
  NobodyEntersInShutdown
  HeldUpForGood
  ImplementsChatRoom
