\* The shutdown timer fires while Run waits for a connection.
SPECIFICATION FairSessionSpec
CONSTANTS
  c1 = c1  c2 = c2
  u = u  k = k  none = none
  NoText = none
  Folded <- Distinct
  Conns = {c1, c2}
  Texts <- SessionTexts
  ValidNames = {u}
  ValidEmails = {k}
  ValidPasswords = {k}
  Input <- SessionInput
  MaxMessages = 1
CHECK_DEADLOCK FALSE
PROPERTY ShutdownEnds
