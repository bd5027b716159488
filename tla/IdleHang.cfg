\* The idle timer fires while a message is being handled.
SPECIFICATION FairSpec
CONSTANTS
  c1 = c1  c2 = c2  c3 = c3
  u = u  v = v  w = w  g = g  k = k  l = l
  none = none
  NoText = none
  Folded <- Distinct
  Conns = {c1, c2}
  Texts <- LiveTexts
  ValidNames = {u}
  ValidEmails = {u}
  ValidPasswords = {u}
  Input <- LiveInput
  MaxMessages = 1
  ToLower <- Lower
  Periods <- Numbers
  Lines = {}
CHECK_DEADLOCK FALSE
PROPERTIES
  IdleConnectionIsDropped
