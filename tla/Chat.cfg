\* Two participants chat while a third one enters.
SPECIFICATION ChatSpec
CONSTANTS
  c1 = c1  c2 = c2  c3 = c3
  u = u  v = v  w = w  g = g  k = k  l = l
  none = none
  NoText = none
  Folded <- Distinct
  Conns = {c1, c2, c3}
  Texts <- ChatTexts
  ValidNames <- ChatNames
  ValidEmails = {k}
  ValidPasswords = {k}
  Input <- ChatInput
  MaxMessages = 2
  ToLower <- Lower
  Periods <- Numbers
  Lines = {}
SYMMETRY ChatSymmetry
CONSTRAINT OneStays
CHECK_DEADLOCK FALSE
INVARIANTS
  LiveDelivery
  AtMostOneRepeated
