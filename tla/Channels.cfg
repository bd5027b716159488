\* Creating and selecting channels, with and without having logged in.
SPECIFICATION ChannelSpec
CONSTANTS
  c1 = c1  c2 = c2  c3 = c3
  u = u  v = v  w = w  g = g  k = k  l = l
  none = none
  NoText = none
  Folded <- Distinct
  Conns = {c1, c2}
  Texts <- ChannelTexts
  ValidNames <- ChannelNames
  ValidEmails = {k}
  ValidPasswords = {k}
  Input <- ChannelInput
  MaxMessages = 1
  ToLower <- Lower
  Periods <- Numbers
  Lines <- AnyLines
CHECK_DEADLOCK FALSE
INVARIANTS
  SendersAreRegistered
  SelectionIsValid
  HistoryPanicExplained
  IInv
  CommandsParsed
PROPERTY HungForGood
