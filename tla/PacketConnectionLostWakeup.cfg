CONSTANTS
  Callers = {c1}
  Untimed = {c1}
  Correlating = {c1}
  Others = {}
  Removing = {}
  Exclusive = TRUE
  MaxCalls = 1
  MaxReplies = 1
  MaxEarly = 0
  NoPacket = NoPacket
SPECIFICATION FairSpec
PROPERTIES AnsweredCallReturns
CHECK_DEADLOCK FALSE
