CONSTANTS
  Callers = {c1, c2}
  Untimed = {c2}
  Correlating = {}
  Others = {o1}
  Removing = {}
  Exclusive = TRUE
  MaxCalls = 1
  MaxReplies = 1
  MaxEarly = 0
  NoPacket = NoPacket
SPECIFICATION FairSpec
INVARIANTS TypeOK ReplyReachesListener NoListenerLeft
PROPERTIES PromiseKept
CHECK_DEADLOCK FALSE
