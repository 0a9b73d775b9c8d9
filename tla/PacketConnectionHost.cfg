CONSTANTS
  Callers = {c1, c2}
  Untimed = {c2}
  Correlating = {c1, c2}
  Others = {}
  Removing = {}
  Exclusive = FALSE
  MaxCalls = 1
  MaxReplies = 1
  MaxEarly = 1
  NoPacket = NoPacket
SPECIFICATION FairSpec
INVARIANTS ReplyAnswersCall UntimedNeverGivesUp
PROPERTIES PromiseKept
CHECK_DEADLOCK FALSE
