SPECIFICATION Spec
CONSTANTS
  kMaxNbrMsgs = 2
  kMaxMsgLen = 4
  Requests <- MCRequests
  MaxRequests = 3
  kI2cBufferSize = 3
  ownAddress = 1
  answerGeneralCall = TRUE
  Answers <- MCAnswers
  MaxDisturbances = 1
  Prompt = TRUE
INVARIANTS
  I2cTypeOK
  NothingAcceptedLost
  CompletedAsAsked
CHECK_DEADLOCK FALSE
