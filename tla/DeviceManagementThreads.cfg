CONSTANTS
  Threads = {t1, t2}
  Requested = {h, board, chip, hosted}
  Hosts = {h}
  Here = here
  Board = board
  Wrapped = TRUE
  Chips = {chip}
  Hosted = {hosted}
  Answering = TRUE
  MaxCalls = 1
  MaxManagers = 1
SPECIFICATION FairSpec
PROPERTIES CallsReturn
CHECK_DEADLOCK FALSE
