CONSTANTS
  Threads = {t1}
  Requested = {h, board, chip, hosted, here}
  Hosts = {h}
  Here = here
  Board = board
  Wrapped = TRUE
  Chips = {chip}
  Hosted = {hosted}
  Answering = FALSE
  MaxCalls = 3
  MaxManagers = 0
SPECIFICATION Spec
INVARIANTS TypeOK  LocksReleased
CHECK_DEADLOCK FALSE
