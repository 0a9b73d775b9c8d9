CONSTANTS
  Threads = {t1}
  Requested = {h, board, chip, hosted}
  Hosts = {g, h}
  Here = here
  Board = board
  Wrapped = TRUE
  Chips = {chip}
  Hosted = {hosted}
  Answering = TRUE
  MaxCalls = 1
  MaxManagers = 2
SPECIFICATION Spec
INVARIANTS NoEndlessRecursion
CHECK_DEADLOCK FALSE
