CONSTANTS
  Threads = {t1, t2}
  MaxCalls = 2
  MaxInAll = 3
  Methods = {m}
  Objects = {root, o}
  Root = root
  MaxID = 2
  None = None
SPECIFICATION Spec
INVARIANTS ProxyKeepsObject 
SYMMETRY Symmetry
CHECK_DEADLOCK FALSE
