CONSTANTS
  Payloads <- BlockPayloads
  Commands = {225}
  MaxFaults = 0
  MaxFrames = 1
  BufferSize = 256
  None = None
SPECIFICATION Spec
INVARIANTS Resynchronized
CHECK_DEADLOCK FALSE
