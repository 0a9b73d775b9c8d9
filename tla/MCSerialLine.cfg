SPECIFICATION MCSpec
CONSTANTS
  RxSize = 4
  TxSize = 2
  Bytes <- MCBytes
  Queries <- MCQueries
  Chips = {1}
  Registers = {0, 1}
  Block = 3
  DataSize = 12
  MaxQueries = 2
  MaxDisturbances = 1
  MaxChanges = 2
  Payloads <- MCPayloads
  Commands = {225}
  MaxFaults = 1
  MaxFrames = 3
  BufferSize = 10
  MaxInAll = 2
  None = None
INVARIANTS
  SerialTypeOK
  BytesComeThrough
  HandledAsAsked
  StuckOnlyAfterDamage
  NoChangeForgotten
  DelimitersOnly
  Resynchronized
CHECK_DEADLOCK FALSE
