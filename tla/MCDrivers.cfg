SPECIFICATION DriversSpec
CONSTANTS
  RomBits = 3
  Thermometers <- MCThermometers
  MaxFaults = 1
  Sensors = {a, b}
  Parasites = {b}
  Settings = {f, g}
  FactorySetting = f
  Retries = 3
  MaxCommands = 4
  MaxTroubles = 2
  Samples <- MCSamples
  Damages <- MCDamages
  RxBuffer = 2
  TxBuffer = 2
  MaxWritten = 4
  MaxArrivals = 3
  MaxStarts = 2
  SpiBits = 2
  F_CPU = 16000000
  Speeds = {1, 125000, 249999, 250000, 1000000, 4000000, 20000000}
  Integers16 <- MCIntegers16
  Integers32 <- MCIntegers32
  Arrays <- MCArrays
  MaxSpiCalls = 1
  References = {aref, avcc}
  Channels = {0, 1, 8, 9, 15, 16}
  Top = 31
  MicrosPerTick = 1
  Milli = 20
  FractUnit = 4
  kMillisInc = 1
  kFractInc = 3
  kFractMax = 5
  Wrap = 128
  MaxLatency = 30
  Delays = {1, 2}
  DelayStarts = {0, 29, 30, 31, 32, 33, 97, 127, 128}
  MaxTicks = 180
  Texts <- MCTexts
  Backlights = {{}, {"blue"}, {"red", "blue"}}
  MaxCalls = 3
  MaxFailures = 1
  Values <- MCValues
  Junks <- MCJunks
  Streams <- MCStreams
  Targets <- MCTargets
  Terminators <- MCTerminators
  Requests <- MCRequests
  Sendings <- MCSendings
  Noises <- MCNoises
  Distortions <- MCDistortions
  Repeats = 3
  MaxOnAir = 2
  MaxChanges = 67
  IrSamples <- MCIrSamples
  GAP_TICKS = 4
  RAWBUFFER = 6
  Transmissions <- MCTransmissions
  Silences = {2, 4, 6}
  MaxTransmissions = 2
INVARIANTS
  DriversTypeOK
  PeripheralsTypeOK
  EverySensorFound
  ReportsTrue
  TemperatureExact
  SerialInOrder
  PeripheralsAsAsked
  ClockExact
  DelayLongEnough
  DisplayInStep
  DataReadBack
  
CHECK_DEADLOCK FALSE
