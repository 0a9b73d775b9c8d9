--------------------------- MODULE MCPeripherals ---------------------------
(***************************************************************************)
(* The drivers of the wires that lead off the board: each behaviour is one *)
(* of one driver, as unit says, whose variables alone change.  The         *)
(* conversions of temperatures are tried on what `sample' holds.           *)
(***************************************************************************)
EXTENDS Integers, Sequences, FiniteSets

\* Of OneWire, Thermometer, Temperature.
CONSTANTS RomBits, Thermometers, MaxFaults,
          Sensors, Parasites, Settings, FactorySetting, Retries, MaxCommands,
          MaxTroubles, Samples, Damages
VARIABLES sensors, selected, searchPc, diff, romId, bitsLeft, nextDiff, searchResult, found,
          faults
VARIABLES present, heldLow, pad, eeprom, measuring, recalling, strongPullUp, command, retryCount,
          outcome, commands, troubles, fed, shorted
VARIABLE sample

\* Of Usart, Spi, Analog2Digital.
CONSTANTS RxBuffer, TxBuffer, MaxWritten, MaxArrivals, MaxStarts,
          SpiBits, F_CPU, Speeds, Integers16, Integers32, Arrays, MaxSpiCalls,
          References, Channels
VARIABLES rxBuffer, txBuffer, UDRIE, TXC, UPE, running, udr, shifting, rxData, serialPc,
          remaining, written, shifted, arrivals, taken, dropped, starts
VARIABLES SPE, DORD, SPR, SPI2X, maxSpeed, spiPc, kind, data, count, SPDR, given, wire, spiCalls
VARIABLES ADEN, REFS, MUX, MUX5, sCurrentChannel, ADC, reference, analog

VARIABLE unit \* the driver

ofSearch == <<sensors, selected, searchPc, diff, romId, bitsLeft, nextDiff, searchResult,
              found, faults>>
ofSensor == <<present, heldLow, pad, eeprom, measuring, recalling, strongPullUp, command,
              retryCount, outcome, commands, troubles, fed, shorted>>
ofSerial == <<rxBuffer, txBuffer, UDRIE, TXC, UPE, running, udr, shifting, rxData, serialPc,
              remaining, written, shifted, arrivals, taken, dropped, starts>>
ofSpi == <<SPE, DORD, SPR, SPI2X, maxSpeed, spiPc, kind, data, count, SPDR, given, wire, spiCalls>>
ofAdc == <<ADEN, REFS, MUX, MUX5, sCurrentChannel, ADC, reference, analog>>

Search == INSTANCE OneWire
Sensor == INSTANCE Thermometer
Degrees == INSTANCE Temperature
Serial == INSTANCE Usart
Bus == INSTANCE Spi
Converter == INSTANCE Analog2Digital WITH reading <- analog

ASSUME SearchAssumption == Search!OneWireAssumption
ASSUME SensorAssumption == Sensor!ThermometerAssumption
ASSUME SerialAssumption == Serial!UsartAssumption
ASSUME BusAssumption == Bus!SpiAssumption

-----------------------------------------------------------------------------
Units == {"search", "sensor", "degrees", "serial", "spi", "adc"}

\* Drivers that may begin in several states do so only in their own behaviours.
PeripheralsInit ==
  /\ Search!SearchInit /\ (unit # "search" => sensors = {})
  /\ Sensor!ThermometerInit /\ (unit # "sensor" => present = {})
  /\ IF unit = "degrees" THEN Degrees!TemperatureInit ELSE sample = {}
  /\ Serial!UsartInit /\ Bus!SpiInit
  /\ Converter!AdcInit /\ (unit # "adc" => reference = CHOOSE ref \in References : TRUE)
MCInit == unit \in Units /\ PeripheralsInit

\* All variables but those of one driver.
ExceptSearch == UNCHANGED <<unit, sample, ofSensor, ofSerial, ofSpi, ofAdc>>
ExceptSensor == UNCHANGED <<unit, sample, ofSearch, ofSerial, ofSpi, ofAdc>>
ExceptSerial == UNCHANGED <<unit, sample, ofSearch, ofSensor, ofSpi, ofAdc>>
ExceptSpi == UNCHANGED <<unit, sample, ofSearch, ofSensor, ofSerial, ofAdc>>
ExceptAdc == UNCHANGED <<unit, sample, ofSearch, ofSensor, ofSerial, ofSpi>>

MCNext ==
  \/ unit = "search" /\ Search!SearchNext /\ ExceptSearch
  \/ unit = "sensor" /\ Sensor!ThermometerNext /\ ExceptSensor
  \/ unit = "serial" /\ Serial!UsartNext /\ ExceptSerial
  \/ unit = "spi" /\ Bus!SpiNext /\ ExceptSpi
  \/ unit = "adc" /\ Converter!AdcNext /\ ExceptAdc

allVars == <<unit, sample, ofSearch, ofSensor, ofSerial, ofSpi, ofAdc>>
MCSpec == MCInit /\ [][MCNext]_allVars

-----------------------------------------------------------------------------
\* Every variable of the driver keeps its type.
PeripheralsTypeOK ==
  CASE unit = "search" -> Search!SearchTypeOK
    [] unit = "sensor" -> Sensor!ThermometerTypeOK
    [] unit = "serial" -> Serial!UsartTypeOK
    [] unit = "spi" -> Bus!SpiTypeOK
    [] unit = "adc" -> Converter!AdcTypeOK
    [] OTHER -> TRUE

\* The passes of the 1-wire search visit every sensor, and none twice.
EverySensorFound == unit = "search" => Search!EverySensorFound

\* A temperature query is answered with what was measured in it, and a recall that reports
\* success brought the settings back, but where the bus was shorted just before the
\* command, or the recall's count ran out.
ReportsTrue == unit = "sensor" => Sensor!ReportsTrue

\* Temperatures are what the sensor counts, for every family, resolution and sign.
TemperatureExact == unit = "degrees" => Degrees!TemperatureExact

\* The serial port neither loses, repeats nor reorders bytes.
SerialInOrder == unit = "serial" => Serial!SerialInOrder

\* The SPI bus runs as fast as the speed asked for allows, and no faster.
BusAsFastAsAllowed == unit = "spi" => Bus!AsFastAsAllowed

\* An analog reading is of the pin and the reference asked for.
AnalogAsAsked == unit = "adc" => Converter!ReadsAsked

\* What the registers of either are set to is what was asked for.
PeripheralsAsAsked == BusAsFastAsAllowed /\ AnalogAsAsked
=============================================================================
