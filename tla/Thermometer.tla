---------------------------- MODULE Thermometer ----------------------------
(***************************************************************************)
(* The commands of lib/DS18X20 to thermometers found by OneWire, and the   *)
(* query of the DS18B20 handler, which measures and reads.  A command is   *)
(* sent after a test of the bus, which may be shorted in between; what a   *)
(* sensor has in its scratchpad may be left from long ago.  A reading is   *)
(* what the scratchpad stands for: its nine bytes and their check sum are  *)
(* Temperature's.  The program that uses the commands the firmware does    *)
(* not is external.                                                        *)
(***************************************************************************)
EXTENDS Integers, FiniteSets

CONSTANTS
  Sensors,     \* the sensors, by their ROM code
  Parasites,   \* those fed by the bus alone
  Settings,    \* the values of alarms and configuration
  FactorySetting,
  Retries,     \* of a recall, 255 in the code
  MaxCommands, \* how many commands are given
  MaxTroubles  \* how often power fails, a sensor comes or goes, the bus is held low

All == "NULL"      \* no id: every sensor

\* What the constants are; assumed by MCPeripherals.
ThermometerAssumption ==
  /\ All \notin Sensors
  /\ Parasites \subseteq Sensors /\ FactorySetting \in Settings
  /\ Retries \in Nat \ {0} /\ MaxCommands \in Nat /\ MaxTroubles \in Nat

VARIABLES
  present,      \* the sensors on the bus
  heldLow,      \* a short circuit
  pad, eeprom,  \* scratchpad and its copy: the reading, the setting
  measuring,    \* sensors in the middle of a conversion
  recalling,    \* sensors that read their EEPROM
  strongPullUp, \* ow_parasite_enable
  command,      \* what the program is doing, and with whom
  retryCount,   \* retry_count of a recall
  outcome,      \* of the command before
  commands, troubles,
  fed,          \* history: since the last start no sensor was without power or the bus held low
  shorted       \* history: the bus was, or ceased to be, held low between test and command

sensorVars == <<pad, eeprom, measuring, recalling>>
thermometerVars == <<present, heldLow, sensorVars, strongPullUp, command, retryCount, outcome,
                     commands, troubles, fed, shorted>>

Readings == {"now", "before", "reset", "zero"} \* measured in this query, earlier, 85 degrees, 0

ThermometerInit ==
  /\ present \in SUBSET Sensors /\ heldLow = FALSE
  /\ pad = [s \in Sensors |-> [reading |-> "reset", setting |-> FactorySetting]]
  /\ eeprom = [s \in Sensors |-> FactorySetting]
  /\ measuring = {} /\ recalling = {} /\ strongPullUp = FALSE
  /\ command = [name |-> "none", id |-> All] /\ retryCount = 0 /\ outcome = "none"
  /\ commands = 0 /\ troubles = 0 /\ fed = TRUE /\ shorted = FALSE

-----------------------------------------------------------------------------
(* ow_command: a reset, which ends a strong pull-up, and MATCH_ROM or SKIP_ROM *)

Addressed(id) == IF id = All THEN present ELSE present \cap {id}

\* The sensors that take a command: none on a bus that is held low.
Hearing == IF heldLow THEN {} ELSE Addressed(command.id)

Idle == command.name = "none"

Begin(name, id) ==
  /\ Idle /\ commands < MaxCommands
  /\ commands' = commands + 1
  /\ command' = [name |-> name, id |-> id]

Over(result) == command' = [command EXCEPT !.name = "none"] /\ outcome' = result

Restart(sensors) == \* a sensor without power forgets what is not in its EEPROM
  pad' = [s \in Sensors |-> IF s \in sensors THEN [reading |-> "reset", setting |-> eeprom[s]]
                            ELSE pad[s]]

-----------------------------------------------------------------------------
(* The commands that change something are sent if the bus is idle, high, after a reset: *)
(* DS18X20_start_meas, here "convert" and, of a query, "ask"; write_scratchpad,         *)
(* scratchpad_to_eeprom and eeprom_to_scratchpad, which a program waits with until      *)
(* conversions are over.                                                                *)

Starts == {"ask", "convert"}
Settling == {"write", "copy", "recall"}

TestBusUnchecked(name, id) ==
  /\ Begin(name, id) /\ (name \in Settling => measuring = {})
  /\ outcome' = "none" /\ strongPullUp' = FALSE /\ shorted' = FALSE
  /\ IF name \in Starts
     THEN /\ fed' = TRUE
          /\ pad' = [s \in Sensors |-> IF pad[s].reading = "now" THEN [pad[s] EXCEPT !.reading = "before"]
                                       ELSE pad[s]]
     ELSE UNCHANGED <<fed, pad>>
  /\ UNCHANGED <<present, heldLow, eeprom, measuring, recalling, retryCount, troubles>>

TestBus(name, id) == ~heldLow /\ TestBusUnchecked(name, id)

\* Busy: START_FAIL or ERROR; nothing is sent.
StartFail ==
  /\ Begin("none", All) /\ heldLow
  /\ outcome' \in {"START_FAIL", "ERROR"} /\ strongPullUp' = FALSE
  /\ UNCHANGED <<present, heldLow, sensorVars, retryCount, troubles, fed, shorted>>

\* ow_command, or ow_command_with_parasite_enable; queries are with DS18X20_POWER_EXTERN.
SendConvert(parasite) ==
  /\ command.name \in Starts /\ (parasite => command.name = "convert")
  /\ measuring' = measuring \cup Hearing
  /\ strongPullUp' = parasite
  /\ IF command.name = "convert" THEN Over("ok")
     ELSE command' = [command EXCEPT !.name = "query"] /\ UNCHANGED outcome
  /\ UNCHANGED <<present, heldLow, pad, eeprom, recalling, retryCount, commands, troubles, fed,
                 shorted>>

\* A conversion with parasite power needs the strong pull-up until it is done.
Measured ==
  /\ \E s \in measuring :
       /\ measuring' = measuring \ {s}
       /\ IF s \in Parasites /\ ~strongPullUp THEN Restart({s}) /\ fed' = FALSE
          ELSE pad' = [pad EXCEPT ![s].reading = "now"] /\ UNCHANGED fed
  /\ UNCHANGED <<present, heldLow, eeprom, recalling, strongPullUp, command, retryCount, outcome,
                 commands, troubles, shorted>>

DelayTooShort ==
  /\ command.name = "query"
  /\ command' = [command EXCEPT !.name = "answer"]
  /\ UNCHANGED <<present, heldLow, sensorVars, strongPullUp, retryCount, outcome, commands, troubles,
                 fed, shorted>>

\* delayMilliseconds(DS18B20_TCONV_12BIT), the longest a conversion takes.
Delay ==
  /\ command.name = "query" /\ measuring = {}
  /\ command' = [command EXCEPT !.name = "answer"]
  /\ UNCHANGED <<present, heldLow, sensorVars, strongPullUp, retryCount, outcome, commands, troubles,
                 fed, shorted>>

\* read_scratchpad: a bus that is held low reads as nine zeros, whose check sum is right,
\* a bus without the sensor as ones, whose is not; two different answers are mixed up.
Scratchpad(id) ==
  IF heldLow THEN {"zero"}
  ELSE IF Cardinality({pad[s] : s \in Addressed(id)}) = 1
       THEN {pad[s].reading : s \in Addressed(id)} ELSE {}

\* read_maxres does not look whether the bus is idle.
ReadTemperature ==
  /\ command.name = "answer"
  /\ strongPullUp' = FALSE
  /\ IF Scratchpad(command.id) = {} THEN Over("ERROR_CRC")
     ELSE \E reading \in Scratchpad(command.id) : Over(reading)
  /\ UNCHANGED <<present, heldLow, sensorVars, retryCount, commands, troubles, fed, shorted>>

\* read_decicelsius, read_maxres, their _single forms and, which does look, read_scratchpad
\* on their own.
Read(id) ==
  /\ Begin("none", id)
  /\ \/ outcome' = IF Scratchpad(id) = {} THEN "ERROR_CRC" ELSE "read"
     \/ heldLow /\ outcome' = "ERROR"
  /\ strongPullUp' = FALSE
  /\ UNCHANGED <<present, heldLow, sensorVars, retryCount, troubles, fed, shorted>>

-----------------------------------------------------------------------------
(* The settings: write_scratchpad, scratchpad_to_eeprom, eeprom_to_scratchpad *)

SendWrite(setting) ==
  /\ command.name = "write"
  /\ pad' = [s \in Sensors |-> IF s \in Hearing THEN [pad[s] EXCEPT !.setting = setting] ELSE pad[s]]
  /\ Over("ok")
  /\ UNCHANGED <<present, heldLow, eeprom, measuring, recalling, strongPullUp, retryCount, commands,
                 troubles, fed, shorted>>

\* With the strong pull-up for the 10 ms this takes, if the caller says so.
SendCopy(parasite) ==
  /\ command.name = "copy"
  /\ LET powered == {s \in Hearing : s \notin Parasites \/ parasite}
     IN /\ eeprom' = [s \in Sensors |-> IF s \in powered THEN pad[s].setting ELSE eeprom[s]]
        /\ Restart(Hearing \ powered) /\ recalling' = recalling \ (Hearing \ powered)
  /\ Over("ok")
  /\ UNCHANGED <<present, heldLow, measuring, strongPullUp, retryCount, commands, troubles, fed,
                 shorted>>

SendRecall ==
  /\ command.name = "recall"
  /\ recalling' = recalling \cup Hearing
  /\ retryCount' = Retries
  /\ command' = [command EXCEPT !.name = "recalling"]
  /\ UNCHANGED <<present, heldLow, pad, eeprom, measuring, strongPullUp, outcome, commands, troubles,
                 fed, shorted>>

\* Takes a sensor as long as it takes.
Recalled ==
  /\ \E s \in recalling :
       /\ recalling' = recalling \ {s}
       /\ pad' = [pad EXCEPT ![s].setting = eeprom[s]]
  /\ UNCHANGED <<present, heldLow, eeprom, measuring, strongPullUp, command, retryCount, outcome,
                 commands, troubles, fed, shorted>>

RecallBitOnce ==
  /\ command.name = "recalling"
  /\ retryCount' = (retryCount - 1) % (Retries + 1)
  /\ Over("recalled")
  /\ UNCHANGED <<present, heldLow, sensorVars, strongPullUp, commands, troubles, fed, shorted>>

\* while( retry_count-- && !ow_bit_io(1) ): the count is lowered, past 0 too, before the
\* bit is read; a sensor that recalls, and a bus that is held low, answer 0.
RecallBit ==
  /\ command.name = "recalling"
  /\ LET left == (retryCount - 1) % (Retries + 1)
         bit == ~heldLow /\ recalling \cap Addressed(command.id) = {}
     IN /\ retryCount' = left
        /\ IF retryCount # 0 /\ ~bit THEN UNCHANGED <<command, outcome>>
           ELSE Over(IF left # 0 THEN "recalled" ELSE "ERROR")
  /\ UNCHANGED <<present, heldLow, sensorVars, strongPullUp, commands, troubles, fed, shorted>>

\* One bit, 0 from any addressed sensor that is fed by the bus.
GetPowerStatus(id) ==
  /\ Begin("none", All) /\ measuring = {}
  /\ strongPullUp' = FALSE
  /\ outcome' = IF ~heldLow /\ Addressed(id) \cap Parasites = {} THEN "EXTERN" ELSE "PARASITE"
  /\ UNCHANGED <<present, heldLow, sensorVars, retryCount, troubles, fed, shorted>>

-----------------------------------------------------------------------------
Trouble == troubles < MaxTroubles /\ troubles' = troubles + 1

PowerFails ==
  /\ Trouble /\ fed' = FALSE
  /\ \E s \in present :
       Restart({s}) /\ measuring' = measuring \ {s} /\ recalling' = recalling \ {s}
  /\ UNCHANGED <<present, heldLow, eeprom, strongPullUp, command, retryCount, outcome, commands,
                 shorted>>

PlugOrUnplug ==
  /\ Trouble
  /\ \E s \in Sensors :
       \/ s \in present /\ present' = present \ {s}
       \/ s \notin present /\ present' = present \cup {s}
     /\ Restart({s}) /\ measuring' = measuring \ {s} /\ recalling' = recalling \ {s}
  /\ fed' = FALSE
  /\ UNCHANGED <<heldLow, eeprom, strongPullUp, command, retryCount, outcome, commands, shorted>>

ShortCircuit ==
  /\ Trouble
  /\ heldLow' = ~heldLow
  /\ fed' = FALSE
  /\ shorted' = (shorted \/ command.name \in Starts \cup Settling)
  /\ UNCHANGED <<present, sensorVars, strongPullUp, command, retryCount, outcome, commands>>

Ids == Sensors \cup {All}

ThermometerNext ==
  \/ \E id \in Sensors : TestBus("ask", id)
  \/ \E id \in Ids : TestBus("convert", id)
  \/ \E name \in Settling, id \in Sensors : TestBus(name, id)
  \/ StartFail
  \/ \E parasite \in BOOLEAN : SendConvert(parasite) \/ SendCopy(parasite)
  \/ \E setting \in Settings : SendWrite(setting)
  \/ SendRecall \/ Recalled \/ RecallBit
  \/ Measured \/ Delay \/ ReadTemperature
  \/ \E id \in Ids : Read(id) \/ GetPowerStatus(id)
  \/ PowerFails \/ PlugOrUnplug \/ ShortCircuit

ThermometerSpec == ThermometerInit /\ [][ThermometerNext]_thermometerVars

-----------------------------------------------------------------------------
ThermometerTypeOK ==
  /\ present \subseteq Sensors /\ measuring \subseteq Sensors /\ recalling \subseteq Sensors
  /\ pad \in [Sensors -> [reading : Readings, setting : Settings]] /\ eeprom \in [Sensors -> Settings]
  /\ command.name \in Starts \cup Settling \cup {"none", "query", "answer", "recalling"}
  /\ command.id \in Ids
  /\ retryCount \in 0 .. Retries
  /\ command.name = "answer" => measuring = {}

\* A query is answered with what its sensor measured since it was asked, whichever
\* command, power failure or short circuit comes between.  What an earlier measurement
\* left in the scratchpad is an answer only if the bus was shorted just between the test
\* of it and the command, 85 and 0 degrees only if something happened to the power or the
\* bus since the start, or the sensor is fed by the bus alone.  And a recall that reports
\* success has brought the settings back, but for a command that was lost likewise, and
\* for a count that ran out: lowered past 0, it is taken for success.
ReportsTrue ==
  /\ outcome = "before" => shorted
  /\ outcome \in {"reset", "zero"} => ~fed
  /\ outcome = "recalled" /\ command.id \in present /\ pad[command.id].setting # eeprom[command.id]
       => shorted \/ retryCount = Retries
=============================================================================
