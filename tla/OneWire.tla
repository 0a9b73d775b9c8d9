------------------------------ MODULE OneWire ------------------------------
(***************************************************************************)
(* The search for thermometers on a 1-wire bus, lib/DS18X20: every pass of *)
(* ow_rom_search walks down the tree of ROM codes bit by bit, and what it  *)
(* returns tells the next pass where to turn.  All sensors answer at once; *)
(* the wire is high when all of them let it.  The program that asks for    *)
(* one sensor after the other is external.                                 *)
(***************************************************************************)
EXTENDS Integers, Sequences, FiniteSets

CONSTANTS
  RomBits,      \* the bits of a ROM code, 64 in the code
  Thermometers, \* the codes of the families DS18X20_find_sensor looks for
  MaxFaults     \* how often a sensor is unplugged

Codes == [1 .. RomBits -> {0, 1}]

\* What the constants are; assumed by MCPeripherals.
OneWireAssumption ==
  RomBits \in 1 .. 253 /\ Thermometers \subseteq Codes /\ MaxFaults \in Nat

VARIABLES
  sensors,   \* what is plugged in
  selected,  \* those that still take part in this pass
  searchPc,
  diff, romId, bitsLeft, nextDiff, \* of ow_rom_search: i is bitsLeft
  searchResult, \* of DS18X20_find_sensor
  found,     \* history: the codes the searching program was given
  faults

searchVars == <<sensors, selected, searchPc, diff, romId, bitsLeft, nextDiff, searchResult,
                found, faults>>

OW_LAST_DEVICE == 0
OW_DATA_ERR == 254
OW_PRESENCE_ERR == 255
OW_SEARCH_FIRST == 255

SearchInit ==
  /\ sensors \in SUBSET Codes /\ selected = {} /\ searchPc = "reset"
  /\ diff = OW_SEARCH_FIRST /\ romId = [k \in 1 .. RomBits |-> 0]
  /\ bitsLeft = 0 /\ nextDiff = 0
  /\ searchResult = "none" /\ found = <<>> /\ faults = 0

-----------------------------------------------------------------------------
(* One pass, ow_rom_search *)

\* ow_reset: somebody answers.
Presence ==
  /\ searchPc = "reset" /\ sensors # {}
  /\ selected' = sensors
  /\ bitsLeft' = RomBits /\ nextDiff' = OW_LAST_DEVICE
  /\ searchPc' = "bit"
  /\ UNCHANGED <<sensors, diff, romId, searchResult, found, faults>>

NoPresence ==
  /\ searchPc = "reset" /\ sensors = {}
  /\ diff' = OW_PRESENCE_ERR /\ searchPc' = "passed"
  /\ UNCHANGED <<sensors, selected, romId, bitsLeft, nextDiff, searchResult, found, faults>>

Bit == RomBits - bitsLeft + 1
ReadsHigh(value) == \A sensor \in selected : sensor[Bit] = value

\* The bit of the pass before, of the same place in id, decides below the place diff.
TurnAlways == diff >= bitsLeft \/ romId[Bit] = 1
Turn == diff > bitsLeft \/ (romId[Bit] = 1 /\ diff # bitsLeft)

Follow(bit) ==
  /\ romId' = [romId EXCEPT ![Bit] = bit]
  /\ selected' = {sensor \in selected : sensor[Bit] = bit}
  /\ bitsLeft' = bitsLeft - 1
  /\ searchPc' = IF bitsLeft' = 0 THEN "passed" ELSE "bit"
  /\ UNCHANGED <<sensors, searchResult, found, faults>>

\* All sensors have the same bit here.
SameBit ==
  /\ searchPc = "bit" /\ selected # {}
  /\ \E bit \in {0, 1} : ReadsHigh(bit) /\ Follow(bit)
  /\ diff' = IF bitsLeft = 1 THEN nextDiff ELSE diff
  /\ UNCHANGED nextDiff

\* Some have a 0, some a 1: both reads are low.
Branch ==
  /\ searchPc = "bit" /\ ~ReadsHigh(0) /\ ~ReadsHigh(1)
  /\ Follow(IF Turn THEN 1 ELSE 0)
  /\ nextDiff' = IF Turn THEN bitsLeft ELSE nextDiff
  /\ diff' = IF bitsLeft = 1 THEN nextDiff' ELSE diff

\* Both reads are high: nobody is there any more.
NobodyLeft ==
  /\ searchPc = "bit" /\ selected = {}
  /\ diff' = OW_DATA_ERR /\ searchPc' = "passed"
  /\ UNCHANGED <<sensors, selected, romId, bitsLeft, nextDiff, searchResult, found, faults>>

-----------------------------------------------------------------------------
(* DS18X20_find_sensor, and the program that calls it until the last device *)

Ends == {OW_LAST_DEVICE, OW_DATA_ERR, OW_PRESENCE_ERR}

\* Another family: the next pass.
SkipOther ==
  /\ searchPc = "passed" /\ diff \notin Ends /\ romId \notin Thermometers
  /\ searchPc' = "reset"
  /\ UNCHANGED <<sensors, selected, diff, romId, bitsLeft, nextDiff, searchResult, found, faults>>

\* The last device is reported as an error, although its code is in id.
FindSensor ==
  /\ searchPc = "passed" /\ (diff \in Ends \/ romId \in Thermometers)
  /\ searchResult' = IF diff \in Ends THEN "error" ELSE "ok"
  /\ found' = IF diff \in {OW_DATA_ERR, OW_PRESENCE_ERR} THEN found ELSE Append(found, romId)
  /\ searchPc' = IF diff \in Ends THEN "over" ELSE "reset"
  /\ UNCHANGED <<sensors, selected, diff, romId, bitsLeft, nextDiff, faults>>

-----------------------------------------------------------------------------
Fault == faults < MaxFaults /\ faults' = faults + 1

Unplug ==
  /\ Fault /\ searchPc # "over"
  /\ \E sensor \in sensors : sensors' = sensors \ {sensor} /\ selected' = selected \ {sensor}
  /\ UNCHANGED <<searchPc, diff, romId, bitsLeft, nextDiff, searchResult, found>>

SearchNext ==
  \/ Presence \/ NoPresence \/ SameBit \/ Branch \/ NobodyLeft
  \/ SkipOther \/ FindSensor \/ Unplug

SearchSpec == SearchInit /\ [][SearchNext]_searchVars

-----------------------------------------------------------------------------
SearchTypeOK ==
  /\ sensors \subseteq Codes /\ selected \subseteq sensors /\ romId \in Codes
  /\ bitsLeft \in 0 .. RomBits /\ diff \in 0 .. RomBits \cup Ends
  /\ nextDiff \in 0 .. RomBits

\* The passes visit every sensor: when the last device is reported, all thermometers that
\* are still there were given to the program, also those that come after a sensor that was
\* unplugged half-way through a pass; and as long as nobody unplugs one, none is given
\* twice.
EverySensorFound ==
  /\ searchPc = "over" /\ diff = OW_LAST_DEVICE =>
       \A sensor \in sensors \cap Thermometers : \E k \in DOMAIN found : found[k] = sensor
  /\ faults = 0 => \A k, l \in DOMAIN found : found[k] = found[l] => k = l
=============================================================================
