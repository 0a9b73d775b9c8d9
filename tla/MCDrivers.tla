----------------------------- MODULE MCDrivers -----------------------------
(***************************************************************************)
(* The drivers of the board for the model checker: those of MCPeripherals, *)
(* the clock, the display, text streams and remote controls.  Each         *)
(* behaviour is one of one driver, as unit says, whose variables alone     *)
(* change; pure functions are tried on what `tested' holds.                *)
(***************************************************************************)
EXTENDS MCPeripherals, SystemClock

\* Of I2cLcd, TextStreams.
CONSTANTS Texts, Backlights, MaxCalls, MaxFailures,
          Values, Junks, Streams, Targets, Terminators
VARIABLES portA, portB, lcd, executed, todo, mDisplayControl, mDisplayMode, sent, lit, broken,
          lcdCalls, failures

\* Of RadioSwitch, Infrared, InfraredReceiver.
CONSTANTS Sendings, Requests, Noises, Distortions, Repeats, MaxOnAir, MaxChanges, IrSamples,
          GAP_TICKS, RAWBUFFER, Transmissions, Silences, MaxTransmissions
VARIABLES air, timings, repeatCount, received, radioPc, packet, unread, onAir, reported, overtaken
VARIABLES light, rcvstate, rawlen, timer, rawbuf, overflow, irPc, transmitted, awaited, raced,
          decoded

VARIABLE
  tested \* what the pure functions of TextStreams and Infrared are tried on

ofLcd == <<portA, portB, lcd, executed, todo, mDisplayControl, mDisplayMode, sent, lit, broken,
           lcdCalls, failures>>
ofRadio == <<air, timings, repeatCount, received, radioPc, packet, unread, onAir, reported,
             overtaken>>
ofReceiver == <<light, rcvstate, rawlen, timer, rawbuf, overflow, irPc, transmitted, awaited,
                raced, decoded>>

Lcd == INSTANCE I2cLcd
Text == INSTANCE TextStreams WITH text <- tested
Radio == INSTANCE RadioSwitch
Codes == INSTANCE Infrared WITH ir <- tested
Receiver == INSTANCE InfraredReceiver

ASSUME ReceiverAssumption == Receiver!InfraredReceiverAssumption

-----------------------------------------------------------------------------
(* Values *)

\* Thermometers among sensors of other families, which the search passes over.
MCThermometers == {code \in [1 .. 3 -> {0, 1}] : code[1] = 1 \/ code[2] = 1}

\* Raw readings of 16 bits over the range of either kind of sensor, and beyond.
MCSamples ==
  LET raw(numbers) == {n % 65536 : n \in numbers}
  IN [family : {40, 34}, raw : raw(-880 .. -720 \cup -170 .. 170 \cup 1980 .. 2000),
      resolution : 9 .. 12, remain: {0}]
     \cup [family : {16}, raw : raw(-110 .. -100 \cup -5 .. 20 \cup 240 .. 249),
           resolution : {9}, remain : 1 .. 16]
MCDamages == {{i, j} : i \in 1 .. 72, j \in 1 .. 72}

MCIntegers16 == {<<1, 2>>, <<3, 0>>}
MCIntegers32 == {<<0, 1, 2, 3>>}
MCArrays == {<<>>, <<2>>, <<1, 3, 2>>}

MCTexts == {<<65>>, <<65, 50>>}

MCValues == -101 .. 101 \cup {-1999, -1000, 999, 1000, 1995, 1999, 999999, -999999}
MCJunks == {<<>>, <<" ", "x">>}
MCStreams == UNION {[1 .. n -> {"a", "b", "c", "silence"}] : n \in 0 .. 5}
MCTargets == {<<"a">>, <<"a", "b">>, <<"a", "b", "b">>, <<"a", "b", "c">>, <<"a", "a", "b">>}
MCTerminators == {<<>>, <<"c">>, <<"b">>}

\* Sockets of three kinds, codes of the other two protocols, short and long noise.
MCRequests ==
  [kind : {"A"}, address : {<<"0", "1", "0", "1", "1", "0", "0", "0", "0", "1">>}, on : BOOLEAN]
    \cup {[kind |-> "C", address |-> <<16, 1, 4>>, on |-> TRUE],
          [kind |-> "D", address |-> <<4, 3>>, on |-> FALSE]}
MCSendings ==
  {[protocol |-> 2, pulse |-> 650, bits |-> <<1, 0, 1, 1>>],
   [protocol |-> 3, pulse |-> 100, bits |-> <<1, 0, 0, 1>>]}
MCNoises ==
  {<<6000, 300, 6100, 6050, 6000>>, [i \in 1 .. 24 |-> IF i % 8 = 0 THEN 7000 ELSE 100]}
MCDistortions == {-40, 40}

\* Codes of few, of many and of mixed bits, after one of two other codes.
Lengths(protocol) ==
  CASE protocol = "SONY" -> {12, 15, 20}
    [] protocol = "RC5" -> {12, 13, 14}
    [] protocol = "RC6" -> {20}
    [] protocol = "PANASONIC" -> {48}
    [] protocol = "LG" -> {28}
    [] protocol = "DENON" -> {14}
    [] protocol \in {"AIWA_RC_T501", "SHARP"} -> {15}
    [] protocol \in {"NEC", "SAMSUNG", "WHYNTER"} -> {32}
    [] OTHER -> {16}
Protocols ==
  {"SONY", "RC5", "RC6", "PANASONIC", "LG", "DENON", "AIWA_RC_T501", "SHARP", "NEC", "SAMSUNG",
   "WHYNTER", "JVC", "JVC again", "DISH", "LEGO_PF", "LEGO_PF again"}
Pattern(p, n) ==
  [i \in 1 .. n |->
     CASE p = 0 -> 0 [] p = 1 -> 1 [] p = 2 -> i % 2
       [] p = 3 -> IF i \in {1, 3, 4, n} THEN 1 ELSE 0]
MCIrSamples ==
  UNION {[protocol : {protocol}, bits : {Pattern(p, n) : p \in 0 .. 3, n \in Lengths(protocol)},
          excess : {0, 50, 100}, late : BOOLEAN, gap : {800, 2000},
          previous : {[protocol |-> "PANASONIC", bits |-> Pattern(2, 48)],
                      [protocol |-> "NEC", bits |-> Pattern(1, 32)]}] : protocol \in Protocols}

MCTransmissions == {<<1>>, <<2, 1, 1>>, <<1, 2, 2, 1, 1>>, <<3, 2, 1, 2, 1, 1, 1>>}

-----------------------------------------------------------------------------
DriverUnits == {"clock", "lcd", "text", "radio", "codes", "receiver"}
ofDrivers == <<tested, clockVars, ofLcd, ofRadio, ofReceiver>>
ofPeripherals == <<sample, ofSearch, ofSensor, ofSerial, ofSpi, ofAdc>>

DriversInit ==
  /\ unit \in Units \cup DriverUnits
  /\ PeripheralsInit
  /\ ClockInit /\ Radio!RadioInit /\ Receiver!ReceiverInit
  /\ Lcd!LcdInit /\ (unit # "lcd" => lcd.wide)
  /\ CASE unit = "text" -> Text!TextInit
       [] unit = "codes" -> Codes!IrInit
       [] OTHER -> tested = {}

\* All variables but those of one of these drivers.
ExceptClock == UNCHANGED <<unit, ofPeripherals, tested, ofLcd, ofRadio, ofReceiver>>
ExceptLcd == UNCHANGED <<unit, ofPeripherals, tested, clockVars, ofRadio, ofReceiver>>
ExceptRadio == UNCHANGED <<unit, ofPeripherals, tested, clockVars, ofLcd, ofReceiver>>
ExceptReceiver == UNCHANGED <<unit, ofPeripherals, tested, clockVars, ofLcd, ofRadio>>

DriversNext ==
  \/ MCNext /\ UNCHANGED ofDrivers
  \/ unit = "clock" /\ ClockNext /\ ExceptClock
  \/ unit = "lcd" /\ Lcd!LcdNext /\ ExceptLcd
  \/ unit = "radio" /\ Radio!RadioNext /\ ExceptRadio
  \/ unit = "receiver" /\ Receiver!ReceiverNext /\ ExceptReceiver

DriversSpec == DriversInit /\ [][DriversNext]_<<unit, ofPeripherals, ofDrivers>>

-----------------------------------------------------------------------------
\* Every variable of these drivers keeps its type; of the others, PeripheralsTypeOK says it.
DriversTypeOK ==
  CASE unit = "clock" -> ClockTypeOK
    [] unit = "lcd" -> Lcd!LcdTypeOK
    [] unit = "radio" -> Radio!RadioTypeOK
    [] unit = "receiver" -> Receiver!ReceiverTypeOK
    [] OTHER -> TRUE

\* The display takes exactly the bytes the driver sends.
DisplayInStep == unit = "lcd" => Lcd!DisplayInStep

\* What one side puts together the other takes apart to the same: numbers as Writer prints
\* and Reader reads them, the texts of temperatures, bytes on the SPI bus in either order;
\* find ends behind the first occurrence, and damage to a scratchpad is noticed.
DataReadBack ==
  CASE unit = "text" -> Text!NumberReadBack /\ Text!FindExact
    [] unit = "degrees" -> Degrees!TextsReadBack /\ Degrees!DamageNoticed
    [] unit = "spi" -> Bus!Exchanged
    [] OTHER -> TRUE

\* Codes of remotes, by radio and infrared, arrive as what was sent: CodesReported,
\* WholeTransmissions, SentIsDecoded and SentIsDistinct of the three modules.
RemoteCodesArrive ==
  CASE unit = "radio" -> Radio!CodesReported
    [] unit = "receiver" -> Receiver!WholeTransmissions
    [] unit = "codes" -> Codes!SentIsDecoded /\ Codes!SentIsDistinct
    [] OTHER -> TRUE
=============================================================================
