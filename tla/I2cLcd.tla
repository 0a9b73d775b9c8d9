------------------------------- MODULE I2cLcd -------------------------------
(***************************************************************************)
(* The driver of a display behind a port expander, lib/AVRTools/I2cLcd.    *)
(* A byte for the display's controller goes in two halves of four bits     *)
(* over port B of the expander, each with a pulse of the enable line that  *)
(* takes three transfers on the I2C bus; the backlight shares the port.    *)
(* A transfer may fail; the driver keeps its order, as I2cMaster does.     *)
(***************************************************************************)
EXTENDS Integers, Sequences, SequencesExt

CONSTANTS
  Texts,       \* what is written
  Backlights,  \* the arguments of setBacklight: sets of colours
  MaxCalls, MaxFailures

VARIABLES
  portA, portB,  \* output latches: red and green; the pins to the controller, blue
  lcd,           \* the controller: 8 bits wide or 4; the half byte it has; the pulse's level
  executed,      \* the bytes it took since it was made 4 bits wide
  todo,          \* the call: groups of transfers, an error drops the rest of a group
  mDisplayControl, mDisplayMode,
  sent,          \* history: the bytes the driver was to send since init began
  lit,           \* history: the backlight last asked for, and by which call
  broken,        \* history: "no", or what failed since init began
  lcdCalls, failures

lcdVars == <<portA, portB, lcd, executed, todo, mDisplayControl, mDisplayMode, sent, lit,
             broken, lcdCalls, failures>>

Colours == {"red", "green", "blue"}

\* The commands and their flags.
LCD_CLEARDISPLAY == 1
LCD_RETURNHOME == 2
LCD_ENTRYMODESET == 4
LCD_DISPLAYCONTROL == 8
LCD_CURSORSHIFT == 16
LCD_FUNCTIONSET == 32
LCD_SETDDRAMADDR == 128
Flag == [blink |-> 1, cursor |-> 2, on |-> 4, shift |-> 1, left |-> 2, lines |-> 8,
         right |-> 4, display |-> 8]

Flags(set) == FoldSet(LAMBDA flag, sum : Flag[flag] + sum, 0, set)

NoHalf == -1
Pins == [rs |-> 0, rw |-> 0, enable |-> 0, nibble |-> 0, dark |-> 1]

LcdInit == \* a reset of the board resets neither expander nor display
  /\ portA = {} /\ portB = Pins
  /\ lcd \in [wide : {TRUE}, half : {NoHalf}] \cup [wide : {FALSE}, half : {NoHalf, 0, 2, 3, 8}]
  /\ executed = <<>> /\ todo = <<>> /\ mDisplayControl = {} /\ mDisplayMode = {}
  /\ sent = <<>> /\ lit = [by |-> "nobody", colours |-> {}] /\ broken = "init" /\ lcdCalls = 0 /\ failures = 0

-----------------------------------------------------------------------------
(* The controller takes four lines at the falling edge of enable: external *)

Take(pins) ==
  CASE lcd.wide /\ pins.nibble = 2 /\ pins.rs = 0 ->
         lcd' = [wide |-> FALSE, half |-> NoHalf] /\ executed' = <<>>
    [] lcd.wide /\ ~(pins.nibble = 2 /\ pins.rs = 0) -> UNCHANGED <<lcd, executed>>
    [] ~lcd.wide /\ lcd.half = NoHalf ->
         lcd' = [lcd EXCEPT !.half = pins.nibble] /\ UNCHANGED executed
    [] OTHER -> \* function set with its 8-bit flag makes it wide again
         /\ lcd' = [wide |-> pins.rs = 0 /\ lcd.half = 3, half |-> NoHalf]
         /\ executed' = Append(executed, [rs |-> pins.rs, value |-> lcd.half * 16 + pins.nibble])

WritePortB(pins) ==
  /\ portB' = pins
  /\ IF portB.enable = 1 /\ pins.enable = 0 THEN Take(pins) ELSE UNCHANGED <<lcd, executed>>

-----------------------------------------------------------------------------
(* What a call transfers *)

\* writeFourBitsToLcd: data with enable low, high, low again.
Pulse(rs, nibble) ==
  [k \in 1 .. 3 |-> [kind |-> "pins", rs |-> rs, nibble |-> nibble, enable |-> IF k = 2 THEN 1 ELSE 0]]

ReadPins == [kind |-> "read"] \* readSync of the output latch

\* sendCharOrCmdToLcd: the upper half first.
LowHalfFirst(byte) ==
  <<ReadPins>> \o Pulse(byte.rs, byte.value % 16) \o Pulse(byte.rs, byte.value \div 16)
SendByte(byte) ==
  <<ReadPins>> \o Pulse(byte.rs, byte.value \div 16) \o Pulse(byte.rs, byte.value % 16)

Command(value) == <<[rs |-> 0, value |-> value]>>
Write(text) == [k \in DOMAIN text |-> [rs |-> 1, value |-> text[k]]]
SetCursor(row, col) == Command(LCD_SETDDRAMADDR + col + (row % 2) * 64)
kBlankLine == [k \in 1 .. 2 |-> 32] \* 16 in the code

\* Several groups of bytes: an error ends write(str), not the calls that follow it.
Groups(bytes) == [g \in DOMAIN bytes |-> FlattenSeq([k \in DOMAIN bytes[g] |-> SendByte(bytes[g][k])])]

Clear == Command(LCD_CLEARDISPLAY)
Home == Command(LCD_RETURNHOME)

DisplayRow(row, text) == <<SetCursor(row, 0), Write(kBlankLine), SetCursor(row, 0), Write(text)>>

Scroll == {Command(LCD_CURSORSHIFT + Flag.display + right) : right \in {0, Flag.right}}

\* Calls that keep mDisplayControl and mDisplayMode.
PlainCalls ==
  {<<Clear>>, <<Home>>} \cup {<<scroll>> : scroll \in Scroll}
    \cup {DisplayRow(row, text) : row \in {0, 1}, text \in Texts}
    \cup {<<SetCursor(row, 0), Write(text)>> : row \in {0, 1, 2}, text \in Texts}

-----------------------------------------------------------------------------
Begin(bytes, groups) == \* init comes first
  /\ todo = <<>> /\ broken # "init" /\ lcdCalls < MaxCalls
  /\ lcdCalls' = lcdCalls + 1
  /\ sent' = sent \o FlattenSeq(bytes)
  /\ todo' = groups

Device == <<portA, portB, lcd, executed>>

CallPlain ==
  /\ \E bytes \in PlainCalls : Begin(bytes, Groups(bytes))
  /\ UNCHANGED <<Device, mDisplayControl, mDisplayMode, lit, broken, failures>>

Toggle(set, flag) == {set \cup {flag}, set \ {flag}}

\* displayOn, displayOff, cursorOn, cursorOff, blinkOn, blinkOff
CallDisplayControl ==
  /\ \E flag \in {"on", "cursor", "blink"} : mDisplayControl' \in Toggle(mDisplayControl, flag)
  /\ LET bytes == <<Command(LCD_DISPLAYCONTROL + Flags(mDisplayControl'))>>
     IN Begin(bytes, Groups(bytes))
  /\ UNCHANGED <<Device, mDisplayMode, lit, broken, failures>>

\* autoscrollOn, autoscrollOff
CallAutoscroll ==
  /\ mDisplayMode' \in Toggle(mDisplayMode, "shift")
  /\ LET bytes == <<Command(LCD_ENTRYMODESET + Flags(mDisplayMode'))>>
     IN Begin(bytes, Groups(bytes))
  /\ UNCHANGED <<Device, mDisplayControl, lit, broken, failures>>

\* setBacklight reads both latches and writes them back without waiting for the end.
Backlight(colours) == <<ReadPins, [kind |-> "light", colours |-> colours]>>

CallSetBacklight ==
  /\ \E colours \in Backlights :
       /\ lit' = [by |-> "setBacklight", colours |-> colours]
       /\ Begin(<<>>, <<Backlight(colours)>>)
  /\ UNCHANGED <<Device, mDisplayControl, mDisplayMode, broken, failures>>

\* initMCP23017, setBacklight and initHD44780U.  Four halves make a controller in whatever
\* state 4 bits wide; the commands after them do not look at errors.  init asks for white,
\* 0x07, and then writes the whole of port B: its first value there, and every half byte of
\* this sequence, has blue off, active low.
ResynchronizeTwice == FlattenSeq([k \in 1 .. 3 |-> Pulse(0, IF k < 3 THEN 3 ELSE 2)])
Resynchronize == FlattenSeq([k \in 1 .. 4 |-> Pulse(0, IF k < 4 THEN 3 ELSE 2)])

Function == Command(LCD_FUNCTIONSET + Flag.lines)
Others == <<Command(LCD_DISPLAYCONTROL + Flag.on), Clear, Command(LCD_ENTRYMODESET + Flag.left)>>

CallInit ==
  /\ todo = <<>> /\ lcdCalls < MaxCalls /\ lcdCalls' = lcdCalls + 1
  /\ sent' = Function \o FlattenSeq(Others)
  /\ todo' = <<<<[kind |-> "modes"], [kind |-> "pullups"]>> \o Backlight(Colours)
                 \o <<[kind |-> "idle"]>> \o Resynchronize \o Groups(<<Function>>)[1]>>
               \o Groups(Others)
  /\ lit' = [by |-> "init", colours |-> Colours] /\ broken' = "no"
  /\ UNCHANGED <<Device, mDisplayControl, mDisplayMode, failures>>

\* No other call has four groups left when only the bytes of init are to be sent.
Initializing == Len(todo) = 1 + Len(Others) /\ Len(sent) = 1 + Len(Others)

-----------------------------------------------------------------------------
(* The transfers, one after the other *)

Next1 == Head(Head(todo))
Rest ==
  IF Len(Head(todo)) = 1 THEN SelectSeq(Tail(todo), LAMBDA group : group # <<>>)
  ELSE <<Tail(Head(todo))>> \o Tail(todo)

Transfer ==
  /\ todo # <<>>
  /\ CASE Next1.kind = "pins" ->
            /\ WritePortB([rs |-> Next1.rs, rw |-> 0, enable |-> Next1.enable,
                           nibble |-> Next1.nibble, dark |-> portB.dark])
            /\ UNCHANGED portA
       [] Next1.kind = "idle" -> WritePortB(Pins) /\ UNCHANGED portA
       [] Next1.kind = "light" ->
            /\ portA' = Next1.colours \ {"blue"}
            /\ WritePortB([portB EXCEPT !.dark = IF "blue" \in Next1.colours THEN 0 ELSE 1])
       [] OTHER -> UNCHANGED Device
  /\ todo' = Rest
  /\ IF Initializing /\ Len(Head(todo)) = 1 THEN mDisplayControl' = {"on"} /\ mDisplayMode' = {"left"}
     ELSE UNCHANGED <<mDisplayControl, mDisplayMode>>
  /\ UNCHANGED <<sent, lit, broken, lcdCalls, failures>>

\* The error of a transfer that is not waited for reaches nobody; any other ends init.
TransferFails ==
  /\ todo # <<>> /\ failures < MaxFailures /\ failures' = failures + 1
  /\ todo' = CASE Next1.kind \in {"light", "pullups"} -> Rest
               [] Next1.kind \notin {"light", "pullups"} /\ Initializing -> <<>>
               [] OTHER -> Tail(todo)
  /\ broken' = IF broken = "no" /\ Next1.kind \in {"light", "pullups"} THEN "light" ELSE "bytes"
  /\ UNCHANGED <<Device, mDisplayControl, mDisplayMode, sent, lit, lcdCalls>>

LcdNext ==
  \/ CallInit \/ CallPlain \/ CallDisplayControl \/ CallAutoscroll \/ CallSetBacklight
  \/ Transfer \/ TransferFails

LcdSpec == LcdInit /\ [][LcdNext]_lcdVars

-----------------------------------------------------------------------------
LcdTypeOK ==
  /\ portA \subseteq {"red", "green"} /\ lcd.half \in -1 .. 15 /\ portB.nibble \in 0 .. 15
  /\ mDisplayControl \subseteq {"on", "cursor", "blink"} /\ mDisplayMode \subseteq {"left", "shift"}
  /\ todo = <<>> \/ \A g \in DOMAIN todo : todo[g] # <<>>

\* After init, which brings a controller left in any state, by a failed transfer too and
\* half a byte included, into step again, it takes exactly the bytes the driver sends, in
\* their order and however the backlight is switched in between, until a transfer of theirs
\* fails.  The backlight has the red and green last asked for, until any transfer fails,
\* and the blue last asked of setBacklight: the blue that init itself asks for, line 227,
\* its own next transfer takes back, line 311, so that init leaves it yellow.
DisplayInStep ==
  /\ broken \in {"no", "light"} /\ todo = <<>> =>
       executed = sent /\ lcd = [wide |-> FALSE, half |-> NoHalf]
  /\ broken = "no" /\ todo = <<>> =>
       /\ portA = lit.colours \ {"blue"}
       /\ portB.dark = 0 <=> "blue" \in lit.colours /\ lit.by # "init"
       /\ \E k \in DOMAIN sent : sent[k].value = LCD_DISPLAYCONTROL + Flags(mDisplayControl)
=============================================================================
