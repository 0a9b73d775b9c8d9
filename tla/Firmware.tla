------------------------------ MODULE Firmware ------------------------------
(***************************************************************************)
(* A board (src/avr/core/src): one endless main program that takes bytes   *)
(* from the serial port, parses frames, lets the handler of a command act, *)
(* and then gives every handler its turn; and the interrupt routines that  *)
(* come between any two of its steps.  The serial port is Uart; the I2C    *)
(* bus is the blocking master of lib/i2cmaster, as the I2C handler uses it. *)
(* The host sends queries; bytes get lost on the line or in the ring.      *)
(***************************************************************************)
EXTENDS Uart, FiniteSets, SequencesExt

CONSTANTS
  Queries,    \* what the host sends: records of command and data
  Chips,      \* the I2C addresses something may answer at
  Registers,  \* the registers of a chip
  Block,      \* the bytes of a block, 8 in the code
  DataSize,   \* DATA_BUFFER_SIZE, 255 in the code
  MaxQueries, \* how many queries are sent
  MaxDisturbances, \* how many bytes are damaged and codes arrive
  MaxChanges  \* how often the pin changes

\* CommandBytes.h
CMB_DEVICE_IDENTIFICATION == 224
CMB_I2C == 225
RC_SWITCH == 228
CMB_DS18B20 == 229
CMB_IR == 230
CMB_COMMON_INTERRUPT == 231

Delimiter == 255
Attached == {CMB_DEVICE_IDENTIFICATION, CMB_COMMON_INTERRUPT, CMB_I2C, RC_SWITCH,
             CMB_IR, CMB_DS18B20}

\* An escape byte has a bit for each byte of its block.
ASSUME FirmwareAssumption ==
  /\ Bytes = 0 .. 255
  /\ Block \in 2 .. 8 /\ MaxQueries \in Nat
  /\ DataSize \in Nat /\ DataSize > 3 /\ DataSize < 65536
  /\ MaxDisturbances \in Nat /\ MaxChanges \in Nat
  /\ Chips \subseteq Bytes /\ Registers \subseteq Bytes

\* Queries fit into the buffer with their last escape byte; I2CReadQuery and I2CWriteQuery
\* compose four bytes and more, and a read is for at least one register.
ASSUME QueriesAssumption ==
  \A query \in Queries :
    /\ query \in [command : Attached, data : Seq(Bytes \ {Delimiter})]
    /\ Len(query.data) % Block # 0 \/ query.data = <<>>
    /\ Len(query.data) < DataSize
    /\ query.command = CMB_I2C =>
         Len(query.data) > 3 /\ (query.data[1] \div 64 = 1 => query.data[4] > 0)

VARIABLES
  pc, next,                   \* where the main program is; where it goes on after sending
  outbox,                     \* the bytes of the packet it is sending
  expect, commandByte, data, dataIndex, \* of the parser
  commonInterruptPacketDispatch, loaded, \* the counter, and as the main program read it
  available,                  \* the receivers, radio and infrared, that hold a code
  absent, slave, readData, registers, \* the bus: silent chips, the addressed chip, its bytes
  incoming,                   \* the bytes on the line to the board
  asked, handled,             \* history: queries sent, frames handed to handlers
  disturbances, damaged,      \* how many there were, and whether a byte was damaged
  changes,                    \* how often the pin changed
  unreported                  \* history: it changed since a packet began to say so

parser == <<expect, commandByte, data, dataIndex>>
interrupts == <<commonInterruptPacketDispatch, loaded, changes, unreported>>
bus == <<absent, slave, readData, registers>>
line == <<incoming, asked, damaged>>
main == <<pc, next, outbox>>
vars == <<uart, main, parser, interrupts, available, bus, line, handled, disturbances>>

-----------------------------------------------------------------------------
(* Frames, as sendPacket encodes what holds no 0xFF: see AVRFraming *)

Body(bytes) ==
  LET length == Len(bytes) + (Len(bytes) + Block - 1) \div Block
  IN [j \in 1 .. length |->
        IF j % (Block + 1) = 0 \/ j = length THEN 0 ELSE bytes[j - j \div (Block + 1)]]

Frame(command, bytes) == <<Delimiter, command>> \o Body(bytes) \o <<Delimiter>>

-----------------------------------------------------------------------------
Init ==
  /\ UartInit
  /\ pc = "getc" /\ next = "getc" /\ outbox = <<>>
  /\ expect = "NOTHING" /\ commandByte = 0 /\ dataIndex = 0
  /\ data = [i \in 0 .. DataSize - 1 |-> 0]
  /\ commonInterruptPacketDispatch = 0 /\ loaded = 0 /\ available = {}
  /\ absent \in SUBSET Chips /\ slave = "off" /\ readData = <<>>
  /\ registers = [chip \in Chips |-> [r \in Registers |-> 0]]
  /\ incoming = <<>> /\ asked = <<>> /\ handled = <<>>
  /\ disturbances = 0 /\ damaged = FALSE /\ changes = 0 /\ unreported = FALSE

(* The host, and what happens to its bytes *)

Disturbed == disturbances < MaxDisturbances /\ disturbances' = disturbances + 1

HostSends ==
  /\ Len(asked) < MaxQueries
  /\ \E query \in Queries :
       /\ asked' = Append(asked, query)
       /\ incoming' = incoming \o Frame(query.command, query.data)
  /\ UNCHANGED <<uart, main, parser, interrupts, available, bus, damaged, handled, disturbances>>

Arrive ==
  /\ incoming # <<>>
  /\ ReceiveInterrupt(Head(incoming), {})
  /\ incoming' = Tail(incoming)
  /\ IF After(rxHead, RxSize) = rxTail
     THEN Disturbed /\ damaged' = TRUE
     ELSE UNCHANGED <<disturbances, damaged>>
  /\ UNCHANGED <<main, parser, interrupts, available, bus, asked, handled>>

\* A byte without stop bit, or one that came before its predecessor was read.
ArriveDamaged ==
  /\ incoming # <<>> /\ Disturbed
  /\ \/ /\ ReceiveInterrupt(Head(incoming), {"frame"})
        /\ incoming' = Tail(incoming)
     \/ /\ Len(incoming) > 1
        /\ ReceiveInterrupt(incoming[2], {"overrun"})
        /\ incoming' = Tail(Tail(incoming))
  /\ damaged' = TRUE
  /\ UNCHANGED <<main, parser, interrupts, available, bus, asked, handled>>

DataRegisterEmpty ==
  /\ TransmitInterrupt
  /\ UNCHANGED <<main, parser, interrupts, available, bus, line, handled, disturbances>>

PinChangeUncounted ==
  /\ changes < MaxChanges /\ changes' = changes + 1
  /\ commonInterruptPacketDispatch' = (commonInterruptPacketDispatch + 1) % 2
  /\ unreported' = TRUE
  /\ UNCHANGED <<uart, main, parser, loaded, available, bus, line, handled, disturbances>>

\* ISR(PCINT2_vect)
PinChange ==
  /\ changes < MaxChanges /\ changes' = changes + 1
  /\ commonInterruptPacketDispatch' = (commonInterruptPacketDispatch + 1) % 256
  /\ unreported' = TRUE
  /\ UNCHANGED <<uart, main, parser, loaded, available, bus, line, handled, disturbances>>

\* The routines of the receivers have a complete code.
CodeReceived ==
  /\ Disturbed
  /\ \E receiverKind \in {"rc", "ir"} : available' = available \cup {receiverKind}
  /\ UNCHANGED <<uart, main, parser, interrupts, bus, line, handled>>

-----------------------------------------------------------------------------
(* The inner loop of main: uart_getc, error bytes *)

Getc ==
  /\ pc = "getc"
  /\ GetcRead \/ GetcAdvance
  /\ UNCHANGED <<main, parser, interrupts, available, bus, line, handled, disturbances>>

\* UART_NO_DATA ends the inner loop.
NoData ==
  /\ pc = "getc" /\ NothingReceived
  /\ pc' = "interrupts"
  /\ UNCHANGED <<uart, next, outbox, parser, interrupts, available, bus, line, handled, disturbances>>

ErrorByte(error) ==
  CASE "frame" \in error -> 17 [] "overrun" \in error -> 18 [] OTHER -> 19

Transmit(bytes, then) == pc' = "transmit" /\ outbox' = bytes /\ next' = then

GetcError ==
  /\ pc = "getc" /\ GetcReturn /\ call.error # {}
  /\ Transmit(<<ErrorByte(call.error)>>, "getc")
  /\ UNCHANGED <<parser, interrupts, available, bus, line, handled, disturbances>>

Byte == call.byte
GetcByte == pc = "getc" /\ GetcReturn /\ call.error = {}

-----------------------------------------------------------------------------
(* parseByte *)

Bit(byte, i) == (byte \div 2^i) % 2 = 1

\* The n bytes before the end-th, those with their bit set made 0xFF.
Unescape(bytes, end, n, escape) ==
  [k \in DOMAIN bytes |->
     IF k < end /\ end - k <= n /\ Bit(escape, end - k - 1) THEN Delimiter ELSE bytes[k]]

ParseCommandKeepIndex ==
  /\ GetcByte /\ Byte # Delimiter /\ expect = "CMD"
  /\ commandByte' = Byte
  /\ expect' = "DATA"
  /\ UNCHANGED <<data, dataIndex, main, interrupts, available, bus, line, handled, disturbances>>

ParseCommand ==
  /\ GetcByte /\ Byte # Delimiter /\ expect = "CMD"
  /\ commandByte' = Byte
  /\ dataIndex' = 0 /\ expect' = "DATA"
  /\ UNCHANGED <<data, main, interrupts, available, bus, line, handled, disturbances>>

\* What the code writes behind the buffer is not followed any further.
ParseData ==
  /\ GetcByte /\ Byte # Delimiter /\ expect = "DATA"
  /\ data' = [data EXCEPT ![dataIndex] = Byte]
  /\ dataIndex' = (dataIndex + 1) % 65536
  /\ expect' = IF dataIndex' % Block = 0 THEN "ESC" ELSE "DATA"
  /\ UNCHANGED <<commandByte, main, interrupts, available, bus, line, handled, disturbances>>

\* The flag of a full block, 0x7F after 0xF0, is among the bytes of AVRFraming only.
ParseEscape ==
  /\ GetcByte /\ Byte # Delimiter /\ expect = "ESC"
  /\ data' = Unescape(data, dataIndex, Block, Byte)
  /\ expect' = "DATA"
  /\ UNCHANGED <<commandByte, dataIndex, main, interrupts, available, bus, line, handled, disturbances>>

\* A byte before the first delimiter.
ParseUnexpected ==
  /\ GetcByte /\ Byte # Delimiter /\ expect = "NOTHING"
  /\ Transmit(<<51>>, "getc")
  /\ UNCHANGED <<parser, interrupts, available, bus, line, handled, disturbances>>

ParseStart ==
  /\ GetcByte /\ Byte = Delimiter /\ expect \in {"NOTHING", "CMD"}
  /\ expect' = "CMD"
  /\ UNCHANGED <<commandByte, data, dataIndex, main, interrupts, available, bus, line, handled, disturbances>>

ParseEndWithEscape(lookup) ==
  /\ GetcByte /\ Byte = Delimiter /\ expect \in {"DATA", "ESC"}
  /\ UNCHANGED <<data, dataIndex>>
  /\ expect' = "CMD"
  /\ lookup
  /\ UNCHANGED <<commandByte, interrupts, available, line, disturbances>>

\* The end of a frame: the last, incomplete block is decoded.  Without data the index
\* wraps around, dataIndex - 1 = 65535, and the byte before the buffer is read: the
\* high byte of its size in the allocation's header, which is 0.
ParseEnd(lookup) ==
  /\ GetcByte /\ Byte = Delimiter /\ expect \in {"DATA", "ESC"}
  /\ LET last == (dataIndex - 1) % 65536
         rest == last % Block
     IN IF rest = 0 THEN UNCHANGED <<data, dataIndex>>
        ELSE /\ dataIndex' = last
             /\ data' = IF dataIndex = 0 THEN data
                        ELSE Unescape(data, last, rest, data[last])
  /\ expect' = "CMD"
  /\ lookup
  /\ UNCHANGED <<commandByte, interrupts, available, line, disturbances>>

NotHandled ==
  ParseEnd(/\ commandByte \notin Attached \cup {0}
           /\ Transmit(<<34>>, "getc")
           /\ UNCHANGED <<bus, handled>>)

\* 0x00 marks the empty slots of the table: a frame with this command is given to the
\* handler of the first empty one, a pointer nobody has set.
HandledByNobody ==
  ParseEnd(/\ commandByte = 0
           /\ pc' = "crashed"
           /\ UNCHANGED <<next, outbox, bus, handled>>)

Payload == [i \in 1 .. IF dataIndex' = 65535 THEN 0 ELSE dataIndex' |-> data'[i - 1]]

Handle(command) ==
  /\ commandByte = command /\ command \in Attached
  /\ handled' = Append(handled, [command |-> command, data |-> Payload])

Identify ==
  ParseEnd(/\ Handle(CMB_DEVICE_IDENTIFICATION)
           /\ Transmit(Frame(CMB_DEVICE_IDENTIFICATION, <<1>>), "getc")
           /\ UNCHANGED bus)

\* These handlers do nothing, or nothing the host or another part can see.
HandleSilently ==
  ParseEnd(/\ \E command \in {CMB_COMMON_INTERRUPT, CMB_IR, RC_SWITCH} : Handle(command)
           /\ pc' = "getc" /\ UNCHANGED <<next, outbox, bus>>)

\* Starts a measurement, waits 750 ms, reads it; without answer nothing is sent.
HandleTemperature ==
  ParseEnd(/\ Handle(CMB_DS18B20)
           /\ \/ Transmit(Frame(CMB_DS18B20, <<10, data'[1], 0, 0>>), "getc")
              \/ pc' = "getc" /\ UNCHANGED <<next, outbox>>
           /\ UNCHANGED bus)

Slave == data[1]

HandleI2C ==
  ParseEnd(/\ Handle(CMB_I2C)
           /\ pc' = (CASE data'[0] \div 64 = 0 -> "writeStart"
                       [] data'[0] \div 64 = 1 -> "readStart"
                       [] OTHER -> "getc")
           /\ readData' = <<>>
           /\ UNCHANGED <<absent, slave, registers, next, outbox>>)

-----------------------------------------------------------------------------
(* I2C::Handler::handle with the calls of lib/i2cmaster.  i2c_start_wait begins anew *)
(* while nobody acknowledges the address: a silent chip holds the main program here. *)

Here == UNCHANGED <<uart, parser, interrupts, available, line, handled, disturbances>>

I2cStartWait ==
  /\ pc \in {"writeStart", "readStart"} /\ Slave \in Chips \ absent
  /\ slave' = "listening"
  /\ pc' = IF pc = "writeStart" THEN "writeBytes" ELSE "readRegister"
  /\ UNCHANGED <<next, outbox, absent, readData, registers>> /\ Here

\* The first byte selects the register, the others go into it and those that follow.
\* They are counted in a byte, which never gets to the end of a frame that is longer
\* than the buffer: such a frame, one that lost its delimiter, is written for ever.
I2cWrite ==
  /\ pc = "writeBytes" /\ dataIndex <= DataSize
  /\ registers' = [registers EXCEPT ![Slave] =
       [r \in Registers |-> IF r >= data[2] /\ r - data[2] + 3 < dataIndex
                            THEN data[r - data[2] + 3] ELSE @[r]]]
  /\ pc' = "writeStop"
  /\ UNCHANGED <<next, outbox, absent, slave, readData>> /\ Here

\* i2c_write of the register and i2c_rep_start for reading.
I2cRepStart ==
  /\ pc = "readRegister"
  /\ slave' = "sending"
  /\ pc' = "readBytes"
  /\ UNCHANGED <<next, outbox, absent, readData, registers>> /\ Here

I2cReadAckAll ==
  /\ pc = "readBytes"
  /\ IF Len(readData) < data[3]
     THEN /\ \E value \in {registers[Slave][r] : r \in Registers} : readData' = Append(readData, value)
          /\ UNCHANGED <<pc, slave>>
     ELSE pc' = "readStop" /\ UNCHANGED <<readData, slave>>
  /\ UNCHANGED <<next, outbox, absent, registers>> /\ Here

\* i2c_read acknowledges every byte but the last: then the chip lets go of the line.
I2cRead ==
  /\ pc = "readBytes"
  /\ IF Len(readData) < data[3]
     THEN /\ \E value \in {registers[Slave][r] : r \in Registers} : readData' = Append(readData, value)
          /\ slave' = IF Len(readData) # data[3] - 1 THEN "sending" ELSE "listening"
          /\ UNCHANGED pc
     ELSE pc' = "readStop" /\ UNCHANGED <<readData, slave>>
  /\ UNCHANGED <<next, outbox, absent, registers>> /\ Here

\* i2c_stop waits until the stop condition is on the bus, which a chip that sends prevents.
I2cStop ==
  /\ pc \in {"writeStop", "readStop"} /\ slave # "sending"
  /\ slave' = "off"
  /\ IF pc = "writeStop" THEN pc' = "getc" /\ UNCHANGED <<next, outbox>>
     ELSE Transmit(Frame(CMB_I2C, <<0, Slave, data[2]>> \o readData), "getc")
  /\ UNCHANGED <<absent, readData, registers>> /\ Here

-----------------------------------------------------------------------------
(* transmit, which is uart_putc, for each byte of the outbox *)

Putc ==
  /\ pc = "transmit"
  /\ \/ PutcStore(Head(outbox)) /\ UNCHANGED main
     \/ PutcPublish /\ UNCHANGED main
     \/ /\ PutcEnable
        /\ outbox' = Tail(outbox)
        /\ pc' = IF Len(outbox) = 1 THEN next ELSE "transmit"
        /\ UNCHANGED next
  /\ UNCHANGED <<parser, interrupts, available, bus, line, handled, disturbances>>

-----------------------------------------------------------------------------
(* BlackbirdClass::loop: the turns of the handlers that do something in theirs *)

Elsewhere == UNCHANGED <<uart, parser, available, bus, line, handled, disturbances>>

NoInterrupts ==
  /\ pc = "interrupts" /\ commonInterruptPacketDispatch = 0
  /\ pc' = "rc"
  /\ UNCHANGED <<next, outbox, interrupts>> /\ Elsewhere

LoadCounterAlways ==
  /\ pc = "interrupts"
  /\ loaded' = commonInterruptPacketDispatch
  /\ pc' = "decrement"
  /\ UNCHANGED <<next, outbox, commonInterruptPacketDispatch, changes, unreported>> /\ Elsewhere

\* commonInterruptPacketDispatch-- loads, subtracts and stores with interrupts enabled:
\* a pin change in between is not counted.
LoadCounter ==
  /\ pc = "interrupts" /\ commonInterruptPacketDispatch > 0
  /\ loaded' = commonInterruptPacketDispatch
  /\ pc' = "decrement"
  /\ UNCHANGED <<next, outbox, commonInterruptPacketDispatch, changes, unreported>> /\ Elsewhere

StoreCounter ==
  /\ pc = "decrement"
  /\ commonInterruptPacketDispatch' = loaded - 1 /\ loaded' = 0
  /\ unreported' = FALSE
  /\ Transmit(Frame(CMB_COMMON_INTERRUPT, <<0>>), "rc")
  /\ UNCHANGED changes
  /\ Elsewhere

Following == [rc |-> "ir", ir |-> "getc"]
Command == [rc |-> RC_SWITCH, ir |-> CMB_IR]
Reset == [rc |-> "rcReset", ir |-> "irReset"]

\* executeLoopWithTimeout: the time slice is over or not, see SystemClock.
NoCode(kind) ==
  /\ pc = kind
  /\ pc' = Following[kind]
  /\ UNCHANGED <<next, outbox, interrupts>> /\ Elsewhere

SendCode(kind) ==
  /\ pc = kind /\ kind \in available
  /\ Transmit(Frame(Command[kind], <<0>>), Reset[kind])
  /\ UNCHANGED interrupts /\ Elsewhere

\* resetAvailable or resume, after the packet was sent; the radio's code 0, of a
\* protocol that was not recognized, is reset without a packet.
ResetCode(kind) ==
  /\ pc = Reset[kind] \/ (pc = "rc" /\ kind = "rc" /\ kind \in available)
  /\ available' = available \ {kind}
  /\ pc' = Following[kind]
  /\ UNCHANGED <<next, outbox, interrupts, uart, parser, bus, line, handled, disturbances>>

-----------------------------------------------------------------------------
Parse ==
  \/ ParseCommand \/ ParseData \/ ParseEscape \/ ParseUnexpected \/ ParseStart
  \/ NotHandled \/ HandledByNobody
  \/ Identify \/ HandleSilently \/ HandleTemperature \/ HandleI2C

I2c == I2cStartWait \/ I2cWrite \/ I2cRepStart \/ I2cRead \/ I2cStop

Loop ==
  \/ NoInterrupts \/ LoadCounter \/ StoreCounter
  \/ \E kind \in {"rc", "ir"} : NoCode(kind) \/ SendCode(kind) \/ ResetCode(kind)

Main == Getc \/ NoData \/ GetcError \/ Parse \/ I2c \/ Putc \/ Loop

Environment == HostSends \/ ArriveDamaged \/ PinChange \/ CodeReceived

Next == Main \/ Arrive \/ DataRegisterEmpty \/ Environment

Spec == Init /\ [][Next]_vars

-----------------------------------------------------------------------------
(* Properties *)

TypeOK ==
  /\ UartTypeOK
  /\ expect \in {"NOTHING", "CMD", "DATA", "ESC"} /\ commandByte \in Bytes
  /\ data \in [0 .. DataSize - 1 -> Bytes]
  /\ dataIndex \in Nat /\ dataIndex < 65536
  /\ commonInterruptPacketDispatch \in 0 .. 255
  /\ available \subseteq {"rc", "ir"}
  /\ outbox = <<>> <=> pc # "transmit"
  /\ call.at \in {"read", "advanced"} => pc = "getc"
  /\ call.at \in {"stored", "published"} => pc = "transmit"

\* The rings that the main program and two interrupt routines share without a lock
\* neither lose, repeat nor reorder a byte, and a byte in the transmit ring is never
\* left without the interrupt that sends it: see Uart.
BytesComeThrough == BytesInOrder /\ TransmitterAwake

\* Handlers get the frames the host sent, in its order and with its data, as long as
\* every byte comes through, and all of them once every byte was taken: buffering,
\* parsing and the other handlers' turns leave nothing out and repeat nothing.
HandledAsAsked ==
  ~damaged => /\ IsPrefix(handled, asked)
              /\ incoming = <<>> /\ Received = <<>> /\ call = NoCall => handled = asked

\* Neither does the board call an empty slot of its handler table nor does it wait for
\* a stop condition that never comes nor write to a chip for ever, unless a byte was
\* damaged before: no query that the host sends leads there by itself.
StuckOnlyAfterDamage ==
  \/ pc = "crashed"
  \/ pc = "readStop" /\ slave = "sending"
  \/ pc = "writeBytes" /\ dataIndex > DataSize
  => damaged

\* As long as no packet was begun since a pin changed, one is still to come, although
\* the counter misses changes that come while it is decremented.
NoChangeForgotten ==
  unreported => commonInterruptPacketDispatch > 0 \/ pc = "decrement"
=============================================================================
