----------------------------- MODULE AVRFraming -----------------------------
(***************************************************************************)
(* The frames on the serial line between a host and an AVR: 0xFF, command  *)
(* byte, body, 0xFF.  The body holds the data in blocks of eight bytes,    *)
(* each followed by an escape byte that says which bytes of the block      *)
(* really are 0xFF, so that 0xFF delimits frames only.  The sender is      *)
(* BlackbirdClass::sendPacket (AVRConnection.send encodes alike), the      *)
(* receiver AVRConnection.parse, called for each byte that arrives.  Bytes *)
(* may be lost, and the firmware sends single error bytes between frames.  *)
(***************************************************************************)
EXTENDS Integers, Sequences, FiniteSets

CONSTANTS
  Payloads,  \* the data of the packets
  Commands,  \* the command bytes with a parser
  MaxFaults, \* how many bytes get lost, and error bytes get in
  MaxFrames, \* how many packets are sent
  BufferSize, \* the bytes of the parser's buffer, 256 in the code
  None       \* Java's null

Byte == 0 .. 255

\* What the constants are; assumed by MCSerialLine.  AbstractPacket counts the data of a
\* packet in a byte: with its last escape byte it fits into the parser's buffer.
FramingAssumption ==
  /\ Payloads \subseteq Seq(Byte) \ {<<>>}
  /\ BufferSize \in Nat \ {0} /\ \A payload \in Payloads : Len(payload) < BufferSize
  /\ Commands \subseteq Byte \ {255}
  /\ MaxFaults \in Nat /\ MaxFrames \in Nat

\* uart_putc(0x11) and its like in main, transmit(0x22) and (0x33) in parseByte.
ErrorByte == 17

Packets == [command : Commands, data : Payloads]

VARIABLES
  line,         \* the bytes of the current frame that are still to arrive
  sent,         \* its packet
  frames,       \* how many were sent
  faults,       \* how many bytes were lost or got in
  damaged,      \* history: a byte of it was lost, or an error byte came after it
  damagedLast,  \* history: the same of the frame before
  expect, command, data,  \* of the parser; dataIndex is the length of data
  fired         \* the packets fired during this frame

vars == <<line, sent, frames, faults, damaged, damagedLast, expect, command, data, fired>>
parser == <<expect, command, data>>

-----------------------------------------------------------------------------
(* The encoding.  A definition that puts a fault in the place of the next one *)
(* stands right before it, here and below: it shows what a property catches.  *)

Bit(byte, i) == (byte \div 2^i) % 2 = 1

\* The flags of the n bytes that end at position last; all eight would be 0xFF.
FullFlags(bytes, last, n) ==
  LET flag(i) == IF i < n /\ bytes[last - i] = 255 THEN 2^i ELSE 0
  IN flag(0) + flag(1) + flag(2) + flag(3) + flag(4) + flag(5) + flag(6) + flag(7)

Flags(bytes, last, n) ==
  LET flags == FullFlags(bytes, last, n) IN IF flags = 255 THEN 127 ELSE flags

FullBlock(bytes, last) == \A i \in 0 .. 7 : bytes[last - i] = 255

\* A byte as it is sent: 0xFF as 0x00, the last of a full block of them as 0xF0.
Encoded(bytes, k) ==
  CASE bytes[k] # 255 -> bytes[k]
    [] bytes[k] = 255 /\ k % 8 = 0 /\ FullBlock(bytes, k) -> 240
    [] OTHER -> 0

\* Position j of the body is an escape byte after eight others, and at its end.
Body(bytes) ==
  LET n == Len(bytes)
      length == n + (n + 7) \div 8
  IN [j \in 1 .. length |->
        LET k == j - (j - 1) \div 9    \* the bytes up to and including this one
        IN IF j % 9 = 0   THEN Flags(bytes, k - 1, 8)
           ELSE IF j = length THEN Flags(bytes, n, n % 8)
           ELSE Encoded(bytes, k)]

Frame(packet) == <<255, packet.command>> \o Body(packet.data) \o <<255>>

-----------------------------------------------------------------------------
Init ==
  /\ line = <<>> /\ sent = None /\ frames = 0 /\ faults = 0
  /\ damaged = FALSE /\ damagedLast = FALSE
  /\ expect = "NOTHING" /\ command = 0 /\ data = <<>>
  /\ fired = <<>>

Send ==
  /\ line = <<>>
  /\ frames < MaxFrames /\ frames' = frames + 1
  /\ \E packet \in Packets : sent' = packet /\ line' = Frame(packet)
  /\ damagedLast' = damaged /\ damaged' = FALSE
  /\ fired' = <<>>
  /\ UNCHANGED <<faults, parser>>

Lose ==
  /\ line # <<>>
  /\ faults < MaxFaults /\ faults' = faults + 1
  /\ line' = Tail(line)
  /\ damaged' = TRUE
  /\ UNCHANGED <<sent, frames, damagedLast, fired, parser>>

\* The next byte: of the frame, or an error byte of the firmware between frames.
ByteArrives(byte) ==
  \/ /\ line # <<>> /\ byte = Head(line)
     /\ line' = Tail(line)
     /\ UNCHANGED <<faults, damaged>>
  \/ /\ line = <<>> /\ byte = ErrorByte
     /\ faults < MaxFaults /\ faults' = faults + 1
     /\ damaged' = TRUE
     /\ UNCHANGED line

-----------------------------------------------------------------------------
(* AVRConnection.parse *)

\* The n bytes before the end of the data, those with their bit set made 0xFF.
Unescape(bytes, n, escape) ==
  [k \in DOMAIN bytes |->
     IF Len(bytes) - k < n /\ Bit(escape, Len(bytes) - k) THEN 255 ELSE bytes[k]]

\* What the frame's data are when its end is reached.  Java's % keeps the sign, but
\* no data at all never get here.
Complete(bytes) ==
  LET rest == (Len(bytes) - 1) % 8 IN
  IF rest = 0 THEN bytes
  ELSE Unescape(SubSeq(bytes, 1, Len(bytes) - 1), rest, bytes[Len(bytes)])

\* With no data, data[dataIndex - 1] throws, out of consumeInputStream: nothing is
\* fired and expect stays what it is.
ParseEmpty ==
  /\ ByteArrives(255)
  /\ expect \in {"DATA", "ESC"} /\ data = <<>>
  /\ UNCHANGED <<sent, frames, damagedLast, fired, parser>>

ParseEndUnregistered ==
  /\ ByteArrives(255)
  /\ expect \in {"DATA", "ESC"} /\ data # <<>>
  /\ fired' = Append(fired, [command |-> command, data |-> Complete(data)])
  /\ data' = Complete(data)
  /\ expect' = "CMD"
  /\ UNCHANGED <<sent, frames, damagedLast, command>>

ParseEnd ==
  /\ ByteArrives(255)
  /\ expect \in {"DATA", "ESC"} /\ data # <<>>
  /\ fired' = IF command \in Commands
              THEN Append(fired, [command |-> command, data |-> Complete(data)])
              ELSE fired
  /\ data' = Complete(data)
  /\ expect' = "CMD"
  /\ UNCHANGED <<sent, frames, damagedLast, command>>

ParseStart ==
  /\ ByteArrives(255)
  /\ expect \in {"NOTHING", "CMD"}
  /\ expect' = "CMD"
  /\ UNCHANGED <<sent, frames, damagedLast, fired, command, data>>

ParseCommandOnly(byte) ==
  /\ ByteArrives(byte) /\ byte # 255
  /\ expect = "CMD"
  /\ command' = byte
  /\ expect' = "DATA"
  /\ UNCHANGED <<sent, frames, damagedLast, fired, data>>

ParseCommand(byte) ==
  /\ ByteArrives(byte) /\ byte # 255
  /\ expect = "CMD"
  /\ command' = byte
  /\ data' = <<>>
  /\ expect' = "DATA"
  /\ UNCHANGED <<sent, frames, damagedLast, fired>>

ParseData(byte) ==
  /\ ByteArrives(byte) /\ byte # 255
  /\ expect = "DATA" /\ Len(data) < BufferSize
  /\ data' = Append(data, byte)
  /\ expect' = IF Len(data') % 8 = 0 THEN "ESC" ELSE "DATA"
  /\ UNCHANGED <<sent, frames, damagedLast, fired, command>>

\* Frames that run into each other fill the buffer: data[dataIndex] throws, out of
\* consumeInputStream, for each further byte until the next delimiter.
ParseOverflow(byte) ==
  /\ ByteArrives(byte) /\ byte # 255
  /\ expect = "DATA" /\ Len(data) = BufferSize
  /\ UNCHANGED <<sent, frames, damagedLast, fired, parser>>

\* 0x7F after 0xF0 also stands for a full block.
ParseEscape(byte) ==
  /\ ByteArrives(byte) /\ byte # 255
  /\ expect = "ESC"
  /\ LET full == byte = 127 /\ data[Len(data)] = 240
     IN data' = [Unescape(data, 8, byte) EXCEPT ![Len(data) - 7] = IF full THEN 255 ELSE @]
  /\ expect' = "DATA"
  /\ UNCHANGED <<sent, frames, damagedLast, fired, command>>

ParseUnhandled(byte) ==
  /\ ByteArrives(byte) /\ byte # 255
  /\ expect = "NOTHING"
  /\ UNCHANGED <<sent, frames, damagedLast, fired, parser>>

Arriving == Byte \cap ({ErrorByte} \cup IF line # <<>> THEN {Head(line)} ELSE {})

Next ==
  \/ Send \/ Lose \/ ParseEmpty \/ ParseEnd \/ ParseStart
  \/ \E byte \in Arriving :
       \/ ParseCommand(byte) \/ ParseData(byte) \/ ParseEscape(byte)
       \/ ParseOverflow(byte) \/ ParseUnhandled(byte)

Spec == Init /\ [][Next]_vars

-----------------------------------------------------------------------------
(* Properties *)

\* Every variable keeps its type, the data stay within the buffer, and only packets with a
\* parser are fired.
TypeOK ==
  /\ \A j \in DOMAIN line : line[j] \in Byte
  /\ sent # None => sent.command \in Commands
  /\ damaged \in BOOLEAN /\ damagedLast \in BOOLEAN
  /\ expect \in {"NOTHING", "CMD", "DATA", "ESC"}
  /\ command \in Byte
  /\ frames \in 0 .. MaxFrames /\ faults \in 0 .. MaxFaults
  /\ Len(data) <= BufferSize /\ \A j \in DOMAIN data : data[j] \in Byte
  /\ \A j \in DOMAIN fired : fired[j].command \in Commands

\* 0xFF delimits frames and occurs nowhere else in them, whatever is sent.
DelimitersOnly ==
  sent # None => \A j \in 2 .. Len(Frame(sent)) - 1 : Frame(sent)[j] # 255

Arrived == sent # None /\ line = <<>> /\ ~damaged

\* A packet whose frame arrives intact is fired, exactly as it was sent and once,
\* provided the frame before it was intact too, whatever happened to earlier ones.
Resynchronized == Arrived /\ ~damagedLast => fired = <<sent>>
=============================================================================
