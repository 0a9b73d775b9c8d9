----------------------------- MODULE RadioSwitch -----------------------------
(***************************************************************************)
(* Radio switches, lib/rc-switch: the code words of four types of sockets, *)
(* the pulses of three protocols, the interrupt that measures what the     *)
(* receiver hears and decodes it, and the board's handler that reads the   *)
(* decoded code one field after the other, its value of 32 bits byte by    *)
(* byte, with interrupts on.  Senders, here and elsewhere, and noise take  *)
(* turns on the air.                                                       *)
(***************************************************************************)
EXTENDS Integers, Sequences, SequencesExt, FiniteSetsExt

CONSTANTS
  Sendings,   \* what is sent: records of protocol, pulse (its length) and bits
  Requests,   \* what is asked of sockets, records of kind, address and on
  Noises,     \* durations heard that no sender made
  Distortions, \* by how much a receiver makes high pulses longer, low ones shorter
  Repeats,    \* how often a code is sent in a row, 10 in the code
  MaxOnAir,   \* how many sendings and noises there are
  MaxChanges  \* 67 in the code

VARIABLES
  air,         \* the durations still to be heard
  timings,     \* those measured since the last sync: changeCount is their number
  repeatCount, \* of handleInterrupt
  received,    \* nReceivedValue, nReceivedBitlength, nReceivedProtocol
  radioPc, packet, \* of the handler's loop
  unread,      \* the bytes of nReceivedValue that an access to it has still to do
  onAir, reported, \* history: what was sent and noise; packets
  overtaken    \* history: what became of a code decoded while the handler was at one: "no"
               \* harm, the packet is "mixed" of both, it is "lost", or "cut" by the reset

interrupted == <<timings, repeatCount, received>>
radioVars == <<air, interrupted, radioPc, packet, unread, onAir, reported, overtaken>>

-----------------------------------------------------------------------------
(* Code words: sequences of "0", "F" and "1" *)

\* dec2binWcharfill, highest bit first; a number with more bits than bitLength is lost.
Dec2bin(dec, bitLength, fill) ==
  [j \in 1 .. bitLength |->
     IF dec < 2 ^ bitLength /\ (dec \div 2 ^ (bitLength - j)) % 2 = 1 THEN "1" ELSE fill]

One(n, length, mark, others) == [i \in 1 .. length |-> IF i = n THEN mark ELSE others]

CodeWordA(address, on) ==
  [i \in DOMAIN address |-> IF address[i] = "0" THEN "F" ELSE "0"]
    \o (IF on THEN <<"0", "F">> ELSE <<"F", "0">>)

CodeWordB(address, on) ==
  One(address[1], 4, "0", "F") \o One(address[2], 4, "0", "F") \o <<"F", "F", "F">>
    \o (IF on THEN <<"F">> ELSE <<"0">>)

\* Family 1 .. 16 for 'a' .. 'p', group and device; lowest bit first.
CodeWordC(address, on) ==
  LET trits(n) == [i \in 1 .. 4 |-> IF Dec2bin(n, 4, "0")[5 - i] = "1" THEN "F" ELSE "0"]
  IN trits(address[1] - 1) \o trits(address[3] - 1 + (address[2] - 1) * 4)
       \o <<"0", "F", "F">> \o (IF on THEN <<"F">> ELSE <<"0">>)

CodeWordD(address, on) ==
  Dec2bin(2 ^ (4 - address[1]), 4, "F") \o Dec2bin(2 ^ (3 - address[2]), 3, "F")
    \o <<"0", "0", "0">> \o (IF on THEN <<"1", "0">> ELSE <<"0", "1">>)

CodeWord(request) ==
  CASE request.kind = "A" -> CodeWordA(request.address, request.on)
    [] request.kind = "B" -> CodeWordB(request.address, request.on)
    [] request.kind = "C" -> CodeWordC(request.address, request.on)
    [] request.kind = "D" -> CodeWordD(request.address, request.on)

\* sendT0, sendTF, sendT1
TriState(word) ==
  FlattenSeq([i \in DOMAIN word |->
    CASE word[i] = "0" -> <<0, 0>> [] word[i] = "F" -> <<0, 1>> [] word[i] = "1" -> <<1, 1>>])

-----------------------------------------------------------------------------
(* Sending and receiving: high and low parts of a bit, in pulses *)

\* send0, send1, sendSync; receiveProtocol1, 2 and 3
Protocols ==
  <<[sync |-> 31, zero |-> <<1, 3>>,  one |-> <<3, 1>>],
    [sync |-> 10, zero |-> <<1, 2>>,  one |-> <<2, 1>>],
    [sync |-> 71, zero |-> <<4, 11>>, one |-> <<9, 6>>]>>

\* setProtocol
PulseLength == <<350, 650, 100>>

Switching(request) == [protocol |-> 1, pulse |-> PulseLength[1], bits |-> TriState(CodeWord(request))]

Transmit(sending, pulses, distortion) ==
  <<sending.pulse * pulses[1] + distortion, sending.pulse * pulses[2] - distortion>>

\* One code word with its sync, as a receiver measures it.
Send(sending, distortion) ==
  LET protocol == Protocols[sending.protocol]
  IN FlattenSeq([i \in DOMAIN sending.bits |->
         Transmit(sending, IF sending.bits[i] = 1 THEN protocol.one ELSE protocol.zero, distortion)])
       \o Transmit(sending, <<1, protocol.sync>>, distortion)

Near(timing, pulses, delay) ==
  LET delayTolerance == (delay * 60) \div 100
  IN timing > delay * pulses - delayTolerance /\ timing < delay * pulses + delayTolerance

Fits(high, low, pulses, delay) == Near(high, pulses[1], delay) /\ Near(low, pulses[2], delay)

Failed == <<>>

BitsUnchecked(p, times, count) ==
  LET delay == times[1] \div Protocols[p].sync
  IN [i \in 1 .. count \div 2 |->
        IF Fits(times[2 * i], times[2 * i + 1], Protocols[p].zero, delay) THEN 0 ELSE 1]

\* The bits protocol p sees in count / 2 pairs of timings.
Bits(p, times, count) ==
  LET delay == times[1] \div Protocols[p].sync
      fits(i, pulses) == Fits(times[2 * i], times[2 * i + 1], pulses, delay)
  IN IF \A i \in 1 .. count \div 2 : fits(i, Protocols[p].zero) \/ fits(i, Protocols[p].one)
     THEN [i \in 1 .. count \div 2 |-> IF fits(i, Protocols[p].zero) THEN 0 ELSE 1]
     ELSE Failed

\* The first bit is the highest.
Value(bits) ==
  LET code[n \in 0 .. Len(bits)] == IF n = 0 THEN 0 ELSE 2 * code[n - 1] + bits[n]
  IN code[Len(bits)]

\* A protocol that fails, or sees the value 0, passes the timings on to the next; each
\* that was tried left its result, the value 0 too.
Decode(times, count) ==
  LET value(p) == Value(Bits(p, times, count))
      p == Min({q \in 1 .. 3 : q = 3 \/ value(q) # 0})
  IN IF count > 6 THEN [value |-> value(p), bitlength |-> count \div 2, protocol |-> p]
     ELSE received

-----------------------------------------------------------------------------
RadioInit ==
  /\ air = <<>>
  /\ timings = <<>> /\ repeatCount = 0
  /\ received = [value |-> 0, bitlength |-> 0, protocol |-> 0]
  /\ radioPc = "available" /\ packet = <<>> /\ unread = {}
  /\ onAir = <<>> /\ reported = {} /\ overtaken = "no"

Handler == <<radioPc, packet, unread, reported>>

\* A code is sent Repeats times; its last sync ends with the next thing heard.
Sending ==
  /\ air = <<>> /\ Len(onAir) < MaxOnAir
  /\ \E sending \in Sendings \cup {Switching(request) : request \in Requests},
        distortion \in Distortions :
       /\ onAir' = Append(onAir, sending)
       /\ air' = FlattenSeq([n \in 1 .. Repeats |-> Send(sending, distortion)])
  /\ UNCHANGED <<interrupted, Handler, overtaken>>

Noise ==
  /\ air = <<>> /\ Len(onAir) < MaxOnAir
  /\ \E noise \in Noises : air' = noise /\ onAir' = Append(onAir, noise)
  /\ UNCHANGED <<interrupted, Handler, overtaken>>

\* Long enough for a sync, and as long as the one before.
Sync(duration) == duration > 5000
SameSync(duration) ==
  /\ Sync(duration) /\ timings # <<>> /\ timings[1] >= 200
  /\ duration > timings[1] - 200 /\ duration < timings[1] + 200

Bytes == 0 .. 3
Byte(number, b) == (number \div 256 ^ b) % 256

\* What a code does that is decoded now: harm none, if the handler is to read it whole.
Overtaken ==
  CASE radioPc \in {"bitlength", "protocol"} \/ (radioPc = "value" /\ unread # Bytes) -> "mixed"
    [] radioPc = "send" \/ (radioPc = "reset" /\ unread = Bytes) ->
         IF overtaken = "no" THEN "lost" ELSE overtaken
    [] radioPc = "reset" /\ unread # Bytes -> "cut"
    [] OTHER -> "no"

\* handleInterrupt, at each edge: every second time the sync of the code is heard, what
\* was between is decoded, without the high part of the sync.
HandleInterrupt ==
  /\ air # <<>>
  /\ LET duration == Head(air)
         again == SameSync(duration)
         decodes == again /\ repeatCount = 1
         full == ~Sync(duration) /\ Len(timings) >= MaxChanges
     IN /\ received' = IF decodes THEN Decode(timings, Len(timings) - 1) ELSE received
        /\ repeatCount' = IF again THEN (repeatCount + 1) % 2 ELSE IF full THEN 0 ELSE repeatCount
        /\ timings' = IF Sync(duration) \/ full THEN <<duration>> ELSE Append(timings, duration)
        /\ overtaken' = IF decodes THEN Overtaken ELSE overtaken
  /\ air' = Tail(air)
  /\ UNCHANGED <<Handler, onAir>>

-----------------------------------------------------------------------------
(* Handler::loop: the interrupt may come between any two of its steps; the     *)
(* bytes of a long are accessed in the order the compiler chooses, and of the  *)
(* two other fields one byte is always 0                                       *)

\* One byte that is not 0 will do; those read before and after it do not matter.
Available ==
  /\ radioPc = "available" /\ received.value # 0
  /\ radioPc' = "value" /\ packet' = <<0>> /\ unread' = Bytes
  /\ UNCHANGED <<air, interrupted, onAir, reported, overtaken>>

\* The bytes read so far are in the packet; when all are there, what next.
ReadByte(next(_)) ==
  /\ radioPc = "value"
  /\ \E b \in unread :
       LET value == packet[1] + Byte(received.value, b) * 256 ^ b
       IN /\ packet' = <<value>>
          /\ IF unread = {b} THEN radioPc' = next(value) /\ unread' = Bytes
             ELSE unread' = unread \ {b} /\ UNCHANGED radioPc
  /\ UNCHANGED <<air, interrupted, onAir, reported, overtaken>>

GetReceivedValueUntested == ReadByte(LAMBDA value : "bitlength")
GetReceivedValue == ReadByte(LAMBDA value : IF value # 0 THEN "bitlength" ELSE "reset")

Get(field, then) ==
  /\ radioPc = field
  /\ packet' = Append(packet, received[field])
  /\ radioPc' = then
  /\ UNCHANGED <<air, interrupted, unread, onAir, reported, overtaken>>

GetReceivedBitlength == Get("bitlength", "protocol")
GetReceivedProtocol == Get("protocol", "send")

SendPacket ==
  /\ radioPc = "send"
  /\ reported' = reported \cup {[packet |-> packet, whole |-> overtaken \in {"no", "lost"}]}
  /\ radioPc' = "reset"
  /\ UNCHANGED <<air, interrupted, packet, unread, onAir, overtaken>>

\* A code that was decoded since the value was read is lost, one that is decoded now cut.
ResetAvailable ==
  /\ radioPc = "reset"
  /\ \E b \in unread :
       /\ received' = [received EXCEPT !.value = @ - Byte(@, b) * 256 ^ b]
       /\ unread' = unread \ {b}
       /\ IF unread = {b} THEN radioPc' = "available" /\ packet' = <<>>
          ELSE UNCHANGED <<radioPc, packet>>
  /\ UNCHANGED <<air, timings, repeatCount, onAir, reported, overtaken>>

RadioNext ==
  \/ Sending \/ Noise \/ HandleInterrupt
  \/ Available \/ GetReceivedValue \/ GetReceivedBitlength \/ GetReceivedProtocol
  \/ SendPacket \/ ResetAvailable

RadioSpec == RadioInit /\ [][RadioNext]_radioVars

-----------------------------------------------------------------------------
RadioTypeOK ==
  /\ Len(timings) <= MaxChanges /\ repeatCount \in {0, 1}
  /\ received.bitlength \in 0 .. MaxChanges \div 2 /\ received.protocol \in 0 .. 3
  /\ Len(packet) <= 3 /\ unread \subseteq Bytes
  /\ overtaken \in {"no", "mixed", "lost", "cut"}

IsSending(heard) == heard \notin Noises
Sent == {onAir[k] : k \in {i \in DOMAIN onAir : IsSending(onAir[i])}}

\* The packet a sending should give.
Expected(sending) == <<Value(sending.bits), Len(sending.bits), sending.protocol>>

\* Every packet reports a code that was sent, with its own length and protocol, and
\* nothing is taken for a code of another protocol; if another was decoded while the
\* handler read the code, or while it reset the value before, each byte of the packet's
\* value is still that byte of a code that was sent, or 0.  Once a single sending is over,
\* its code was reported or is about to be, unless its value is 0 or it was decoded while
\* the handler was between its first read of another value and its last write to it,
\* whatever noise there was before.  And no two requests switch the same sockets the same
\* way.
CodesReported ==
  /\ \A report \in reported :
       IF report.whole THEN \E sending \in Sent : report.packet = Expected(sending)
       ELSE \A b \in Bytes :
              Byte(report.packet[1], b) \in {0} \cup {Byte(Value(sending.bits), b) : sending \in Sent}
  /\ air = <<>> /\ onAir # <<>> /\ IsSending(Last(onAir)) /\ Value(Last(onAir).bits) # 0 =>
       LET code == Value(Last(onAir).bits)
       IN \/ \E report \in reported : report.packet[1] = code
          \/ radioPc \in {"available", "value"} /\ received.value = code
          \/ radioPc \notin {"available", "value"} /\ packet[1] = code
          \/ overtaken # "no"
  /\ onAir = <<>> =>
       \A request, other \in Requests :
         request.kind = other.kind /\ CodeWord(request) = CodeWord(other) => request = other
=============================================================================
