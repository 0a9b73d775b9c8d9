---------------------------------- MODULE Spi ----------------------------------
(***************************************************************************)
(* The master of AVRTools' SPI bus (lib/AVRTools/SPI.h, SPI.cpp): settings *)
(* packed into two registers, integers and arrays exchanged byte by byte,  *)
(* each call waiting for its bytes.  A byte has SpiBits bits here; the     *)
(* slave, external, answers whatever it likes.                             *)
(***************************************************************************)
EXTENDS Integers, Sequences, SequencesExt, FiniteSetsExt, Functions

CONSTANTS
  SpiBits,    \* 8 on the board
  F_CPU,      \* clock cycles of the board per second
  Speeds,     \* maximal speeds asked for
  Integers16, \* data: sequences of bytes, in the order of their addresses
  Integers32,
  Arrays,
  MaxSpiCalls \* bound of the model

\* What the constants are; assumed by MCPeripherals.  The clock of the board can be divided by
\* 128 without a rest, as 8, 16 and 20 MHz can.
SpiAssumption ==
  /\ SpiBits \in 1 .. 8
  /\ F_CPU \in Nat \ {0} /\ F_CPU % 128 = 0
  /\ Speeds \subseteq Nat
  /\ \A bytes \in Integers16 \cup Integers32 \cup Arrays : bytes \in Seq(0 .. 2 ^ SpiBits - 1)

VARIABLES
  SPE,          \* the bus is enabled
  DORD,         \* the lowest bit first
  SPR, SPI2X,   \* the clock
  maxSpeed,     \* what the settings in force were made of
  spiPc,        \* "idle", or the call waits for a byte: "wait", "come"
  kind, data,   \* "integer" or "array", and its bytes
  count,        \* bytes exchanged by the call
  SPDR,
  given,        \* what the call was given, and the order of its bits
  wire,         \* the bits that crossed the wire, out and in
  spiCalls

spiVars == <<SPE, DORD, SPR, SPI2X, maxSpeed, spiPc, kind, data, count, SPDR, given, wire, spiCalls>>

Configured == <<SPE, DORD, SPR, SPI2X, maxSpeed>>
Call == <<kind, data, count, given>>

-----------------------------------------------------------------------------
(* SPISettings *)

\* The fastest of the clocks F_CPU / 2, ..., F_CPU / 128 that is not too fast, or the slowest.
ClockDiv(speed) == Min({d \in 0 .. 6 : d = 6 \/ speed >= F_CPU \div 2 ^ (d + 1)})

RegistersOfSix(speed) ==
  [SPR |-> ClockDiv(speed) \div 2, SPI2X |-> 1 - (ClockDiv(speed) % 2)]

\* The registers have two codes for F_CPU / 64, and the lowest bit inverted.
Registers(speed) ==
  LET div == IF ClockDiv(speed) = 6 THEN 7 ELSE ClockDiv(speed)
  IN [SPR |-> div \div 2, SPI2X |-> 1 - (div % 2)]

Set(speed, lowestFirst) ==
  /\ SPE' = TRUE /\ DORD' = lowestFirst /\ maxSpeed' = speed
  /\ SPR' = Registers(speed).SPR /\ SPI2X' = Registers(speed).SPI2X

\* 8 MHz, whatever the board's own clock.
DefaultSpeed == 8000000

-----------------------------------------------------------------------------
SpiInit ==
  /\ SPE = FALSE /\ DORD = FALSE /\ SPR = 0 /\ SPI2X = 0 /\ maxSpeed = F_CPU \div 4
  /\ spiPc = "idle" /\ kind = "integer" /\ data = <<>> /\ count = 0
  /\ given = [data |-> <<>>, DORD |-> FALSE]
  /\ SPDR = 0 /\ wire = <<>> /\ spiCalls = 0

\* enable takes the settings back to the default.
Enable ==
  /\ spiPc = "idle"
  /\ Set(DefaultSpeed, FALSE)
  /\ UNCHANGED <<Call, spiPc, SPDR, wire, spiCalls>>

\* The settings hold SPE: a bus that was disabled is enabled again.
Configure ==
  /\ spiPc = "idle"
  /\ \E speed \in Speeds, lowestFirst \in BOOLEAN : Set(speed, lowestFirst)
  /\ UNCHANGED <<Call, spiPc, SPDR, wire, spiCalls>>

Disable ==
  /\ spiPc = "idle"
  /\ SPE' = FALSE
  /\ UNCHANGED <<DORD, SPR, SPI2X, maxSpeed, Call, spiPc, SPDR, wire, spiCalls>>

\* An integer's bytes go by the order of the bits, an array's by their addresses.
PlaceByAddress(n) == n + 1
Place(n) == IF kind = "integer" /\ ~DORD THEN Len(data) - n ELSE n + 1

\* Writes SPDR.  A call without bytes returns at once; one on a disabled bus never returns.
Transmit ==
  /\ spiPc = "idle" /\ spiCalls < MaxSpiCalls /\ spiCalls' = spiCalls + 1
  /\ UNCHANGED Configured
  /\ \E called \in {[kind |-> "integer", data |-> d] : d \in Integers16 \cup Integers32}
                     \cup {[kind |-> "array", data |-> d] : d \in Arrays} :
       /\ kind' = called.kind /\ data' = called.data /\ given' = [data |-> called.data, DORD |-> DORD]
       /\ IF called.data = <<>> THEN UNCHANGED <<spiPc, SPDR>>
          ELSE spiPc' = "wait" /\ SPDR' = data'[Place(0)']
  /\ count' = 0 /\ wire' = <<>>

\* The wires, external: a byte is shifted out as another is shifted in.
Bits(byte) ==
  [i \in 1 .. SpiBits |-> (byte \div 2 ^ (IF DORD THEN i - 1 ELSE SpiBits - i)) % 2]
Shift ==
  /\ spiPc = "wait" /\ SPE
  /\ \E answer \in 0 .. 2 ^ SpiBits - 1 :
       /\ SPDR' = answer
       /\ wire' = wire \o [i \in 1 .. SpiBits |-> [out |-> Bits(SPDR)[i], in |-> Bits(answer)[i]]]
  /\ spiPc' = "come"
  /\ UNCHANGED <<Configured, Call, spiCalls>>

\* SPIF: the byte that came is stored in the place of the one sent, the next one goes out.
NextByte ==
  /\ spiPc = "come"
  /\ data' = [data EXCEPT ![Place(count)] = SPDR]
  /\ count' = count + 1
  /\ IF count' < Len(data) THEN spiPc' = "wait" /\ SPDR' = data[Place(count')]
     ELSE spiPc' = "idle" /\ UNCHANGED SPDR
  /\ UNCHANGED <<Configured, kind, given, wire, spiCalls>>

SpiNext == Enable \/ Configure \/ Disable \/ Transmit \/ Shift \/ NextByte

SpiSpec == SpiInit /\ [][SpiNext]_spiVars

-----------------------------------------------------------------------------
\* Every variable keeps its type.
SpiTypeOK ==
  /\ SPE \in BOOLEAN /\ DORD \in BOOLEAN /\ SPR \in 0 .. 3 /\ SPI2X \in {0, 1}
  /\ spiPc \in {"idle", "wait", "come"} /\ kind \in {"integer", "array"}
  /\ \A k \in DOMAIN data : data[k] \in 0 .. 2 ^ SpiBits - 1
  /\ count \in 0 .. Len(data) /\ Len(wire) <= SpiBits * Len(data) /\ SPDR \in 0 .. 2 ^ SpiBits - 1

\* A whole number, lowest byte first; bits as a number, the first the lowest or the highest.
Number(bytes) == FoldRight(LAMBDA byte, sum : byte + 2 ^ SpiBits * sum, bytes, 0)
OfBits(bits, lowestFirst) ==
  FoldLeft(LAMBDA sum, bit : 2 * sum + bit, 0, IF lowestFirst THEN Reverse(bits) ELSE bits)
Side(side) == [i \in DOMAIN wire |-> wire[i][side]]
Byte(bits, n) == SubSeq(bits, SpiBits * (n - 1) + 1, SpiBits * n)

\* When a call has returned, the integer it was given has crossed the wire bit by bit in the
\* order that was configured, whatever its size, and it returns the one that came the same
\* way; an array has crossed byte by byte, each in that order.
Exchanged ==
  spiPc = "idle" /\ count > 0 =>
    CASE kind = "integer" ->
           /\ Number(given.data) = OfBits(Side("out"), given.DORD)
           /\ Number(data) = OfBits(Side("in"), given.DORD)
      [] kind = "array" ->
           \A n \in DOMAIN data :
             /\ given.data[n] = OfBits(Byte(Side("out"), n), given.DORD)
             /\ data[n] = OfBits(Byte(Side("in"), n), given.DORD)

\* What the hardware makes of the registers: the divisor of the clock.
Divisor == IF SPI2X = 1 THEN <<2, 8, 32, 64>>[SPR + 1] ELSE <<4, 16, 64, 128>>[SPR + 1]

\* The bus runs as fast as it may: no divisor smaller than the one in force keeps to the
\* speed asked for, and this one does unless it is the largest.
AsFastAsAllowed ==
  /\ F_CPU \div Divisor <= maxSpeed \/ Divisor = 128
  /\ Divisor > 2 => 2 * (F_CPU \div Divisor) > maxSpeed
=============================================================================
