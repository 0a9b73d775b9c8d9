------------------------------- MODULE Usart -------------------------------
(***************************************************************************)
(* A serial port of lib/AVRTools, USART0 to USART3: two ring buffers, two  *)
(* interrupt routines, and write, flush, stop and start, which the main    *)
(* program may call again and again.  UCSR0B |= (1 << UDRIE0) is not       *)
(* atomic, but the bit it sets is the only one a routine changes.          *)
(***************************************************************************)
EXTENDS Integers, Sequences, SequencesExt

CONSTANTS
  RxBuffer, TxBuffer, \* USART0_RX_BUFFER_SIZE, USART0_TX_BUFFER_SIZE
  MaxWritten, MaxArrivals, MaxStarts

\* What the constants are; assumed by MCPeripherals.
UsartAssumption ==
  /\ RxBuffer \in Nat \ {0} /\ TxBuffer \in Nat \ {0}
  /\ MaxWritten \in Nat /\ MaxArrivals \in Nat /\ MaxStarts \in Nat

VARIABLES
  rxBuffer, txBuffer, \* the rings, oldest first
  UDRIE, TXC, UPE,    \* the enable of the data register empty interrupt; flags
  running,            \* TXEN and RXEN
  udr, shifting,      \* the data register and the byte on the line, <<>> if there is none
  rxData,             \* a received byte nobody has read
  serialPc, remaining, \* where write, flush and stop are; how many bytes write still has
  written, shifted,   \* history: bytes given to write, bytes that left, numbered
  arrivals, taken, dropped, \* history: bytes that came, that read returned, that were lost
  starts

usartVars == <<rxBuffer, txBuffer, UDRIE, TXC, UPE, running, udr, shifting, rxData, serialPc,
               remaining, written, shifted, arrivals, taken, dropped, starts>>

UsartInit ==
  /\ rxBuffer = <<>> /\ txBuffer = <<>>
  /\ UDRIE = FALSE /\ TXC = FALSE /\ UPE = FALSE /\ running = FALSE
  /\ udr = <<>> /\ shifting = <<>> /\ rxData = <<>>
  /\ serialPc = "stopped" /\ remaining = 0
  /\ written = 0 /\ shifted = <<>> /\ arrivals = 0 /\ taken = <<>> /\ dropped = {} /\ starts = 0

-----------------------------------------------------------------------------
(* RingBuffer: all but the test for emptiness are atomic *)

IsFull(ring, size) == Len(ring) >= size
Push(ring, size, element) == IF Len(ring) < size THEN Append(ring, element) ELSE ring

-----------------------------------------------------------------------------
(* The line, external: bytes leave and come in *)

Receiver == <<rxBuffer, rxData, UPE, arrivals, taken, dropped>>
Program == <<serialPc, remaining, written, starts>>

ShiftOut ==
  /\ shifting = <<>> /\ udr # <<>>
  /\ shifting' = udr /\ udr' = <<>>
  /\ UNCHANGED <<Receiver, Program, txBuffer, UDRIE, TXC, running, shifted>>

\* The last byte has left and none follows: TXC.  It leaves also when TXEN is cleared.
Shifted ==
  /\ shifting # <<>>
  /\ shifted' = shifted \o shifting /\ shifting' = <<>>
  /\ TXC' = (TXC \/ udr = <<>>)
  /\ UNCHANGED <<Receiver, Program, txBuffer, UDRIE, running, udr>>

\* A byte that is not read in time is overrun by the next.
Arrives ==
  /\ running /\ arrivals < MaxArrivals
  /\ arrivals' = arrivals + 1
  /\ rxData' = <<arrivals'>> /\ UPE' \in BOOLEAN
  /\ dropped' = IF rxData = <<>> THEN dropped ELSE dropped \cup {rxData[1]}
  /\ UNCHANGED <<Program, rxBuffer, txBuffer, UDRIE, TXC, running, udr, shifting, shifted, taken>>

-----------------------------------------------------------------------------
(* ISR( USART_RX_vect ), ISR( USART_UDRE_vect ) *)

ReceiveComplete ==
  /\ running /\ rxData # <<>>
  /\ rxBuffer' = IF UPE THEN rxBuffer ELSE Push(rxBuffer, RxBuffer, rxData[1])
  /\ dropped' = IF rxBuffer' = rxBuffer THEN dropped \cup {rxData[1]} ELSE dropped
  /\ rxData' = <<>>
  /\ UNCHANGED <<Program, UPE, txBuffer, UDRIE, TXC, running, udr, shifting, shifted, arrivals, taken>>

RegisterEmpty ==
  /\ running /\ UDRIE /\ udr = <<>>
  /\ IF txBuffer # <<>>
     THEN udr' = <<Head(txBuffer)>> /\ txBuffer' = Tail(txBuffer) /\ UNCHANGED UDRIE
     ELSE UDRIE' = FALSE /\ UNCHANGED <<udr, txBuffer>>
  /\ UNCHANGED <<Receiver, Program, TXC, running, shifting, shifted>>

-----------------------------------------------------------------------------
(* The main program: start, write of one or several bytes, flush, stop, read *)

Sending == <<udr, shifting, shifted>>

Start ==
  /\ serialPc = "stopped" /\ starts < MaxStarts /\ starts' = starts + 1
  /\ running' = TRUE /\ UDRIE' = TRUE /\ serialPc' = "idle"
  /\ UNCHANGED <<Receiver, Sending, txBuffer, TXC, remaining, written>>

CallWrite(n) ==
  /\ serialPc = "idle" /\ written + n <= MaxWritten
  /\ serialPc' = "push" /\ remaining' = n
  /\ UNCHANGED <<Receiver, Sending, txBuffer, UDRIE, TXC, running, written, starts>>

WriteWithoutWaiting ==
  /\ serialPc = "push"
  /\ txBuffer' = Push(txBuffer, TxBuffer, written + 1)
  /\ written' = written + 1 /\ remaining' = remaining - 1
  /\ serialPc' = "enable"
  /\ UNCHANGED <<Receiver, Sending, UDRIE, TXC, running, starts>>

\* write waits for a free place; the routine makes it.
WritePush ==
  /\ serialPc = "push" /\ ~IsFull(txBuffer, TxBuffer)
  /\ txBuffer' = Push(txBuffer, TxBuffer, written + 1)
  /\ written' = written + 1 /\ remaining' = remaining - 1
  /\ serialPc' = "enable"
  /\ UNCHANGED <<Receiver, Sending, UDRIE, TXC, running, starts>>

WriteEnable ==
  /\ serialPc = "enable"
  /\ UDRIE' = TRUE
  /\ serialPc' = IF remaining > 0 THEN "push" ELSE "clear"
  /\ UNCHANGED <<Receiver, Sending, txBuffer, TXC, running, remaining, written, starts>>

ClearTXC ==
  /\ serialPc = "clear"
  /\ TXC' = FALSE /\ serialPc' = "idle"
  /\ UNCHANGED <<Receiver, Sending, txBuffer, UDRIE, running, remaining, written, starts>>

CallFlush ==
  /\ serialPc = "idle"
  /\ serialPc' \in {"flush", "flushAndStop"}
  /\ UNCHANGED <<Receiver, Sending, txBuffer, UDRIE, TXC, running, remaining, written, starts>>

\* while ( txBuffer.isNotEmpty() && !TXC ): an empty ring ends it, and so does TXC.
Flushed ==
  /\ serialPc \in {"flush", "flushAndStop"} /\ (txBuffer = <<>> \/ TXC)
  /\ TXC' = FALSE
  /\ serialPc' = IF serialPc = "flush" THEN "flushed" ELSE "stop"
  /\ UNCHANGED <<Receiver, Sending, txBuffer, UDRIE, running, remaining, written, starts>>

FlushReturns ==
  /\ serialPc = "flushed" /\ serialPc' = "idle"
  /\ UNCHANGED <<Receiver, Sending, txBuffer, UDRIE, TXC, running, remaining, written, starts>>

\* The receive ring is cleared, the transmit ring, of which TXC may have left some, is not.
Stop ==
  /\ serialPc = "stop"
  /\ running' = FALSE /\ UDRIE' = FALSE /\ serialPc' = "stopped"
  /\ dropped' = dropped \cup ToSet(rxBuffer) \cup ToSet(rxData)
  /\ rxBuffer' = <<>> /\ rxData' = <<>>
  /\ UNCHANGED <<Sending, UPE, arrivals, taken, txBuffer, TXC, remaining, written, starts>>

Read ==
  /\ serialPc = "idle" /\ rxBuffer # <<>>
  /\ taken' = Append(taken, Head(rxBuffer)) /\ rxBuffer' = Tail(rxBuffer)
  /\ UNCHANGED <<Program, Sending, rxData, UPE, arrivals, dropped, txBuffer, UDRIE, TXC, running>>

UsartNext ==
  \/ ShiftOut \/ Shifted \/ Arrives \/ ReceiveComplete \/ RegisterEmpty
  \/ Start \/ WritePush \/ WriteEnable \/ ClearTXC \/ CallFlush \/ Flushed \/ FlushReturns
  \/ Stop \/ Read \/ \E n \in 1 .. 3 : CallWrite(n)

UsartSpec == UsartInit /\ [][UsartNext]_usartVars

-----------------------------------------------------------------------------
UsartTypeOK ==
  /\ Len(rxBuffer) <= RxBuffer /\ Len(txBuffer) <= TxBuffer
  /\ UDRIE => running
  /\ serialPc = "stopped" <=> ~running

Numbers(n) == [k \in 1 .. n |-> k]

\* The numbers of a set, each once and in their order.
InOrder(s, numbers) ==
  ToSet(s) = numbers /\ \A i, j \in DOMAIN s : i < j => s[i] < s[j]

\* Every byte written leaves once and in order, or is on its way: the ring never loses one,
\* also over stop and start, and the routine that empties it is awake whenever the program
\* is not just about to wake it.  Every byte that came is read once and in order, unless
\* it had an error, found its ring full, or was discarded by stop.
SerialInOrder ==
  /\ shifted \o shifting \o udr \o txBuffer = Numbers(written)
  /\ running /\ txBuffer # <<>> => UDRIE \/ serialPc = "enable"
  /\ InOrder(taken \o rxBuffer \o rxData, (1 .. arrivals) \ dropped)

\* USART0.h: "This function blocks until the transmit buffer is empty and the last byte has
\* been transmitted".
FlushComplete == serialPc = "flushed" => Len(shifted) = written
=============================================================================
