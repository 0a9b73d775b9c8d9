-------------------------------- MODULE Uart --------------------------------
(***************************************************************************)
(* The serial port of a board, lib/uart/uart.cpp: a ring buffer for either *)
(* direction, with one end in an interrupt routine and the other in the    *)
(* main program.  Interrupt routines run at any point between two accesses *)
(* of the main program to what they share; a routine itself is one step.   *)
(* The main program is in at most one of uart_getc and uart_putc at a time *)
(* and call says how far it has come.                                      *)
(***************************************************************************)
EXTENDS Integers, Sequences

CONSTANTS
  RxSize, TxSize, \* UART_RX_BUFFER_SIZE, UART_TX_BUFFER_SIZE
  Bytes           \* the values of a byte

ASSUME UartAssumption ==
  /\ RxSize \in Nat \ {0, 1} /\ TxSize \in Nat \ {0, 1}
  /\ 0 \in Bytes

VARIABLES
  rxBuf, rxHead, rxTail, lastRxError,
  txBuf, txHead, txTail,
  udrie,    \* the transmit interrupt is enabled
  call,     \* of the main program: at, byte, error
  arrived,  \* history: the bytes the receive interrupt put into the ring
  taken,    \* history: the bytes uart_getc returned
  written,  \* history: the bytes uart_putc put into the ring
  sent      \* history: the bytes that went out

receiver == <<rxBuf, rxHead, rxTail, lastRxError, arrived, taken>>
transmitter == <<txBuf, txHead, txTail, udrie, written, sent>>
uart == <<receiver, transmitter, call>>

\* What the status register reports of a byte, and what the ring adds to it.
LineErrors == {"frame", "overrun"}
Errors == LineErrors \cup {"overflow"}

NoCall == [at |-> "none", byte |-> 0, error |-> {}]

\* uart_init; udrie and the last error are what the registers start with.
UartInit ==
  /\ rxBuf = [i \in 0 .. RxSize - 1 |-> 0] /\ rxHead = 0 /\ rxTail = 0
  /\ txBuf = [i \in 0 .. TxSize - 1 |-> 0] /\ txHead = 0 /\ txTail = 0
  /\ lastRxError = {} /\ udrie = FALSE
  /\ call = NoCall
  /\ arrived = <<>> /\ taken = <<>> /\ written = <<>> /\ sent = <<>>

\* Sizes are powers of two in the code, which masks where this divides.
After(index, size) == (index + 1) % size

-----------------------------------------------------------------------------
(* Interrupt routines *)

\* No room: the byte is gone, and only the overflow is reported of it.
Overflow(byte, errors) ==
  /\ After(rxHead, RxSize) = rxTail
  /\ lastRxError' = lastRxError \cup {"overflow"}
  /\ UNCHANGED <<rxBuf, rxHead, rxTail, arrived, taken>>

StoreOverwriting(byte, errors) ==
  /\ rxHead' = After(rxHead, RxSize)
  /\ rxBuf' = [rxBuf EXCEPT ![rxHead'] = byte]
  /\ lastRxError' = lastRxError \cup errors
  /\ arrived' = Append(arrived, byte)
  /\ UNCHANGED <<rxTail, taken>>

Store(byte, errors) ==
  /\ After(rxHead, RxSize) # rxTail
  /\ rxHead' = After(rxHead, RxSize)
  /\ rxBuf' = [rxBuf EXCEPT ![rxHead'] = byte]
  /\ lastRxError' = lastRxError \cup errors
  /\ arrived' = Append(arrived, byte)
  /\ UNCHANGED <<rxTail, taken>>

ReceiveInterrupt(byte, errors) ==
  /\ Overflow(byte, errors) \/ Store(byte, errors)
  /\ UNCHANGED <<call, transmitter>>

TransmitInterruptLeavingOne ==
  /\ udrie
  /\ IF txHead # After(txTail, TxSize)
     THEN /\ txTail' = After(txTail, TxSize)
          /\ sent' = Append(sent, txBuf[txTail'])
          /\ UNCHANGED udrie
     ELSE /\ udrie' = FALSE
          /\ UNCHANGED <<txTail, sent>>
  /\ UNCHANGED <<txBuf, txHead, written, call, receiver>>

\* The data register is empty.
TransmitInterrupt ==
  /\ udrie
  /\ IF txHead # txTail
     THEN /\ txTail' = After(txTail, TxSize)
          /\ sent' = Append(sent, txBuf[txTail'])
          /\ UNCHANGED udrie
     ELSE /\ udrie' = FALSE
          /\ UNCHANGED <<txTail, sent>>
  /\ UNCHANGED <<txBuf, txHead, written, call, receiver>>

-----------------------------------------------------------------------------
(* uart_getc *)

NothingReceived == call = NoCall /\ rxHead = rxTail

GetcRead ==
  /\ call = NoCall /\ rxHead # rxTail
  /\ call' = [at |-> "read", byte |-> rxBuf[After(rxTail, RxSize)], error |-> lastRxError]
  /\ UNCHANGED <<receiver, transmitter>>

GetcAdvance ==
  /\ call.at = "read"
  /\ rxTail' = After(rxTail, RxSize)
  /\ taken' = Append(taken, call.byte)
  /\ call' = [call EXCEPT !.at = "advanced"]
  /\ UNCHANGED <<rxBuf, rxHead, lastRxError, arrived, transmitter>>

\* The error is cleared, also one that came in since it was read.
GetcReturn ==
  /\ call.at = "advanced"
  /\ lastRxError' = {}
  /\ call' = NoCall
  /\ UNCHANGED <<rxBuf, rxHead, rxTail, arrived, taken, transmitter>>

-----------------------------------------------------------------------------
(* uart_putc; the wait for room is the guard of its first step *)

PutcStore(byte) ==
  /\ call = NoCall
  /\ After(txHead, TxSize) # txTail
  /\ txBuf' = [txBuf EXCEPT ![After(txHead, TxSize)] = byte]
  /\ call' = [at |-> "stored", byte |-> byte, error |-> {}]
  /\ UNCHANGED <<txHead, txTail, udrie, written, sent, receiver>>

PutcPublish ==
  /\ call.at = "stored"
  /\ txHead' = After(txHead, TxSize)
  /\ written' = Append(written, call.byte)
  /\ call' = [call EXCEPT !.at = "published"]
  /\ UNCHANGED <<txBuf, txTail, udrie, sent, receiver>>

\* Reads and writes the control register: the interrupt can only clear udrie in
\* between, which is set here anyway.
PutcEnable ==
  /\ call.at = "published"
  /\ udrie' = TRUE
  /\ call' = NoCall
  /\ UNCHANGED <<txBuf, txHead, txTail, written, sent, receiver>>

-----------------------------------------------------------------------------
(* What the rings hold *)

Held(buf, tail, head, size) ==
  [i \in 1 .. (head - tail) % size |-> buf[(tail + i) % size]]

Received == Held(rxBuf, rxTail, rxHead, RxSize)
ToSend == Held(txBuf, txTail, txHead, TxSize)

UartTypeOK ==
  /\ rxBuf \in [0 .. RxSize - 1 -> Bytes] /\ txBuf \in [0 .. TxSize - 1 -> Bytes]
  /\ rxHead \in 0 .. RxSize - 1 /\ rxTail \in 0 .. RxSize - 1
  /\ txHead \in 0 .. TxSize - 1 /\ txTail \in 0 .. TxSize - 1
  /\ lastRxError \subseteq Errors /\ udrie \in BOOLEAN
  /\ call \in [at : {"none", "read", "advanced", "stored", "published"},
               byte : Bytes, error : SUBSET Errors]

\* Bytes come out of either ring in the order they went in, none lost and none
\* twice, whatever interrupts come between the steps of uart_getc and uart_putc.
BytesInOrder ==
  /\ arrived = taken \o Received
  /\ written = sent \o ToSend

\* While bytes are waiting to be sent the interrupt that sends them is enabled, or
\* uart_putc is about to enable it: the routine that finds the ring empty and the
\* program that fills it never leave each other a filled ring without interrupt.
TransmitterAwake ==
  txHead # txTail => udrie \/ call.at = "published"
=============================================================================
