----------------------------- MODULE I2cMaster -----------------------------
(***************************************************************************)
(* The interrupt driven I2C master, lib/AVRTools/I2cMaster.cpp: a ring of  *)
(* messages the main program fills and the TWI interrupt works off.  A     *)
(* message is sent, read, or sent and answered after a repeated start.     *)
(* Statements of the main program that share something with the interrupt  *)
(* are steps; the routine is one step.  The wire is in I2cBus.             *)
(***************************************************************************)
EXTENDS Integers, Sequences

CONSTANTS
  kMaxNbrMsgs, \* the slots of the ring, I2C_MASTER_MAX_TX_MSG_NBR
  kMaxMsgLen,  \* the bytes of a slot, I2C_MASTER_MAX_TX_MSG_LEN
  Requests,    \* what the program asks for: address, tx (bytes), rx (how many)
  MaxRequests  \* how often it asks

ASSUME I2cMasterAssumption ==
  /\ kMaxNbrMsgs \in 1 .. 255  \* a uint8_t, as the counter of the messages
  /\ kMaxMsgLen \in Nat \ {0} /\ MaxRequests \in Nat
  /\ Requests \subseteq [address : Nat, tx : Seq(0 .. 255), rx : Nat]
  /\ \A request \in Requests : request.tx # <<>> \/ request.rx > 0

VARIABLES
  slots, mCurrentByte, mNbrMsgs, mCurrentMsg, \* BufferI2cTx
  gI2cBusy,
  twcr,      \* the control register: twie, and what the hardware is told to do
  twStatus,  \* why the hardware interrupts, or "none"
  twdr,      \* the data register: a byte, or address and direction
  mainPc, waitsFor, \* where the main program is, and the message it waits for
  asked,     \* history: the messages in the order they were asked for
  status, received, \* of each message: its status, the bytes read into its buffer
  interrupted \* history: restarted, and no transfer was begun since

queue == <<slots, mCurrentByte, mNbrMsgs, mCurrentMsg>>
messages == <<asked, status, received>>
program == <<mainPc, waitsFor>>
master == <<queue, gI2cBusy, twcr, twStatus, twdr, program, messages, interrupted>>

EmptySlot == [address |-> 0, mode |-> "none", tx |-> <<>>, rx |-> 0, id |-> 0]
Idle == [twie |-> FALSE, does |-> "nothing"]

\* The BufferI2cTx and what start() sets.
MasterInit ==
  /\ slots = [s \in 0 .. kMaxNbrMsgs - 1 |-> EmptySlot]
  /\ mCurrentByte = 0 /\ mNbrMsgs = 0 /\ mCurrentMsg = 0
  /\ gI2cBusy = FALSE /\ twcr = Idle /\ twStatus = "none" /\ twdr = 255
  /\ mainPc = "ready" /\ waitsFor = 0
  /\ asked = <<>> /\ status = <<>> /\ received = <<>> /\ interrupted = FALSE

-----------------------------------------------------------------------------
(* The main program *)

\* The mode each of the functions passes to push.
Mode(request) ==
  CASE request.rx = 0 -> "write"
    [] request.tx = <<>> -> "read"
    [] OTHER -> "writeRestartRead"

\* push: refused where it does not fit; a message without data or storage is none of the
\* requests.
Push(request) ==
  /\ mNbrMsgs < kMaxNbrMsgs /\ Len(request.tx) <= kMaxMsgLen
  /\ LET slot == (mCurrentMsg + mNbrMsgs) % kMaxNbrMsgs
     IN slots' = [slots EXCEPT ![slot] =
          [address |-> request.address, mode |-> Mode(request), tx |-> request.tx,
           rx |-> request.rx, id |-> Len(asked) + 1]]
  /\ mNbrMsgs' = mNbrMsgs + 1
  /\ asked' = Append(asked, request)
  /\ status' = Append(status, "notStarted")
  /\ received' = Append(received, <<>>)
  /\ UNCHANGED <<mCurrentByte, mCurrentMsg>>

Ask(sync) ==
  /\ mainPc = "ready" /\ Len(asked) < MaxRequests
  /\ mainPc' = "startI2c"
  /\ waitsFor' = IF sync THEN Len(asked) + 1 ELSE 0
  /\ UNCHANGED <<gI2cBusy, twcr, twStatus, twdr, interrupted>>

\* The asynchronous functions wait until the ring is not full, the guard of Push.
WriteAsync == \E request \in Requests : Mode(request) = "write" /\ Push(request) /\ Ask(FALSE)
ReadAsync == \E request \in Requests : Mode(request) # "write" /\ Push(request) /\ Ask(FALSE)

\* The synchronous ones are these with waitForCompletion.
WriteSync == \E request \in Requests : Mode(request) = "write" /\ Push(request) /\ Ask(TRUE)
ReadSync == \E request \in Requests : Mode(request) # "write" /\ Push(request) /\ Ask(TRUE)

\* startI2c looks at gI2cBusy, then at the interrupt enable bit.
StartI2cBusy ==
  /\ mainPc = "startI2c"
  /\ mainPc' = IF gI2cBusy THEN "wait" ELSE "startI2cIdle"
  /\ UNCHANGED <<queue, gI2cBusy, twcr, twStatus, twdr, waitsFor, messages, interrupted>>

\* It spins until a stop condition is on the wire, then begins.
StartI2cIdle ==
  /\ mainPc = "startI2cIdle"
  /\ \/ /\ twcr.twie
        /\ UNCHANGED <<gI2cBusy, twcr, twStatus>>
     \/ /\ ~twcr.twie /\ twcr.does # "stop"
        /\ gI2cBusy' = TRUE
        /\ twcr' = [twie |-> TRUE, does |-> "start"]
        /\ twStatus' = "none"
  /\ mainPc' = "wait"
  /\ UNCHANGED <<queue, twdr, waitsFor, messages, interrupted>>

WaitForCompletion ==
  /\ mainPc = "wait"
  /\ waitsFor > 0 => status[waitsFor] \notin {"notStarted", "inProgress"}
  /\ mainPc' = "ready" /\ waitsFor' = 0
  /\ UNCHANGED <<queue, gI2cBusy, twcr, twStatus, twdr, messages, interrupted>>

\* stop() and then start(): the messages in the ring stay there.
Restart ==
  /\ mainPc = "ready"
  /\ gI2cBusy' = FALSE /\ twcr' = Idle /\ twStatus' = "none" /\ twdr' = 255
  /\ interrupted' = TRUE
  /\ UNCHANGED <<queue, program, messages>>

-----------------------------------------------------------------------------
(* ISR(TWI_vect), by the status it finds *)

Current == slots[mCurrentMsg]

Command(does) ==
  /\ twcr' = [twie |-> does # "stop", does |-> does]
  /\ twStatus' = "none"

Interrupts(codes) == twcr.twie /\ twStatus \in codes /\ UNCHANGED program

\* START or a repeated one is on the wire: the address follows.
SendAddress ==
  /\ Interrupts({"START", "REP_START"})
  /\ twdr' = [address |-> Current.address,
              read |-> Current.mode \notin {"write", "writeRestartRead"}]
  /\ status' = [status EXCEPT ![Current.id] = "inProgress"]
  /\ gI2cBusy' = TRUE /\ interrupted' = FALSE
  /\ Command("send")
  /\ UNCHANGED <<queue, asked, received>>

DoneWithoutWrap ==
  /\ mNbrMsgs' = (mNbrMsgs - 1) % 256
  /\ mCurrentMsg' = IF mNbrMsgs # 1 THEN mCurrentMsg + 1 ELSE mCurrentMsg
  /\ mCurrentByte' = 0
  /\ UNCHANGED slots

DoneKeepingByte ==
  /\ mNbrMsgs' = (mNbrMsgs - 1) % 256
  /\ mCurrentMsg' = IF mNbrMsgs # 1 THEN (mCurrentMsg + 1) % kMaxNbrMsgs ELSE mCurrentMsg
  /\ UNCHANGED <<slots, mCurrentByte>>

DoneWithCurrentMessage ==
  /\ mNbrMsgs' = (mNbrMsgs - 1) % 256
  /\ mCurrentMsg' = IF mNbrMsgs # 1 THEN (mCurrentMsg + 1) % kMaxNbrMsgs ELSE mCurrentMsg
  /\ mCurrentByte' = 0
  /\ UNCHANGED slots

FinishAlwaysStopping(result, withNext) ==
  /\ status' = [status EXCEPT ![Current.id] = result]
  /\ DoneWithCurrentMessage
  /\ Command("stop") /\ gI2cBusy' = FALSE
  /\ UNCHANGED <<twdr, asked, interrupted>>

\* The next message keeps the bus; without one it is released.
Finish(result, withNext) ==
  /\ status' = [status EXCEPT ![Current.id] = result]
  /\ DoneWithCurrentMessage
  /\ IF mNbrMsgs # 1 THEN Command(withNext) /\ UNCHANGED gI2cBusy
     ELSE Command("stop") /\ gI2cBusy' = FALSE
  /\ UNCHANGED <<twdr, asked, interrupted>>

SendByte ==
  /\ Interrupts({"MT_SLA_ACK", "MT_DATA_ACK"})
  /\ mCurrentByte < Len(Current.tx)
  /\ twdr' = Current.tx[mCurrentByte + 1]
  /\ mCurrentByte' = mCurrentByte + 1
  /\ Command("send")
  /\ UNCHANGED <<slots, mNbrMsgs, mCurrentMsg, gI2cBusy, messages, interrupted>>

\* The last byte was sent: the answer is read, in the same message.
TurnToReading ==
  /\ Interrupts({"MT_SLA_ACK", "MT_DATA_ACK"})
  /\ mCurrentByte = Len(Current.tx) /\ Current.mode = "writeRestartRead"
  /\ slots' = [slots EXCEPT ![mCurrentMsg].mode = "read"]
  /\ Command("start")
  /\ UNCHANGED <<mCurrentByte, mNbrMsgs, mCurrentMsg, gI2cBusy, twdr, messages, interrupted>>

WriteCompleted ==
  /\ Interrupts({"MT_SLA_ACK", "MT_DATA_ACK"})
  /\ mCurrentByte = Len(Current.tx) /\ Current.mode # "writeRestartRead"
  /\ Finish("ok", "start")
  /\ UNCHANGED received

ReadFirst ==
  /\ Interrupts({"MR_SLA_ACK"})
  /\ Command(IF Current.rx > 1 THEN "ack" ELSE "nack")
  /\ UNCHANGED <<queue, gI2cBusy, twdr, messages, interrupted>>

Receive == received' = [received EXCEPT ![Current.id] = Append(@, twdr)]

ReadByte ==
  /\ Interrupts({"MR_DATA_ACK"})
  /\ Receive
  /\ Command(IF Len(received[Current.id]) + 1 < Current.rx - 1 THEN "ack" ELSE "nack")
  /\ UNCHANGED <<queue, gI2cBusy, twdr, asked, status, interrupted>>

ReadCompleted ==
  /\ Interrupts({"MR_DATA_NACK"})
  /\ Receive
  /\ Finish("ok", "start")

\* Begins the message again, but goes on after the bytes that were sent already.
ArbitrationLost ==
  /\ Interrupts({"ARB_LOST"})
  /\ Command("start")
  /\ UNCHANGED <<queue, gI2cBusy, twdr, messages, interrupted>>

\* Without I2C_MASTER_SLA_NACK_SPECIAL_HANDLING, which nothing defines.
Failed ==
  /\ Interrupts({"MT_SLA_NACK", "MR_SLA_NACK", "MT_DATA_NACK", "BUS_ERROR"})
  /\ Finish("error", "stopAndStart")
  /\ UNCHANGED received

MasterInterrupt ==
  \/ SendAddress \/ SendByte \/ TurnToReading \/ WriteCompleted
  \/ ReadFirst \/ ReadByte \/ ReadCompleted \/ ArbitrationLost \/ Failed

Program ==
  \/ WriteAsync \/ ReadAsync \/ WriteSync \/ ReadSync
  \/ StartI2cBusy \/ StartI2cIdle \/ WaitForCompletion

-----------------------------------------------------------------------------
MasterTypeOK ==
  /\ \A s \in 0 .. kMaxNbrMsgs - 1 : slots[s].id \in 0 .. Len(asked)
  /\ mNbrMsgs \in 0 .. kMaxNbrMsgs /\ mCurrentMsg \in 0 .. kMaxNbrMsgs - 1
  /\ mCurrentByte \in 0 .. kMaxMsgLen
  /\ twcr \in [twie : BOOLEAN,
               does : {"nothing", "start", "stop", "stopAndStart", "send", "ack", "nack"}]
  /\ mainPc \in {"ready", "startI2c", "startI2cIdle", "wait"}
  /\ \A id \in DOMAIN asked : status[id] \in {"notStarted", "inProgress", "ok", "error"}

\* While messages are in the ring their interrupt is enabled, or the main program is
\* about to see to it: a message pushed while the last one ends is not left behind,
\* although gI2cBusy and the interrupt enable bit are read without a lock.  Only
\* stop() leaves messages behind.
NoMessageStranded ==
  mNbrMsgs > 0 => twcr.twie \/ mainPc \in {"startI2c", "startI2cIdle"} \/ interrupted
=============================================================================
