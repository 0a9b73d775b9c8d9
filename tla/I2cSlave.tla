------------------------------ MODULE I2cSlave ------------------------------
(***************************************************************************)
(* The I2C slave, lib/AVRTools/I2cSlave.cpp, which lives in its interrupt  *)
(* routine: one buffer takes what a master sends and then holds what the   *)
(* user's processI2cMessage answers.                                       *)
(***************************************************************************)
EXTENDS Integers, Sequences

CONSTANTS
  kI2cBufferSize, \* I2C_SLAVE_BUFFER_SIZE
  ownAddress, answerGeneralCall,
  Answers         \* what processI2cMessage may put into the buffer

ASSUME I2cSlaveAssumption ==
  /\ kI2cBufferSize \in Nat \ {0, 1} /\ answerGeneralCall \in BOOLEAN
  /\ \A answer \in Answers : answer \in Seq(0 .. 255) /\ Len(answer) <= kI2cBufferSize

VARIABLES
  slaveBuffer, gI2cBufferIndex, gI2cMsgSize, gI2cStatus, slaveBusy,
  twea,        \* the hardware acknowledges the next byte
  slaveStatus, \* why it interrupts, or "none"
  slaveTwdr,   \* its data register
  processed,   \* history: the messages given to processI2cMessage
  answer,      \* history: its answer to the last one
  torn         \* history: since then bytes came in of a message never processed

slave == <<slaveBuffer, gI2cBufferIndex, gI2cMsgSize, gI2cStatus, slaveBusy, twea,
           slaveStatus, slaveTwdr, processed, answer, torn>>

\* start
SlaveInit ==
  /\ slaveBuffer = [i \in 0 .. kI2cBufferSize - 1 |-> 0]
  /\ gI2cBufferIndex = 0 /\ gI2cMsgSize = 0 /\ gI2cStatus = "ok" /\ slaveBusy = FALSE
  /\ twea = TRUE /\ slaveStatus = "none" /\ slaveTwdr = 255
  /\ processed = <<>> /\ answer = <<>> /\ torn = FALSE

SlaveInterrupts(codes) == slaveStatus \in codes /\ slaveStatus' = "none"

Continue(acknowledge) == twea' = acknowledge

\* The next byte of the answer, or 0xFF where there is none.
Load(index) ==
  /\ gI2cBufferIndex' = IF index < gI2cMsgSize THEN index + 1 ELSE index
  /\ slaveTwdr' = IF index < gI2cMsgSize THEN slaveBuffer[index] ELSE 255
  /\ gI2cStatus' = "inProgress" /\ slaveBusy' = TRUE
  /\ Continue(TRUE)
  /\ UNCHANGED <<slaveBuffer, gI2cMsgSize, processed, answer, torn>>

StartTransmit == SlaveInterrupts({"ST_SLA_ACK"}) /\ Load(0)
ContinueTransmit == SlaveInterrupts({"ST_DATA_ACK"}) /\ Load(gI2cBufferIndex)

EndTransmit ==
  /\ SlaveInterrupts({"ST_DATA_NACK"})
  /\ gI2cStatus' = IF gI2cBufferIndex = gI2cMsgSize THEN "ok" ELSE "txPartial"
  /\ slaveBusy' = FALSE /\ Continue(TRUE)
  /\ UNCHANGED <<slaveBuffer, gI2cBufferIndex, gI2cMsgSize, slaveTwdr, processed, answer, torn>>

StartReceive ==
  /\ SlaveInterrupts({"SR_SLA_ACK", "SR_GCALL_ACK"})
  /\ gI2cBufferIndex' = 0 /\ slaveBusy' = TRUE /\ gI2cStatus' = "inProgress"
  /\ Continue(TRUE)
  /\ UNCHANGED <<slaveBuffer, gI2cMsgSize, slaveTwdr, processed, answer, torn>>

ReceiveByteAcknowledgingAll ==
  /\ SlaveInterrupts({"SR_DATA_ACK", "SR_GCALL_DATA_ACK"})
  /\ slaveBuffer' = [slaveBuffer EXCEPT ![gI2cBufferIndex] = slaveTwdr]
  /\ gI2cBufferIndex' = gI2cBufferIndex + 1
  /\ Continue(TRUE)
  /\ torn' = TRUE
  /\ UNCHANGED <<gI2cMsgSize, gI2cStatus, slaveBusy, slaveTwdr, processed, answer>>

\* The byte that would fill the buffer is not acknowledged.
ReceiveByte ==
  /\ SlaveInterrupts({"SR_DATA_ACK", "SR_GCALL_DATA_ACK"})
  /\ slaveBuffer' = [slaveBuffer EXCEPT ![gI2cBufferIndex] = slaveTwdr]
  /\ gI2cBufferIndex' = gI2cBufferIndex + 1
  /\ Continue(gI2cBufferIndex' < kI2cBufferSize - 1)
  /\ torn' = TRUE
  /\ UNCHANGED <<gI2cMsgSize, gI2cStatus, slaveBusy, slaveTwdr, processed, answer>>

\* A stop or a repeated start: the answer overwrites the message.
ProcessMessage ==
  /\ SlaveInterrupts({"SR_STOP"})
  /\ \E reply \in Answers :
       /\ slaveBuffer' = [i \in DOMAIN slaveBuffer |->
                            IF i < Len(reply) THEN reply[i + 1] ELSE slaveBuffer[i]]
       /\ gI2cMsgSize' = Len(reply)
       /\ answer' = reply
  /\ processed' = Append(processed, [i \in 1 .. gI2cBufferIndex |-> slaveBuffer[i - 1]])
  /\ slaveBusy' = FALSE /\ torn' = FALSE
  /\ gI2cStatus' = IF gI2cStatus = "inProgress" THEN "ok" ELSE gI2cStatus
  /\ Continue(TRUE)
  /\ UNCHANGED <<gI2cBufferIndex, slaveTwdr>>

\* Also the byte that was not acknowledged: it is not stored, and its message is never
\* processed.
ReceiveFailed ==
  /\ SlaveInterrupts({"SR_DATA_NACK", "SR_GCALL_DATA_NACK", "BUS_ERROR"})
  /\ slaveBusy' = FALSE /\ gI2cStatus' = "error"
  /\ Continue(TRUE)
  /\ UNCHANGED <<slaveBuffer, gI2cBufferIndex, gI2cMsgSize, slaveTwdr, processed, answer, torn>>

SlaveInterrupt ==
  \/ StartTransmit \/ ContinueTransmit \/ EndTransmit
  \/ StartReceive \/ ReceiveByte \/ ProcessMessage \/ ReceiveFailed

-----------------------------------------------------------------------------
SlaveTypeOK ==
  /\ slaveBuffer \in [0 .. kI2cBufferSize - 1 -> 0 .. 255]
  /\ gI2cMsgSize \in 0 .. kI2cBufferSize
  /\ gI2cStatus \in {"ok", "inProgress", "txPartial", "error"}
  /\ slaveBusy \in BOOLEAN /\ twea \in BOOLEAN /\ torn \in BOOLEAN

\* Whatever a master sends, a byte the slave acknowledges has room in the buffer.
RoomForAcknowledged ==
  /\ gI2cBufferIndex <= kI2cBufferSize
  /\ slaveStatus \in {"SR_DATA_ACK", "SR_GCALL_DATA_ACK"} => gI2cBufferIndex < kI2cBufferSize
=============================================================================
