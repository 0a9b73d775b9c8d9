------------------------------- MODULE I2cBus -------------------------------
(***************************************************************************)
(* A master of I2cMaster and a slave of I2cSlave on one wire.  The TWI     *)
(* hardware of either board does what its control register says and then   *)
(* interrupts; it holds the clock until the interrupt is dealt with, so    *)
(* the wire moves on only when both have.  Other masters and noise disturb *)
(* a transfer; there may be no slave at an address.                        *)
(***************************************************************************)
EXTENDS I2cMaster, I2cSlave, FiniteSets

CONSTANTS
  MaxDisturbances,
  Prompt \* the few instructions of startI2c take less time than a message on the wire

ASSUME I2cBusAssumption == MaxDisturbances \in Nat /\ Prompt \in BOOLEAN

VARIABLES
  phase,     \* of the wire: what the next byte is
  addressed, \* the slave takes part
  sender,    \* history: the message on the wire, 0 for another master's
  senders,   \* history: of each message the slave processed, whose it was
  promised,  \* history: what was to be read, as <<message, answer>>
  disturbed, disturbances \* history: messages in whose transfer something went wrong

wire == <<phase, addressed>>
history == <<sender, senders, promised, disturbed, disturbances>>
vars == <<master, slave, wire, history>>

Init ==
  /\ MasterInit /\ SlaveInit
  /\ phase = "free" /\ addressed = FALSE
  /\ sender = 0 /\ senders = <<>> /\ promised = {} /\ disturbed = {} /\ disturbances = 0

MasterSteps == MasterInterrupt /\ UNCHANGED <<slave, wire, history>>
ProgramSteps == Program /\ UNCHANGED <<slave, wire, history>>

SlaveSteps ==
  /\ SlaveInterrupt
  /\ senders' = IF slaveStatus = "SR_STOP" THEN Append(senders, sender) ELSE senders
  /\ UNCHANGED <<master, wire, sender, promised, disturbed, disturbances>>

-----------------------------------------------------------------------------
(* The wire *)

\* The hardware of the master does what it was told and then reports.
Report(code) ==
  /\ twStatus' = code
  /\ UNCHANGED <<queue, gI2cBusy, twcr, program, messages, interrupted>>

Does(what) == twcr.does = what /\ twStatus = "none" /\ slaveStatus = "none"

SlaveGets(code, byte) ==
  /\ slaveStatus' = code /\ slaveTwdr' = byte
  /\ UNCHANGED <<slaveBuffer, gI2cBufferIndex, gI2cMsgSize, gI2cStatus, slaveBusy, twea,
                 processed, answer, torn>>

\* A slave that was receiving sees a stop or a repeated start.
SlaveSeesEnd ==
  IF addressed /\ phase = "writing" THEN SlaveGets("SR_STOP", slaveTwdr) ELSE UNCHANGED slave

\* Without that assumption a message may be over before startI2c looks at gI2cBusy,
\* which then starts a transfer with an empty ring: the last message is sent once more
\* and mNbrMsgs becomes 255.
TooEarly == Prompt /\ mainPc \in {"startI2c", "startI2cIdle"} /\ Current.id = Len(asked)

StartCondition ==
  /\ ~TooEarly
  /\ Does("start") \/ Does("stopAndStart")
  /\ Report(IF phase = "free" THEN "START" ELSE "REP_START") /\ UNCHANGED twdr
  /\ SlaveSeesEnd
  /\ phase' = "started" /\ addressed' = FALSE
  /\ UNCHANGED history

StopCondition ==
  /\ Does("stop")
  /\ twcr' = Idle
  /\ SlaveSeesEnd
  /\ phase' = "free" /\ addressed' = FALSE
  /\ UNCHANGED <<queue, gI2cBusy, twStatus, twdr, program, messages, interrupted, history>>

IsOwn(request) ==
  request.address = ownAddress \/ (request.address = 0 /\ answerGeneralCall /\ request.rx = 0)

Address ==
  /\ Does("send") /\ phase = "started"
  /\ LET own == twdr.address = ownAddress \/ (twdr.address = 0 /\ answerGeneralCall /\ ~twdr.read)
         acknowledged == own /\ twea
     IN /\ Report(IF twdr.read THEN IF acknowledged THEN "MR_SLA_ACK" ELSE "MR_SLA_NACK"
                  ELSE IF acknowledged THEN "MT_SLA_ACK" ELSE "MT_SLA_NACK")
        /\ IF acknowledged
           THEN SlaveGets(IF twdr.read THEN "ST_SLA_ACK"
                          ELSE IF twdr.address = 0 THEN "SR_GCALL_ACK" ELSE "SR_SLA_ACK", slaveTwdr)
           ELSE UNCHANGED slave
        /\ addressed' = acknowledged
        /\ phase' = IF twdr.read THEN "reading" ELSE "writing"
        /\ promised' = IF twdr.read /\ acknowledged /\ ~torn
                       THEN promised \cup {<<Current.id, answer>>} ELSE promised
  /\ sender' = Current.id
  /\ UNCHANGED <<twdr, senders, disturbed, disturbances>>

Write ==
  /\ Does("send") /\ phase = "writing" /\ addressed
  /\ Report(IF twea THEN "MT_DATA_ACK" ELSE "MT_DATA_NACK")
  /\ SlaveGets(IF twea THEN "SR_DATA_ACK" ELSE "SR_DATA_NACK", twdr)
  /\ addressed' = twea
  /\ UNCHANGED <<twdr, phase, history>>

Read ==
  /\ Does("ack") \/ Does("nack")
  /\ Report(IF twcr.does = "ack" THEN "MR_DATA_ACK" ELSE "MR_DATA_NACK")
  /\ twdr' = slaveTwdr
  /\ SlaveGets(IF twcr.does = "ack" THEN "ST_DATA_ACK" ELSE "ST_DATA_NACK", slaveTwdr)
  /\ addressed' = (twcr.does = "ack")
  /\ UNCHANGED <<phase, history>>

-----------------------------------------------------------------------------
(* What disturbs it *)

Disturb(ids) ==
  /\ disturbances < MaxDisturbances
  /\ disturbances' = disturbances + 1
  /\ disturbed' = disturbed \cup ids
  /\ UNCHANGED <<senders, promised>>

\* Another master goes on with what looked the same so far, and ends it.
OtherMasterWins ==
  /\ Does("send") /\ Disturb({Current.id})
  /\ Report("ARB_LOST") /\ UNCHANGED twdr
  /\ SlaveSeesEnd
  /\ phase' = "free" /\ addressed' = FALSE /\ sender' = 0

Noise ==
  /\ Does("send") \/ Does("ack") \/ Does("nack")
  /\ Disturb({Current.id})
  /\ Report("BUS_ERROR") /\ UNCHANGED twdr
  /\ IF addressed THEN SlaveGets("BUS_ERROR", slaveTwdr) ELSE UNCHANGED slave
  /\ phase' = "free" /\ addressed' = FALSE /\ sender' = 0

ProgramRestarts ==
  /\ Restart /\ slaveStatus = "none" /\ Disturb(DOMAIN asked)
  /\ UNCHANGED <<slave, wire, sender>>

-----------------------------------------------------------------------------
Next ==
  \/ MasterSteps \/ ProgramSteps \/ SlaveSteps
  \/ StartCondition \/ StopCondition \/ Address \/ Write \/ Read
  \/ OtherMasterWins \/ Noise \/ ProgramRestarts

Spec == Init /\ [][Next]_vars

-----------------------------------------------------------------------------
I2cTypeOK ==
  /\ MasterTypeOK /\ SlaveTypeOK
  /\ phase \in {"free", "started", "writing", "reading"} /\ addressed \in BOOLEAN
  /\ Len(senders) = Len(processed)

\* What was accepted is not lost: a message the ring took has an interrupt that works
\* it off, and a byte the slave acknowledges has room in its buffer.
NothingAcceptedLost == NoMessageStranded /\ RoomForAcknowledged

Padded(bytes, n) == [i \in 1 .. n |-> IF i <= Len(bytes) THEN bytes[i] ELSE 255]

\* A message that reports completion was carried out as it was asked for, unless its own
\* transfer was disturbed: the slave processed exactly its bytes, once, or does so with
\* the stop condition that follows; and what was read is what the slave then had to
\* answer, filled up with 0xFF.  Errors of other messages, which share ring and buffer
\* with it, make no difference.
CompletedAsAsked ==
  \A id \in DOMAIN asked \ disturbed :
    status[id] = "ok" /\ IsOwn(asked[id]) =>
      /\ asked[id].tx # <<>> =>
           \/ {k \in DOMAIN senders : senders[k] = id} = {} /\ sender = id
           \/ \E k \in DOMAIN senders :
                /\ processed[k] = asked[id].tx
                /\ \A l \in DOMAIN senders : senders[l] = id <=> l = k
      /\ \A promise \in promised :
           promise[1] = id => received[id] = Padded(promise[2], asked[id].rx)
=============================================================================
