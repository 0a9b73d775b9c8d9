------------------------------ MODULE I2cProofs ------------------------------
(***************************************************************************)
(* Proofs about the I2C bus of a master and a slave, for rings, buffers    *)
(* and messages of any size, any requests and any number of disturbances:  *)
(* see I2cMaster, I2cSlave and I2cBus.                                     *)
(***************************************************************************)
EXTENDS I2cBus, SequenceTheorems, TLAPS

Byte == 0 .. 255
Statuses == {"notStarted", "inProgress", "ok", "error"}
Tasks == {"nothing", "start", "stop", "stopAndStart", "send", "ack", "nack"}
Places == {"ready", "startI2c", "startI2cIdle", "wait"}

-----------------------------------------------------------------------------
(* The inductive invariant *)

\* The ring and what the messages in it are.
Queued ==
  /\ asked \in Seq(Requests)
  /\ slots \in [0 .. kMaxNbrMsgs - 1 ->
                  [address : Nat, mode : {"none", "write", "read", "writeRestartRead"},
                   tx : Seq(Byte), rx : Nat, id : Nat]]
  /\ \A s \in 0 .. kMaxNbrMsgs - 1 :
       slots[s].id <= Len(asked) /\ Len(slots[s].tx) <= kMaxMsgLen
  /\ mNbrMsgs \in 0 .. kMaxNbrMsgs /\ mCurrentMsg \in 0 .. kMaxNbrMsgs - 1
  /\ mCurrentByte \in 0 .. kMaxMsgLen
  /\ status \in Seq(Statuses) /\ Len(status) = Len(asked)

\* What the hardware of the master reports, it reports to an enabled interrupt, and the
\* interrupt is enabled only while messages are in the ring; the program takes the bus
\* for busy only while it is enabled.
Enabled ==
  /\ twcr \in [twie : BOOLEAN, does : Tasks]
  /\ mainPc \in Places /\ gI2cBusy \in BOOLEAN
  /\ ~twcr.twie <=> twcr.does \in {"nothing", "stop"}
  /\ ~twcr.twie => twStatus = "none"
  /\ twcr.twie => mNbrMsgs > 0
  /\ gI2cBusy => twcr.twie

Transferring ==
  twStatus # "none" \/ twcr.does \notin {"nothing", "start", "stop", "stopAndStart"}

Starting == mainPc \in {"startI2c", "startI2cIdle"}

\* While startI2c has not begun, the message it was called for is the last of the ring,
\* and it is not on the wire.
Awaited ==
  Starting =>
    /\ mNbrMsgs > 0
    /\ slots[(mCurrentMsg + mNbrMsgs - 1) % kMaxNbrMsgs].id = Len(asked)
    /\ Current.id = Len(asked) => ~Transferring

\* A byte is sent where the address was, and only then.
Sending ==
  /\ phase \in {"free", "started", "writing", "reading"} /\ addressed \in BOOLEAN
  /\ twStatus \in {"START", "REP_START"} => phase = "started"
  /\ twStatus \in {"MT_SLA_ACK", "MT_DATA_ACK"} => phase = "writing"
  /\ twStatus \in {"MR_SLA_ACK", "MR_DATA_ACK"} => phase = "reading"
  /\ twcr.does = "send" /\ twStatus = "none" /\ phase = "writing" => twdr \in Byte
  /\ twcr.does \in {"ack", "nack"} /\ twStatus = "none" => phase = "reading"

\* The slave that is addressed for writing has room for a byte more than it acknowledges.
Receiving ==
  /\ slaveBuffer \in [0 .. kI2cBufferSize - 1 -> Byte] /\ slaveTwdr \in Byte
  /\ gI2cBufferIndex \in 0 .. kI2cBufferSize /\ gI2cMsgSize \in 0 .. kI2cBufferSize
  /\ gI2cStatus \in {"ok", "inProgress", "txPartial", "error"}
  /\ slaveBusy \in BOOLEAN /\ twea \in BOOLEAN /\ torn \in BOOLEAN
  /\ slaveStatus \in {"SR_DATA_ACK", "SR_GCALL_DATA_ACK"} =>
       gI2cBufferIndex < kI2cBufferSize - 1
  /\ addressed /\ phase = "writing" =>
       slaveStatus \in {"none", "SR_SLA_ACK", "SR_GCALL_ACK", "SR_DATA_ACK"}
  /\ addressed /\ phase = "writing" /\ slaveStatus = "none" /\ twea =>
       gI2cBufferIndex < kI2cBufferSize - 1

Processing ==
  /\ processed \in Seq(Seq(Byte))
  /\ senders \in Seq(Nat) /\ sender \in Nat
  /\ Len(senders) = Len(processed)

BusInv ==
  /\ Queued /\ Enabled /\ Awaited /\ NoMessageStranded
  /\ Sending /\ Receiving /\ Processing

LEMMA Constants ==
  /\ kMaxNbrMsgs \in 1 .. 255 /\ kMaxMsgLen \in Nat \ {0}
  /\ kI2cBufferSize \in Nat \ {0, 1}
  /\ Requests \subseteq [address : Nat, tx : Seq(Byte), rx : Nat]
  /\ \A reply \in Answers : reply \in Seq(Byte) /\ Len(reply) <= kI2cBufferSize
  BY I2cMasterAssumption, I2cSlaveAssumption DEF Byte

-----------------------------------------------------------------------------
(* Operators *)

\* Where the i-th of the messages in the ring is, counted from 0.
LEMMA SlotIs ==
  ASSUME NEW size \in Nat \ {0}, NEW first \in 0 .. size - 1, NEW i \in 0 .. size
  PROVE  /\ (first + i) % size = IF first + i < size THEN first + i ELSE first + i - size
         /\ (first + i) % size \in 0 .. size - 1
<1>1. CASE first + i < size
  BY <1>1
<1>2. CASE first + i >= size
  BY <1>2
<1> QED
  BY <1>1, <1>2

\* As long as the counter of messages is not 0 it does not wrap around.
LEMMA OneLess ==
  ASSUME NEW n \in 1 .. 255
  PROVE  (n - 1) % 256 = n - 1
  OBVIOUS

LEMMA UpdateSeq ==
  ASSUME NEW S, NEW seq \in Seq(S), NEW i, NEW e \in S
  PROVE  [seq EXCEPT ![i] = e] \in Seq(S) /\ Len([seq EXCEPT ![i] = e]) = Len(seq)
<1> DEFINE updated(j) == IF j = i THEN e ELSE seq[j]
<1>1. /\ Len(seq) \in Nat /\ DOMAIN seq = 1 .. Len(seq)
      /\ \A j \in 1 .. Len(seq) : seq[j] \in S
  OBVIOUS
<1>2. [seq EXCEPT ![i] = e] = [j \in 1 .. Len(seq) |-> updated(j)]
  BY <1>1
<1>3. \A j \in 1 .. Len(seq) : updated(j) \in S
  BY <1>1
<1> HIDE DEF updated
<1>4. [j \in 1 .. Len(seq) |-> updated(j)] \in Seq(S)
  BY <1>1, <1>3, IsASeq
<1>5. Len([j \in 1 .. Len(seq) |-> updated(j)]) = Len(seq)
  BY <1>1
<1> QED
  BY <1>2, <1>4, <1>5

LEMMA BusInit == Init => BusInv
<1> SUFFICES ASSUME Init PROVE BusInv
  OBVIOUS
<1> USE DEF Init, MasterInit, SlaveInit
<1>1. Queued
  BY Constants DEF Queued, EmptySlot
<1>2. twcr = [twie |-> FALSE, does |-> "nothing"]
  BY DEF Idle
<1>4. Enabled
  <2>1. gI2cBusy = FALSE /\ mainPc = "ready" /\ twStatus = "none"
    OBVIOUS
  <2>2. twcr \in [twie : BOOLEAN, does : Tasks] /\ ~twcr.twie /\ twcr.does = "nothing"
    BY <1>2 DEF Tasks
  <2>3. gI2cBusy \in BOOLEAN /\ ~gI2cBusy
    BY <2>1
  <2> HIDE DEF Init, MasterInit, SlaveInit
  <2> QED
    BY <2>1, <2>2, <2>3 DEF Enabled, Places
<1>5. Awaited /\ NoMessageStranded
  BY DEF Awaited, NoMessageStranded, Starting
<1>3. Sending /\ Receiving /\ Processing
  BY <1>2, Constants DEF Sending, Receiving, Processing, Byte
<1> QED
  BY <1>1, <1>3, <1>4, <1>5 DEF BusInv

-----------------------------------------------------------------------------
(* The steps of the main program *)

LEMMA PushKeeps ==
  ASSUME BusInv, NEW request \in Requests, NEW sync, Push(request), Ask(sync)
  PROVE  Queued' /\ Enabled' /\ Awaited' /\ NoMessageStranded'
<1> DEFINE slot == (mCurrentMsg + mNbrMsgs) % kMaxNbrMsgs
           message == [address |-> request.address, mode |-> Mode(request), tx |-> request.tx,
                       rx |-> request.rx, id |-> Len(asked) + 1]
           Messages == [address : Nat, mode : {"none", "write", "read", "writeRestartRead"},
                        tx : Seq(Byte), rx : Nat, id : Nat]
<1>1. Queued /\ Enabled /\ Awaited
  BY DEF BusInv
<1>2. /\ mNbrMsgs < kMaxNbrMsgs /\ Len(request.tx) <= kMaxMsgLen
      /\ slots' = [slots EXCEPT ![slot] = message] /\ mNbrMsgs' = mNbrMsgs + 1
      /\ asked' = Append(asked, request) /\ status' = Append(status, "notStarted")
      /\ mCurrentByte' = mCurrentByte /\ mCurrentMsg' = mCurrentMsg
      /\ mainPc' = "startI2c" /\ gI2cBusy' = gI2cBusy /\ twcr' = twcr /\ twStatus' = twStatus
  BY DEF Push, Ask
<1>3. /\ mNbrMsgs \in 0 .. kMaxNbrMsgs - 1 /\ mCurrentMsg \in 0 .. kMaxNbrMsgs - 1
      /\ kMaxNbrMsgs \in 1 .. 255 /\ asked \in Seq(Requests)
  BY <1>1, <1>2, Constants DEF Queued
<1>4. /\ slot \in 0 .. kMaxNbrMsgs - 1
      /\ slot = IF mCurrentMsg + mNbrMsgs < kMaxNbrMsgs
                THEN mCurrentMsg + mNbrMsgs ELSE mCurrentMsg + mNbrMsgs - kMaxNbrMsgs
  <2>1. mNbrMsgs \in 0 .. kMaxNbrMsgs /\ kMaxNbrMsgs \in Nat \ {0}
    BY <1>3
  <2> QED
    BY <1>3, <2>1, SlotIs
<1>5. Mode(request) \in {"none", "write", "read", "writeRestartRead"}
  BY DEF Mode
<1>6. message \in Messages /\ message.id = Len(asked) + 1 /\ message.tx = request.tx
  BY <1>3, <1>5, Constants
<1> HIDE DEF message, slot
<1>7. Len(asked') = Len(asked) + 1 /\ asked' \in Seq(Requests)
  BY <1>2, <1>3
<1>8. slots \in [0 .. kMaxNbrMsgs - 1 -> Messages]
  BY <1>1 DEF Queued
<1>9. /\ slots' \in [0 .. kMaxNbrMsgs - 1 -> Messages] /\ slots'[slot] = message
      /\ \A s \in 0 .. kMaxNbrMsgs - 1 : s # slot => slots'[s] = slots[s]
  BY <1>2, <1>4, <1>6, <1>8
<1>10. ASSUME NEW s \in 0 .. kMaxNbrMsgs - 1
       PROVE  slots'[s].id <= Len(asked') /\ Len(slots'[s].tx) <= kMaxMsgLen
  <2>1. slots[s].id <= Len(asked) /\ Len(slots[s].tx) <= kMaxMsgLen /\ slots[s].id \in Nat
    BY <1>1, <1>8 DEF Queued
  <2>2. Len(asked) \in Nat
    BY <1>3
  <2>3. CASE s = slot
    BY <1>2, <1>6, <1>7, <1>9, <2>2, <2>3
  <2>4. CASE s # slot
    BY <1>7, <1>9, <2>1, <2>2, <2>4
  <2> QED
    BY <2>3, <2>4
<1>11. status' \in Seq(Statuses) /\ Len(status') = Len(asked')
  BY <1>1, <1>2, <1>7 DEF Queued, Statuses
<1>12. Queued'
  BY <1>1, <1>2, <1>3, <1>7, <1>9, <1>10, <1>11 DEF Queued
<1>13. Enabled'
  BY <1>1, <1>2, <1>3 DEF Enabled, Places
<1>14. Awaited'
  <2>1. mCurrentMsg' + mNbrMsgs' - 1 = mCurrentMsg + mNbrMsgs
    BY <1>2, <1>3
  <2>2. slots'[(mCurrentMsg' + mNbrMsgs' - 1) % kMaxNbrMsgs].id = Len(asked')
    BY <1>6, <1>7, <1>9, <2>1 DEF slot
  <2>3. Current'.id = Len(asked') => ~Transferring'
    <3>1. CASE mNbrMsgs = 0
      BY <1>1, <1>2, <3>1 DEF Enabled, Transferring
    <3>2. CASE mNbrMsgs # 0
      <4>1. slot # mCurrentMsg
        BY <1>3, <1>4, <3>2
      <4>2. slots'[mCurrentMsg].id = slots[mCurrentMsg].id /\ slots[mCurrentMsg].id <= Len(asked)
        BY <1>1, <1>3, <1>9, <4>1 DEF Queued
      <4>3. slots[mCurrentMsg].id \in Nat
        BY <1>3, <1>8
      <4> QED
        BY <1>2, <1>3, <1>7, <4>2, <4>3 DEF Current
    <3> QED
      BY <3>1, <3>2
  <2> QED
    BY <1>2, <1>3, <2>2, <2>3 DEF Awaited
<1>15. NoMessageStranded'
  BY <1>2 DEF NoMessageStranded
<1> QED
  BY <1>12, <1>13, <1>14, <1>15

LEMMA ProgramKeeps ==
  ASSUME BusInv, Program
  PROVE  Queued' /\ Enabled' /\ Awaited' /\ NoMessageStranded'
<1> USE DEF BusInv
<1>1. CASE WriteAsync \/ ReadAsync \/ WriteSync \/ ReadSync
  BY <1>1, PushKeeps DEF WriteAsync, ReadAsync, WriteSync, ReadSync
<1>2. CASE StartI2cBusy
  BY <1>2 DEF StartI2cBusy, queue, messages, Queued, Enabled, Awaited, NoMessageStranded,
              Starting, Transferring, Current, Places
<1>3. CASE StartI2cIdle
  <2>1. mainPc = "startI2cIdle" /\ mNbrMsgs > 0
    BY <1>3 DEF StartI2cIdle, Awaited, Starting
  <2>2. /\ mainPc' = "wait" /\ twcr'.twie /\ twcr' \in [twie : BOOLEAN, does : Tasks]
        /\ gI2cBusy' \in BOOLEAN /\ twcr'.does \notin {"nothing", "stop"}
    <3>1. CASE twcr.twie /\ UNCHANGED <<gI2cBusy, twcr, twStatus>>
      BY <1>3, <3>1 DEF StartI2cIdle, Enabled
    <3>2. CASE gI2cBusy' = TRUE /\ twcr' = [twie |-> TRUE, does |-> "start"]
      BY <1>3, <3>2 DEF StartI2cIdle, Tasks
    <3> QED
      BY <1>3, <3>1, <3>2 DEF StartI2cIdle
  <2>3. UNCHANGED <<queue, messages>>
    BY <1>3 DEF StartI2cIdle
  <2>4. Queued'
    BY <2>3 DEF queue, messages, Queued
  <2>5. Enabled' /\ Awaited' /\ NoMessageStranded'
    BY <2>1, <2>2, <2>3
       DEF queue, Enabled, Awaited, NoMessageStranded, Starting, Places
  <2> QED
    BY <2>4, <2>5
<1>4. CASE WaitForCompletion
  BY <1>4 DEF WaitForCompletion, queue, messages, Queued, Enabled, Awaited, NoMessageStranded,
              Starting, Transferring, Current, Places
<1> QED
  BY <1>1, <1>2, <1>3, <1>4 DEF Program

-----------------------------------------------------------------------------
(* The steps of the master's interrupt routine *)

\* It begins, or goes on with, the current message, which then is not one that startI2c
\* was called for.
LEMMA ReportIsOfEarlier ==
  ASSUME BusInv, twStatus # "none"
  PROVE  /\ twcr.twie /\ mNbrMsgs \in 1 .. 255 /\ mNbrMsgs <= kMaxNbrMsgs
         /\ Current \in [address : Nat, mode : {"none", "write", "read", "writeRestartRead"},
                         tx : Seq(Byte), rx : Nat, id : Nat]
         /\ Current.id <= Len(asked) /\ Len(Current.tx) <= kMaxMsgLen
         /\ Starting => Current.id # Len(asked) /\ mNbrMsgs > 1
<1>a. Queued /\ Enabled /\ Awaited
  BY DEF BusInv
<1>b. mCurrentMsg \in 0 .. kMaxNbrMsgs - 1 /\ kMaxNbrMsgs \in 1 .. 255
  BY <1>a, Constants DEF Queued
<1>1. twcr.twie /\ mNbrMsgs \in 1 .. 255 /\ mNbrMsgs <= kMaxNbrMsgs
  BY <1>a, Constants DEF Enabled, Queued
<1>2. Starting => Current.id # Len(asked)
  BY <1>a DEF Awaited, Transferring
<1>3. mNbrMsgs = 1 => (mCurrentMsg + mNbrMsgs - 1) % kMaxNbrMsgs = mCurrentMsg
  <2>1. 0 \in 0 .. kMaxNbrMsgs /\ kMaxNbrMsgs \in Nat \ {0}
    BY <1>b
  <2>2. (mCurrentMsg + 0) % kMaxNbrMsgs = mCurrentMsg
    BY <1>b, <2>1, SlotIs
  <2> QED
    BY <1>b, <2>2
<1>4. Starting => mNbrMsgs # 1
  BY <1>a, <1>2, <1>3 DEF Awaited, Current
<1>5. /\ Current \in [address : Nat, mode : {"none", "write", "read", "writeRestartRead"},
                      tx : Seq(Byte), rx : Nat, id : Nat]
      /\ Current.id <= Len(asked) /\ Len(Current.tx) <= kMaxMsgLen
  BY <1>a, <1>b DEF Queued, Current
<1> QED
  BY <1>1, <1>2, <1>4, <1>5

\* The message is done: the next one is the current one, if there is one.
LEMMA FinishKeeps ==
  ASSUME BusInv, twStatus # "none", NEW result \in Statuses,
         NEW with \in {"start", "stopAndStart"}, Finish(result, with), UNCHANGED program
  PROVE  /\ Queued' /\ Enabled' /\ Awaited' /\ NoMessageStranded'
         /\ twStatus' = "none" /\ twcr'.does # "send"
<1>1. /\ twcr.twie /\ mNbrMsgs \in 1 .. 255 /\ mNbrMsgs <= kMaxNbrMsgs
      /\ Starting => mNbrMsgs > 1
  BY ReportIsOfEarlier
<1>2. Queued /\ Enabled /\ Awaited
  BY DEF BusInv
<1>3. /\ mNbrMsgs' = mNbrMsgs - 1 /\ mCurrentByte' = 0 /\ slots' = slots /\ asked' = asked
      /\ mainPc' = mainPc
      /\ mCurrentMsg' = IF mNbrMsgs # 1 THEN (mCurrentMsg + 1) % kMaxNbrMsgs ELSE mCurrentMsg
      /\ status' = [status EXCEPT ![Current.id] = result]
  BY <1>1, OneLess DEF Finish, DoneWithCurrentMessage, program
<1>4. /\ mNbrMsgs # 1 => twcr' = [twie |-> TRUE, does |-> with] /\ gI2cBusy' = gI2cBusy
      /\ mNbrMsgs = 1 => twcr' = [twie |-> FALSE, does |-> "stop"] /\ gI2cBusy' = FALSE
      /\ twStatus' = "none"
  BY DEF Finish, Command
<1>5. /\ mCurrentMsg \in 0 .. kMaxNbrMsgs - 1 /\ kMaxNbrMsgs \in 1 .. 255
  BY <1>2, Constants DEF Queued
<1>6. /\ (mCurrentMsg + 1) % kMaxNbrMsgs \in 0 .. kMaxNbrMsgs - 1
      /\ (mCurrentMsg + 1) % kMaxNbrMsgs =
           IF mCurrentMsg + 1 < kMaxNbrMsgs THEN mCurrentMsg + 1 ELSE mCurrentMsg + 1 - kMaxNbrMsgs
  <2>1. 1 \in 0 .. kMaxNbrMsgs /\ kMaxNbrMsgs \in Nat \ {0}
    BY <1>5
  <2> QED
    BY <1>5, <2>1, SlotIs
<1>7. status' \in Seq(Statuses) /\ Len(status') = Len(asked')
  BY <1>2, <1>3, UpdateSeq DEF Queued
<1>8. Queued'
  <2>1. mCurrentMsg' \in 0 .. kMaxNbrMsgs - 1 /\ mNbrMsgs' \in 0 .. kMaxNbrMsgs
    BY <1>1, <1>3, <1>5, <1>6
  <2>2. 0 \in 0 .. kMaxMsgLen
    BY Constants
  <2> QED
    BY <1>2, <1>3, <1>7, <2>1, <2>2 DEF Queued
<1>9. Enabled'
  <2>1. /\ twcr' \in [twie : BOOLEAN, does : Tasks] /\ gI2cBusy' \in BOOLEAN
        /\ ~twcr'.twie <=> twcr'.does \in {"nothing", "stop"}
        /\ gI2cBusy' => twcr'.twie
    <3>1. CASE mNbrMsgs # 1
      <4>1. twcr' = [twie |-> TRUE, does |-> with] /\ gI2cBusy' = gI2cBusy
        BY <1>4, <3>1
      <4>2. twcr' \in [twie : BOOLEAN, does : Tasks] /\ twcr'.twie
        BY <4>1 DEF Tasks
      <4>3. gI2cBusy \in BOOLEAN
        BY <1>2 DEF Enabled
      <4> QED
        BY <4>1, <4>2, <4>3
    <3>2. CASE mNbrMsgs = 1
      <4>1. twcr' = [twie |-> FALSE, does |-> "stop"] /\ gI2cBusy' = FALSE
        BY <1>4, <3>2
      <4>2. twcr' \in [twie : BOOLEAN, does : Tasks] /\ twcr'.does = "stop"
        BY <4>1 DEF Tasks
      <4> QED
        BY <4>1, <4>2
    <3> QED
      BY <3>1, <3>2
  <2>2. twcr'.twie => mNbrMsgs' > 0
    BY <1>1, <1>3, <1>4
  <2> QED
    BY <1>2, <1>3, <1>4, <2>1, <2>2 DEF Enabled
<1>10. Awaited'
  <2> SUFFICES ASSUME Starting' PROVE Awaited'
    BY DEF Awaited
  <2>1. Starting /\ mNbrMsgs > 1
    BY <1>1, <1>3 DEF Starting
  <2>2. slots[(mCurrentMsg + mNbrMsgs - 1) % kMaxNbrMsgs].id = Len(asked)
    BY <1>2, <2>1 DEF Awaited
  <2>3. (mCurrentMsg' + mNbrMsgs' - 1) % kMaxNbrMsgs = (mCurrentMsg + mNbrMsgs - 1) % kMaxNbrMsgs
    <3>1. /\ mNbrMsgs - 1 \in 0 .. kMaxNbrMsgs /\ mNbrMsgs - 2 \in 0 .. kMaxNbrMsgs
          /\ mCurrentMsg' \in 0 .. kMaxNbrMsgs - 1 /\ kMaxNbrMsgs \in Nat \ {0}
      BY <1>1, <1>3, <1>5, <1>6, <2>1
    <3>2. (mCurrentMsg + (mNbrMsgs - 1)) % kMaxNbrMsgs =
            IF mCurrentMsg + (mNbrMsgs - 1) < kMaxNbrMsgs THEN mCurrentMsg + (mNbrMsgs - 1)
            ELSE mCurrentMsg + (mNbrMsgs - 1) - kMaxNbrMsgs
      BY <1>5, <3>1, SlotIs
    <3>3. (mCurrentMsg' + (mNbrMsgs - 2)) % kMaxNbrMsgs =
            IF mCurrentMsg' + (mNbrMsgs - 2) < kMaxNbrMsgs THEN mCurrentMsg' + (mNbrMsgs - 2)
            ELSE mCurrentMsg' + (mNbrMsgs - 2) - kMaxNbrMsgs
      BY <3>1, SlotIs
    <3>4. /\ mCurrentMsg + mNbrMsgs - 1 = mCurrentMsg + (mNbrMsgs - 1)
          /\ mCurrentMsg' + mNbrMsgs' - 1 = mCurrentMsg' + (mNbrMsgs - 2)
      BY <1>1, <1>3, <1>5, <3>1
    <3>5. mCurrentMsg' = IF mCurrentMsg + 1 < kMaxNbrMsgs THEN mCurrentMsg + 1
                         ELSE mCurrentMsg + 1 - kMaxNbrMsgs
      BY <1>1, <1>3, <1>6, <2>1
    <3> QED
      BY <1>1, <1>5, <2>1, <3>2, <3>3, <3>4, <3>5
  <2>4. ~Transferring'
    BY <1>1, <1>4, <2>1 DEF Transferring
  <2> QED
    BY <1>1, <1>3, <2>1, <2>2, <2>3, <2>4 DEF Awaited
<1>11. NoMessageStranded'
  BY <1>1, <1>3, <1>4 DEF NoMessageStranded
<1> QED
  BY <1>4, <1>8, <1>9, <1>10, <1>11

\* It goes on with the current message.
LEMMA GoesOnKeeps ==
  ASSUME BusInv, twStatus # "none", UNCHANGED program,
         NEW does \in {"send", "start", "ack", "nack"}, Command(does),
         mNbrMsgs' = mNbrMsgs, mCurrentMsg' = mCurrentMsg, asked' = asked,
         gI2cBusy' \in BOOLEAN,
         \A s \in 0 .. kMaxNbrMsgs - 1 : slots'[s].id = slots[s].id
  PROVE  Enabled' /\ Awaited' /\ NoMessageStranded'
<1>1. /\ twcr.twie /\ mNbrMsgs \in 1 .. 255 /\ mNbrMsgs <= kMaxNbrMsgs
      /\ Starting => Current.id # Len(asked)
  BY ReportIsOfEarlier
<1>2. Enabled /\ Awaited
  BY DEF BusInv
<1>7. mCurrentMsg \in 0 .. kMaxNbrMsgs - 1
  BY DEF BusInv, Queued
<1>3. /\ twcr' = [twie |-> TRUE, does |-> does] /\ twStatus' = "none" /\ mainPc' = mainPc
  BY DEF Command, program
<1>4. Enabled' /\ NoMessageStranded'
  BY <1>1, <1>2, <1>3 DEF Enabled, NoMessageStranded, Tasks
<1>5. (mCurrentMsg + mNbrMsgs - 1) % kMaxNbrMsgs \in 0 .. kMaxNbrMsgs - 1
  <2>a. kMaxNbrMsgs \in 1 .. 255
    BY Constants
  <2>b. mNbrMsgs \in 1 .. 255 /\ mNbrMsgs <= kMaxNbrMsgs
    BY <1>1
  <2>1. mNbrMsgs - 1 \in 0 .. kMaxNbrMsgs /\ kMaxNbrMsgs \in Nat \ {0}
    BY <2>a, <2>b
  <2>2. (mCurrentMsg + (mNbrMsgs - 1)) % kMaxNbrMsgs \in 0 .. kMaxNbrMsgs - 1
    BY <1>7, <2>1, SlotIs
  <2>3. mCurrentMsg + mNbrMsgs - 1 = mCurrentMsg + (mNbrMsgs - 1)
    BY <1>7, <2>a, <2>b
  <2> QED
    BY <2>2, <2>3
<1>6. Awaited'
  BY <1>1, <1>2, <1>3, <1>5, <1>7 DEF Awaited, Starting, Current
<1> QED
  BY <1>4, <1>6

LEMMA MasterKeeps ==
  ASSUME BusInv, MasterInterrupt, UNCHANGED <<slave, wire, history>>
  PROVE  Queued' /\ Enabled' /\ Awaited' /\ NoMessageStranded' /\ Sending'
<1>a. Queued /\ Enabled /\ Awaited /\ Sending
  BY DEF BusInv
<1>b. ASSUME twStatus # "none"
      PROVE  /\ Current \in [address : Nat, mode : {"none", "write", "read", "writeRestartRead"},
                             tx : Seq(Byte), rx : Nat, id : Nat]
             /\ Len(Current.tx) <= kMaxMsgLen
  BY <1>b, ReportIsOfEarlier
<1>c. phase' = phase /\ addressed' = addressed
  BY DEF wire
<1>1. CASE SendAddress
  <2>1. /\ twStatus \in {"START", "REP_START"} /\ Command("send") /\ gI2cBusy' = TRUE
        /\ UNCHANGED <<program, queue, asked>>
        /\ status' = [status EXCEPT ![Current.id] = "inProgress"]
    BY <1>1 DEF SendAddress, Interrupts
  <2>2. /\ twStatus # "none" /\ gI2cBusy' \in BOOLEAN /\ UNCHANGED <<slots, mNbrMsgs, mCurrentMsg>>
    BY <2>1 DEF queue
  <2>6. Enabled' /\ Awaited' /\ NoMessageStranded'
    BY <2>1, <2>2, GoesOnKeeps
  <2>3. status' \in Seq(Statuses) /\ Len(status') = Len(asked')
    <3>1. status \in Seq(Statuses) /\ Len(status) = Len(asked) /\ "inProgress" \in Statuses
      BY <1>a DEF Queued, Statuses
    <3> QED
      BY <2>1, <3>1, UpdateSeq
  <2>4. Queued'
    BY <1>a, <2>1, <2>3 DEF Queued, queue
  <2>5. Sending'
    BY <1>a, <1>c, <2>1 DEF Sending, Command
  <2> QED
    BY <2>4, <2>5, <2>6
<1>2. CASE SendByte
  <2>1. /\ twStatus \in {"MT_SLA_ACK", "MT_DATA_ACK"} /\ Command("send")
        /\ mCurrentByte < Len(Current.tx) /\ mCurrentByte' = mCurrentByte + 1
        /\ twdr' = Current.tx[mCurrentByte + 1]
        /\ UNCHANGED <<program, slots, mNbrMsgs, mCurrentMsg, gI2cBusy, messages>>
    BY <1>2 DEF SendByte, Interrupts
  <2>2. Enabled' /\ Awaited' /\ NoMessageStranded'
    BY <1>a, <2>1, GoesOnKeeps DEF messages, Enabled
  <2>3. mCurrentByte' \in 0 .. kMaxMsgLen /\ twdr' \in Byte
    <3>1. /\ Current.tx \in Seq(Byte) /\ Len(Current.tx) \in Nat /\ Len(Current.tx) <= kMaxMsgLen
          /\ mCurrentByte \in Nat
      BY <1>a, <1>b, <2>1, Constants DEF Queued
    <3> QED
      BY <2>1, <3>1, Constants
  <2>4. Queued'
    BY <1>a, <2>1, <2>3 DEF Queued, messages
  <2>5. Sending'
    BY <1>a, <1>c, <2>1, <2>3 DEF Sending, Command
  <2> QED
    BY <2>2, <2>4, <2>5
<1>3. CASE TurnToReading
  <2>1. /\ twStatus \in {"MT_SLA_ACK", "MT_DATA_ACK"} /\ Command("start")
        /\ slots' = [slots EXCEPT ![mCurrentMsg].mode = "read"]
        /\ UNCHANGED <<program, mCurrentByte, mNbrMsgs, mCurrentMsg, gI2cBusy, messages>>
    BY <1>3 DEF TurnToReading, Interrupts
  <2>2. /\ slots' \in [0 .. kMaxNbrMsgs - 1 ->
                         [address : Nat, mode : {"none", "write", "read", "writeRestartRead"},
                          tx : Seq(Byte), rx : Nat, id : Nat]]
        /\ \A s \in 0 .. kMaxNbrMsgs - 1 :
             slots'[s].id = slots[s].id /\ slots'[s].tx = slots[s].tx
    BY <1>a, <2>1 DEF Queued
  <2>3. Enabled' /\ Awaited' /\ NoMessageStranded'
    BY <1>a, <2>1, <2>2, GoesOnKeeps DEF messages, Enabled
  <2>4. Queued'
    BY <1>a, <2>1, <2>2 DEF Queued, messages
  <2>5. Sending'
    BY <1>a, <1>c, <2>1 DEF Sending, Command
  <2> QED
    BY <2>3, <2>4, <2>5
<1>4. CASE WriteCompleted \/ ReadCompleted \/ Failed
  <2>1. /\ twStatus # "none" /\ UNCHANGED program
        /\ Finish("ok", "start") \/ Finish("error", "stopAndStart")
    BY <1>4 DEF WriteCompleted, ReadCompleted, Failed, Interrupts
  <2>2. /\ Queued' /\ Enabled' /\ Awaited' /\ NoMessageStranded'
        /\ twStatus' = "none" /\ twcr'.does # "send"
    BY <2>1, FinishKeeps DEF Statuses
  <2>4. twcr'.does \notin {"ack", "nack"}
    BY <2>1 DEF Finish, Command
  <2>3. Sending'
    BY <1>a, <1>c, <2>2, <2>4 DEF Sending
  <2> QED
    BY <2>2, <2>3
<1>5. CASE ReadFirst \/ ReadByte \/ ArbitrationLost
  <2>1. /\ twStatus # "none"
        /\ Command("ack") \/ Command("nack") \/ Command("start")
        /\ Command("start") \/ phase = "reading"
        /\ UNCHANGED <<program, queue, gI2cBusy, asked, status>>
    BY <1>a, <1>5 DEF ReadFirst, ReadByte, ArbitrationLost, Interrupts, messages, Sending
  <2>2. Enabled' /\ Awaited' /\ NoMessageStranded'
    BY <1>a, <2>1, GoesOnKeeps DEF queue, Enabled
  <2>3. Queued'
    BY <1>a, <2>1 DEF Queued, queue
  <2>4. Sending'
    BY <1>a, <1>c, <2>1 DEF Sending, Command
  <2> QED
    BY <2>2, <2>3, <2>4
<1> QED
  BY <1>1, <1>2, <1>3, <1>4, <1>5 DEF MasterInterrupt

-----------------------------------------------------------------------------
(* The steps of the slave's interrupt routine *)

LEMMA SlaveKeeps ==
  ASSUME BusInv, SlaveSteps
  PROVE  Receiving' /\ Processing'
<1>a. Receiving /\ Processing /\ UNCHANGED wire
  BY DEF BusInv, SlaveSteps
<1>b. slaveStatus' = "none" /\ slaveStatus # "none"
  BY DEF SlaveSteps, SlaveInterrupt, StartTransmit, ContinueTransmit, EndTransmit, StartReceive,
         ReceiveByte, ProcessMessage, ReceiveFailed, SlaveInterrupts
<1>c. /\ senders' = IF slaveStatus = "SR_STOP" THEN Append(senders, sender) ELSE senders
      /\ sender' = sender
  BY DEF SlaveSteps
<1>d. addressed /\ phase = "writing" =>
        slaveStatus \in {"none", "SR_SLA_ACK", "SR_GCALL_ACK", "SR_DATA_ACK"}
  BY <1>a DEF Receiving
<1>e. phase' = phase /\ addressed' = addressed
  BY <1>a DEF wire
<1>1. CASE StartTransmit \/ ContinueTransmit
  <2>1. /\ \E index \in {0, gI2cBufferIndex} : Load(index)
        /\ slaveStatus \in {"ST_SLA_ACK", "ST_DATA_ACK"}
    BY <1>1 DEF StartTransmit, ContinueTransmit, SlaveInterrupts
  <2>2. PICK index \in {0, gI2cBufferIndex} : Load(index)
    BY <2>1
  <2>3. index \in 0 .. kI2cBufferSize /\ gI2cMsgSize \in 0 .. kI2cBufferSize
    BY <1>a, Constants DEF Receiving
  <2>4. gI2cBufferIndex' \in 0 .. kI2cBufferSize /\ slaveTwdr' \in Byte
    <3>1. kI2cBufferSize \in Nat /\ slaveBuffer \in [0 .. kI2cBufferSize - 1 -> Byte]
      BY <1>a, Constants DEF Receiving
    <3>2. CASE index < gI2cMsgSize
      <4>1. index \in 0 .. kI2cBufferSize - 1
        BY <2>3, <3>1, <3>2
      <4> QED
        BY <2>2, <2>3, <3>1, <3>2, <4>1 DEF Load
    <3>3. CASE ~(index < gI2cMsgSize)
      BY <2>2, <2>3, <3>3 DEF Load, Byte
    <3> QED
      BY <3>2, <3>3
  <2>5. ~(addressed /\ phase = "writing")
    BY <1>d, <2>1
  <2>6. Receiving'
    BY <1>a, <1>b, <1>e, <2>2, <2>4, <2>5 DEF Receiving, Load, Continue
  <2>7. Processing'
    BY <1>a, <1>c, <2>1, <2>2 DEF Processing, Load
  <2> QED
    BY <2>6, <2>7
<1>2. CASE EndTransmit
  <2>1. ~(addressed /\ phase = "writing") /\ slaveStatus # "SR_STOP"
    BY <1>d, <1>2 DEF EndTransmit, SlaveInterrupts
  <2> QED
    BY <1>a, <1>b, <1>c, <1>e, <1>2, <2>1 DEF EndTransmit, Receiving, Processing, Continue
<1>3. CASE StartReceive
  BY <1>a, <1>b, <1>c, <1>e, <1>3, Constants
     DEF StartReceive, SlaveInterrupts, Receiving, Processing, Continue
<1>4. CASE ReceiveByte
  <2>1. slaveStatus \in {"SR_DATA_ACK", "SR_GCALL_DATA_ACK"}
    BY <1>4 DEF ReceiveByte, SlaveInterrupts
  <2>2. /\ gI2cBufferIndex \in 0 .. kI2cBufferSize - 2 /\ kI2cBufferSize \in Nat \ {0, 1}
        /\ gI2cBufferIndex' = gI2cBufferIndex + 1
    BY <1>a, <1>4, <2>1, Constants DEF Receiving, ReceiveByte
  <2>3. slaveBuffer' \in [0 .. kI2cBufferSize - 1 -> Byte]
    BY <1>a, <1>4, <2>2 DEF Receiving, ReceiveByte
  <2>4. gI2cBufferIndex' \in 0 .. kI2cBufferSize /\ twea' = (gI2cBufferIndex' < kI2cBufferSize - 1)
    BY <1>4, <2>2 DEF ReceiveByte, Continue
  <2>7. /\ torn' = TRUE
        /\ UNCHANGED <<gI2cMsgSize, gI2cStatus, slaveBusy, slaveTwdr>>
    BY <1>4 DEF ReceiveByte
  <2>8. twea' \in BOOLEAN /\ torn' \in BOOLEAN
    BY <2>4, <2>7
  <2>5. Receiving'
    BY <1>a, <1>b, <1>e, <2>3, <2>4, <2>7, <2>8 DEF Receiving
  <2>6. Processing'
    BY <1>a, <1>c, <1>4, <2>1 DEF Processing, ReceiveByte
  <2> QED
    BY <2>5, <2>6
<1>5. CASE ProcessMessage
  <2>1. slaveStatus = "SR_STOP" /\ ~(addressed /\ phase = "writing")
    BY <1>d, <1>5 DEF ProcessMessage, SlaveInterrupts
  <2>2. PICK reply \in Answers :
          /\ slaveBuffer' = [i \in DOMAIN slaveBuffer |->
                               IF i < Len(reply) THEN reply[i + 1] ELSE slaveBuffer[i]]
          /\ gI2cMsgSize' = Len(reply)
    BY <1>5 DEF ProcessMessage
  <2>3. reply \in Seq(Byte) /\ Len(reply) \in 0 .. kI2cBufferSize
    BY Constants
  <2>4. slaveBuffer \in [0 .. kI2cBufferSize - 1 -> Byte] /\ gI2cBufferIndex \in 0 .. kI2cBufferSize
    BY <1>a DEF Receiving
  <2>5. slaveBuffer' \in [0 .. kI2cBufferSize - 1 -> Byte]
    BY <2>2, <2>3, <2>4
  <2>9. /\ gI2cMsgSize' \in 0 .. kI2cBufferSize /\ gI2cBufferIndex' = gI2cBufferIndex
        /\ gI2cStatus' \in {"ok", "inProgress", "txPartial", "error"} /\ slaveBusy' \in BOOLEAN
        /\ twea' \in BOOLEAN /\ torn' \in BOOLEAN /\ slaveTwdr' = slaveTwdr
    BY <1>a, <1>5, <2>2, <2>3 DEF Receiving, ProcessMessage, Continue
  <2>6. Receiving'
    BY <1>a, <1>b, <1>e, <2>1, <2>5, <2>9 DEF Receiving
  <2>7. [i \in 1 .. gI2cBufferIndex |-> slaveBuffer[i - 1]] \in Seq(Byte)
    BY <2>4, Constants, IsASeq
  <2>8. Processing'
    BY <1>a, <1>c, <1>5, <2>1, <2>7 DEF Processing, ProcessMessage
  <2> QED
    BY <2>6, <2>8
<1>6. CASE ReceiveFailed
  <2>1. ~(addressed /\ phase = "writing") /\ slaveStatus # "SR_STOP"
    BY <1>d, <1>6 DEF ReceiveFailed, SlaveInterrupts
  <2> QED
    BY <1>a, <1>b, <1>c, <1>e, <1>6, <2>1 DEF ReceiveFailed, Receiving, Processing, Continue
<1> QED
  BY <1>1, <1>2, <1>3, <1>4, <1>5, <1>6 DEF SlaveSteps, SlaveInterrupt

-----------------------------------------------------------------------------
(* The steps of the wire *)

\* The hardware of the master only reports: what the routine made of the ring stays.
LEMMA ReportKeeps ==
  ASSUME BusInv, Prompt, NEW code, Report(code), UNCHANGED mainPc,
         twcr.does \notin {"nothing", "stop"},
         (twcr.does \in {"start", "stopAndStart"} => ~TooEarly)
  PROVE  Queued' /\ Enabled' /\ Awaited' /\ NoMessageStranded'
<1>1. Queued /\ Enabled /\ Awaited /\ NoMessageStranded
  BY DEF BusInv
<1>2. Queued' /\ NoMessageStranded'
  BY <1>1 DEF Report, queue, messages, program, Queued, NoMessageStranded
<1>3. Enabled'
  BY <1>1 DEF Report, queue, messages, program, Enabled
<1>4. Starting => Current.id # Len(asked)
  BY <1>1 DEF Awaited, Transferring, TooEarly, Starting, Enabled
<1>5. Awaited'
  BY <1>1, <1>4 DEF Report, queue, messages, program, Awaited, Starting, Current
<1> QED
  BY <1>2, <1>3, <1>5

LEMMA EndSeenKeeps ==
  ASSUME BusInv, SlaveSeesEnd, addressed' = FALSE
  PROVE  Receiving'
  BY DEF BusInv, Receiving, SlaveSeesEnd, SlaveGets, slave

LEMMA SameProcessing ==
  ASSUME BusInv, UNCHANGED <<processed, senders>>, sender' \in Nat
  PROVE  Processing'
  BY DEF BusInv, Processing

LEMMA WireKeeps ==
  ASSUME BusInv, Prompt,
         \/ StartCondition \/ StopCondition \/ Address \/ Write \/ Read
         \/ OtherMasterWins \/ Noise \/ ProgramRestarts
  PROVE  BusInv'
<1>a. Queued /\ Enabled /\ Awaited /\ NoMessageStranded /\ Sending /\ Receiving /\ Processing
  BY DEF BusInv
<1>b. SlaveSeesEnd => UNCHANGED processed
  BY DEF SlaveSeesEnd, SlaveGets, slave
<1>c. sender \in Nat
  BY <1>a DEF Processing
<1>1. CASE StartCondition
  <2>1. /\ ~TooEarly /\ twcr.does \in {"start", "stopAndStart"}
        /\ SlaveSeesEnd /\ phase' = "started" /\ addressed' = FALSE
        /\ \E code \in {"START", "REP_START"} : Report(code)
        /\ UNCHANGED history /\ UNCHANGED twdr
    BY <1>1 DEF StartCondition, Does
  <2>2. Queued' /\ Enabled' /\ Awaited' /\ NoMessageStranded'
    BY <2>1, ReportKeeps DEF Report, program
  <2>3. Sending'
    BY <1>a, <2>1 DEF Sending, Report
  <2>4. Receiving' /\ Processing'
    BY <1>b, <1>c, <2>1, EndSeenKeeps, SameProcessing DEF history
  <2> QED
    BY <2>2, <2>3, <2>4 DEF BusInv
<1>2. CASE StopCondition
  <2>1. /\ twcr.does = "stop" /\ twStatus = "none" /\ twcr' = Idle
        /\ SlaveSeesEnd /\ phase' = "free" /\ addressed' = FALSE
        /\ UNCHANGED <<queue, gI2cBusy, twStatus, twdr, program, messages, interrupted, history>>
    BY <1>2 DEF StopCondition, Does
  <2>2. Queued'
    BY <1>a, <2>1 DEF Queued, queue, messages
  <2>4. Enabled' /\ Awaited' /\ NoMessageStranded'
    BY <1>a, <2>1 DEF Enabled, Awaited, NoMessageStranded, Idle, Tasks, queue, messages,
       program, Starting, Transferring, Current
  <2>5. Sending'
    BY <1>a, <2>1 DEF Sending, Idle
  <2>6. Receiving' /\ Processing'
    BY <1>b, <1>c, <2>1, EndSeenKeeps, SameProcessing DEF history
  <2> QED
    BY <2>2, <2>4, <2>5, <2>6 DEF BusInv
<1>3. CASE Address
  <2>1. /\ twcr.does = "send" /\ phase = "started" /\ slaveStatus = "none" /\ sender' = Current.id
        /\ \E code \in {"MR_SLA_ACK", "MR_SLA_NACK", "MT_SLA_ACK", "MT_SLA_NACK"} :
             /\ Report(code)
             /\ phase' = IF code \in {"MR_SLA_ACK", "MR_SLA_NACK"} THEN "reading" ELSE "writing"
        /\ UNCHANGED <<twdr, senders>>
    BY <1>3 DEF Address, Does
  <2>2. /\ addressed' \in BOOLEAN
        /\ \/ UNCHANGED slave /\ ~addressed'
           \/ /\ \E code \in {"ST_SLA_ACK", "SR_GCALL_ACK", "SR_SLA_ACK"} :
                   /\ SlaveGets(code, slaveTwdr)
                   /\ code = "ST_SLA_ACK" => phase' = "reading"
    BY <1>a, <1>3 DEF Address, Receiving
  <2>3. Queued' /\ Enabled' /\ Awaited' /\ NoMessageStranded'
    BY <2>1, ReportKeeps DEF Report, program
  <2>4. Sending'
    BY <1>a, <2>1, <2>2 DEF Sending, Report
  <2>5. Receiving'
    BY <1>a, <2>1, <2>2 DEF Receiving, SlaveGets, slave
  <2>6. Processing'
    <3>1. Current.id \in Nat
      BY <1>a DEF Queued, Current
    <3>2. UNCHANGED processed
      BY <2>2 DEF SlaveGets, slave
    <3> QED
      BY <2>1, <3>1, <3>2, SameProcessing
  <2> QED
    BY <2>3, <2>4, <2>5, <2>6 DEF BusInv
<1>4. CASE Write
  <2>1. /\ twcr.does = "send" /\ twStatus = "none" /\ phase = "writing" /\ addressed
        /\ slaveStatus = "none" /\ addressed' = twea /\ phase' = phase /\ twdr' = twdr
        /\ \E code \in {"MT_DATA_ACK", "MT_DATA_NACK"} : Report(code)
        /\ SlaveGets(IF twea THEN "SR_DATA_ACK" ELSE "SR_DATA_NACK", twdr)
        /\ UNCHANGED history
    BY <1>4 DEF Write, Does
  <2>2. Queued' /\ Enabled' /\ Awaited' /\ NoMessageStranded'
    BY <2>1, ReportKeeps DEF Report, program
  <2>3. Sending'
    BY <1>a, <2>1 DEF Sending, Report, Receiving
  <2>4. Receiving'
    BY <1>a, <2>1 DEF Receiving, SlaveGets, Sending
  <2>5. Processing'
    BY <1>c, <2>1, SameProcessing DEF history, SlaveGets
  <2> QED
    BY <2>2, <2>3, <2>4, <2>5 DEF BusInv
<1>5. CASE Read
  <2>1. /\ twcr.does \in {"ack", "nack"} /\ twStatus = "none" /\ slaveStatus = "none"
        /\ addressed' = (twcr.does = "ack") /\ phase' = phase /\ twdr' = slaveTwdr
        /\ \E code \in {"MR_DATA_ACK", "MR_DATA_NACK"} : Report(code)
        /\ \E code \in {"ST_DATA_ACK", "ST_DATA_NACK"} : SlaveGets(code, slaveTwdr)
        /\ UNCHANGED history
    BY <1>5 DEF Read, Does
  <2>2. phase = "reading"
    BY <1>a, <2>1 DEF Sending
  <2>3. Queued' /\ Enabled' /\ Awaited' /\ NoMessageStranded'
    BY <2>1, ReportKeeps DEF Report, program
  <2>4. Sending'
    BY <1>a, <2>1, <2>2 DEF Sending, Report
  <2>5. Receiving'
    BY <1>a, <2>1, <2>2 DEF Receiving, SlaveGets
  <2>6. Processing'
    BY <1>c, <2>1, SameProcessing DEF history, SlaveGets
  <2> QED
    BY <2>3, <2>4, <2>5, <2>6 DEF BusInv
<1>6. CASE OtherMasterWins
  <2>1. /\ twcr.does = "send" /\ SlaveSeesEnd /\ phase' = "free" /\ addressed' = FALSE
        /\ sender' = 0 /\ Report("ARB_LOST") /\ UNCHANGED senders
    BY <1>6 DEF OtherMasterWins, Does, Disturb
  <2>2. Queued' /\ Enabled' /\ Awaited' /\ NoMessageStranded'
    BY <2>1, ReportKeeps DEF Report, program
  <2>3. Sending'
    BY <1>a, <2>1 DEF Sending, Report
  <2>4. Receiving' /\ Processing'
    BY <1>b, <2>1, EndSeenKeeps, SameProcessing
  <2> QED
    BY <2>2, <2>3, <2>4 DEF BusInv
<1>7. CASE Noise
  <2>1. /\ twcr.does \in {"send", "ack", "nack"} /\ phase' = "free" /\ addressed' = FALSE
        /\ sender' = 0 /\ Report("BUS_ERROR") /\ UNCHANGED senders
        /\ SlaveGets("BUS_ERROR", slaveTwdr) \/ UNCHANGED slave
    BY <1>7 DEF Noise, Does, Disturb
  <2>2. Queued' /\ Enabled' /\ Awaited' /\ NoMessageStranded'
    BY <2>1, ReportKeeps DEF Report, program
  <2>3. Sending'
    BY <1>a, <2>1 DEF Sending, Report
  <2>4. Receiving' /\ Processing'
    BY <1>a, <2>1, SameProcessing DEF Receiving, SlaveGets, slave
  <2> QED
    BY <2>2, <2>3, <2>4 DEF BusInv
<1>8. CASE ProgramRestarts
  <2>1. /\ mainPc = "ready" /\ gI2cBusy' = FALSE /\ twcr' = Idle /\ twStatus' = "none"
        /\ interrupted' = TRUE
        /\ UNCHANGED <<queue, program, messages, slave, wire, sender, senders>>
    BY <1>8 DEF ProgramRestarts, Restart, Disturb
  <2>2. Queued'
    BY <1>a, <2>1 DEF Queued, queue, messages
  <2>3. Enabled' /\ Awaited' /\ NoMessageStranded'
    BY <1>a, <2>1 DEF Enabled, Awaited, NoMessageStranded, Idle, Tasks, program, Starting
  <2>4. Sending' /\ Receiving'
    BY <1>a, <2>1 DEF Sending, Receiving, wire, slave, Idle
  <2>5. Processing'
    BY <1>c, <2>1, SameProcessing DEF slave
  <2> QED
    BY <2>2, <2>3, <2>4, <2>5 DEF BusInv
<1> QED
  BY <1>1, <1>2, <1>3, <1>4, <1>5, <1>6, <1>7, <1>8

-----------------------------------------------------------------------------
LEMMA BusStep ==
  ASSUME BusInv, Prompt, [Next]_vars
  PROVE  BusInv'
<1>1. CASE UNCHANGED vars
  BY <1>1 DEF vars, master, queue, messages, program, wire, slave, history, BusInv,
     Queued, Enabled, Awaited, NoMessageStranded, Sending, Receiving, Processing,
     Starting, Transferring, Current
<1>2. CASE MasterSteps
  <2>1. MasterInterrupt /\ UNCHANGED <<slave, wire, history>>
    BY <1>2 DEF MasterSteps
  <2>2. Queued' /\ Enabled' /\ Awaited' /\ NoMessageStranded' /\ Sending'
    BY <2>1, MasterKeeps
  <2>3. Receiving' /\ Processing'
    BY <2>1 DEF BusInv, Receiving, Processing, slave, wire, history
  <2> QED
    BY <2>2, <2>3 DEF BusInv
<1>3. CASE ProgramSteps
  <2>1. Program /\ UNCHANGED <<slave, wire, history>>
    BY <1>3 DEF ProgramSteps
  <2>2. Queued' /\ Enabled' /\ Awaited' /\ NoMessageStranded'
    BY <2>1, ProgramKeeps
  <2>3. Receiving' /\ Processing'
    BY <2>1 DEF BusInv, Receiving, Processing, slave, wire, history
  <2>4. Sending'
    <3>1. CASE WriteAsync \/ ReadAsync \/ WriteSync \/ ReadSync
      <4>1. UNCHANGED <<twcr, twStatus, twdr>>
        BY <3>1 DEF WriteAsync, ReadAsync, WriteSync, ReadSync, Ask
      <4> QED
        BY <2>1, <4>1 DEF BusInv, Sending, wire
    <3>2. CASE StartI2cBusy \/ StartI2cIdle \/ WaitForCompletion
      BY <2>1, <3>2
         DEF BusInv, Sending, wire, StartI2cBusy, StartI2cIdle, WaitForCompletion
    <3> QED
      BY <2>1, <3>1, <3>2 DEF Program
  <2> QED
    BY <2>2, <2>3, <2>4 DEF BusInv
<1>4. CASE SlaveSteps
  <2>1. UNCHANGED <<master, wire>>
    BY <1>4 DEF SlaveSteps
  <2>2. Queued' /\ Enabled' /\ Awaited' /\ NoMessageStranded' /\ Sending'
    BY <2>1 DEF BusInv, master, queue, messages, program, wire,
       Queued, Enabled, Awaited, NoMessageStranded, Sending, Starting, Transferring, Current
  <2>3. Receiving' /\ Processing'
    BY <1>4, SlaveKeeps
  <2> QED
    BY <2>2, <2>3 DEF BusInv
<1> QED
  BY <1>1, <1>2, <1>3, <1>4, WireKeeps DEF Next

LEMMA AllSteps == Prompt => (Spec => []BusInv)
<1> SUFFICES ASSUME Prompt
             PROVE  Spec => []BusInv
  OBVIOUS
<1>1. Init => BusInv
  BY BusInit
<1>2. BusInv /\ [Next]_vars => BusInv'
  BY BusStep
<1> QED
  BY <1>1, <1>2, PTL DEF Spec

\* For rings, buffers and messages of any size, any requests and any disturbances, every
\* variable of the master, the slave and the wire keeps its type, provided a message is
\* on the wire longer than startI2c takes: the counter of the ring never wraps around.
THEOREM TypeCorrect == Prompt => (Spec => []I2cTypeOK)
<1> SUFFICES ASSUME Prompt
             PROVE  Spec => []I2cTypeOK
  OBVIOUS
<1>1. BusInv => I2cTypeOK
  <2> SUFFICES ASSUME BusInv PROVE I2cTypeOK
    OBVIOUS
  <2>1. Queued /\ Enabled /\ Sending /\ Receiving /\ Processing
    BY DEF BusInv
  <2>2. \A s \in 0 .. kMaxNbrMsgs - 1 : slots[s].id \in 0 .. Len(asked)
    BY <2>1 DEF Queued
  <2>3. \A id \in DOMAIN asked : status[id] \in {"notStarted", "inProgress", "ok", "error"}
    BY <2>1 DEF Queued, Statuses
  <2>4. MasterTypeOK
    BY <2>1, <2>2, <2>3 DEF MasterTypeOK, Queued, Enabled, Tasks, Places
  <2>5. SlaveTypeOK
    BY <2>1 DEF SlaveTypeOK, Receiving, Byte
  <2> QED
    BY <2>1, <2>4, <2>5 DEF I2cTypeOK, Sending, Processing
<1> QED
  BY <1>1, AllSteps, PTL

\* Nothing that was accepted is lost, whatever is asked for and whatever disturbs the bus:
\* startI2c and the interrupt routine, which look at each other's state without a lock,
\* never both leave a message in the ring to the other, and the slave has room for every
\* byte it acknowledges.
THEOREM AcceptedIsKept == Prompt => (Spec => []NothingAcceptedLost)
<1> SUFFICES ASSUME Prompt
             PROVE  Spec => []NothingAcceptedLost
  OBVIOUS
<1>1. BusInv => NothingAcceptedLost
  BY Constants DEF BusInv, Receiving, NothingAcceptedLost, RoomForAcknowledged
<1> QED
  BY <1>1, AllSteps, PTL

-----------------------------------------------------------------------------
(* What the messages are while they are carried out: the inductive invariant of *)
(* CompletedAsAsked.  A message is waiting in the ring, then its address is on   *)
(* the wire, it is written, turned round or read, and then it is done.           *)

\* The message whose turn it is, the first of those in the ring.
Turn == Len(asked) - mNbrMsgs + 1

\* Its transfer was not disturbed so far.
Clean == mNbrMsgs > 0 /\ Turn \notin disturbed

\* Its bytes were sent, and it reads the answer.
Turned == Current.mode = "read" /\ Mode(asked[Turn]) = "writeRestartRead"

\* The i-th of the messages in the ring, counted from 0.
Slot(i) == slots[(mCurrentMsg + i) % kMaxNbrMsgs]

\* The ring holds the messages not yet done in the order they were asked for.
InTurn ==
  \A i \in 0 .. mNbrMsgs - 1 :
    /\ Slot(i).id = Turn + i
    /\ Slot(i).address = asked[Turn + i].address
    /\ Slot(i).tx = asked[Turn + i].tx /\ Slot(i).rx = asked[Turn + i].rx
    /\ \/ Slot(i).mode = Mode(asked[Turn + i])
       \/ i = 0 /\ Turned

\* What has happened, has happened to messages whose turn it was.
Counted ==
  /\ mNbrMsgs <= Len(asked)
  /\ received \in Seq(Seq(Byte)) /\ Len(received) = Len(asked)
  /\ sender \in 0 .. Len(asked) /\ sender <= Turn
  /\ \A k \in DOMAIN senders : senders[k] <= Len(asked) /\ senders[k] <= Turn
  /\ \A promise \in promised : promise[1] \in 1 .. Len(asked) /\ promise[1] <= Turn
  /\ \A id \in DOMAIN asked : id >= Turn => status[id] \in {"notStarted", "inProgress"}
  /\ \A id \in DOMAIN asked : id > Turn => received[id] = <<>>
  /\ mNbrMsgs = 0 => mCurrentByte = 0
  /\ twStatus \in {"MR_DATA_ACK", "MR_DATA_NACK"} => twdr \in Byte

NoneOf(id) == \A k \in DOMAIN senders : senders[k] # id
NoPromise(id) == \A promise \in promised : promise[1] # id

SentOnce(id) ==
  \E k \in DOMAIN senders :
    processed[k] = asked[id].tx /\ \A l \in DOMAIN senders : senders[l] = id <=> l = k

\* The slave has processed it, or is about to.
Pending == (addressed /\ phase = "writing") \/ slaveStatus = "SR_STOP"
Settled(id) == SentOnce(id) \/ (NoneOf(id) /\ sender = id /\ Pending)

\* How many bytes of the message on the wire the slave was given.
OnWire ==
  IF sender # Turn THEN Len(asked[sender].tx)
  ELSE IF twStatus = "none" /\ twcr.does = "send" THEN mCurrentByte - 1 ELSE mCurrentByte

Arrived(bytes, n) == \A i \in 0 .. n - 1 : slaveBuffer[i] = bytes[i + 1]

\* What the slave receives of an undisturbed message is what was asked for.
Delivering ==
  sender \in DOMAIN asked \ disturbed =>
    LET tx == asked[sender].tx IN
    /\ slaveStatus = "SR_STOP" =>
         NoneOf(sender) /\ gI2cBufferIndex = Len(tx) /\ Arrived(tx, Len(tx))
    /\ addressed /\ phase = "writing" =>
         /\ NoneOf(sender)
         /\ slaveStatus \in {"SR_SLA_ACK", "SR_GCALL_ACK"} => OnWire = 0
         /\ slaveStatus = "none" => gI2cBufferIndex = OnWire /\ Arrived(tx, OnWire)
         /\ slaveStatus = "SR_DATA_ACK" =>
              /\ gI2cBufferIndex + 1 = OnWire /\ Arrived(tx, gI2cBufferIndex)
              /\ slaveTwdr = tx[OnWire]

\* Between two messages ...
Between ==
  mNbrMsgs > 0 /\ sender # Turn =>
    /\ twStatus \in {"none", "START", "REP_START", "ARB_LOST", "BUS_ERROR"}
    /\ twStatus = "none" => /\ twcr.does \notin {"ack", "nack"}
                            /\ twcr.does = "send" => phase = "started"

\* ... nothing was done of the next.
Waiting ==
  Clean /\ sender # Turn =>
    /\ NoneOf(Turn) /\ NoPromise(Turn) /\ received[Turn] = <<>>
    /\ mCurrentByte = 0 /\ Current.mode = Mode(asked[Turn])

Addressing ==
  twcr.does = "send" /\ twStatus = "none" /\ phase = "started" =>
    twdr = [address |-> Current.address, read |-> Current.mode \notin {"write", "writeRestartRead"}]

\* A message that was begun is written, turned round or read.
Writing ==
  Clean /\ sender = Turn /\ phase = "writing" =>
    /\ twStatus \in {"none", "MT_SLA_ACK", "MT_DATA_ACK", "MT_SLA_NACK", "MT_DATA_NACK"}
    /\ twStatus = "none" => addressed /\ (twcr.does = "send" \/ (twcr.does = "start" /\ Turned))
    /\ twStatus = "none" /\ twcr.does = "send" =>
         mCurrentByte > 0 /\ twdr = asked[Turn].tx[mCurrentByte]
    /\ twStatus \in {"MT_SLA_ACK", "MT_DATA_ACK"} => addressed
    /\ twStatus \in {"MT_SLA_NACK", "MT_DATA_NACK"} => ~addressed
    /\ twStatus # "none" \/ twcr.does = "send" => Current.mode \in {"write", "writeRestartRead"}
    /\ mCurrentByte <= Len(asked[Turn].tx)

Turning ==
  Clean /\ sender = Turn =>
    /\ phase # "free"
    /\ phase = "started" => /\ Turned
                            /\ \/ twStatus \in {"START", "REP_START"}
                               \/ twStatus = "none" /\ twcr.does = "send"
    /\ phase # "reading" => NoPromise(Turn) /\ received[Turn] = <<>>

SettledWhenTurned ==
  Clean /\ Turned =>
    sender = Turn /\ mCurrentByte = Len(asked[Turn].tx) /\ Settled(Turn)

Filled(bytes, j) == IF j <= Len(bytes) THEN bytes[j] ELSE 255
Less(a, b) == IF a < b THEN a ELSE b

\* The bytes the slave has put on the wire for the message that is read.
Given == IF twStatus \in {"MR_DATA_ACK", "MR_DATA_NACK"} THEN Len(received[Turn]) + 1
         ELSE Len(received[Turn])

Answerable ==
  /\ answer \in Seq(Byte) /\ Len(answer) <= kI2cBufferSize
  /\ ~torn => gI2cMsgSize = Len(answer) /\ Arrived(answer, Len(answer))

Reading ==
  Clean /\ sender = Turn /\ phase = "reading" =>
    /\ Current.mode = "read"
    /\ twStatus \in {"none", "MR_SLA_ACK", "MR_SLA_NACK", "MR_DATA_ACK", "MR_DATA_NACK"}
    /\ slaveStatus \in {"none", "ST_SLA_ACK", "ST_DATA_ACK", "ST_DATA_NACK"}
    /\ twStatus = "MR_SLA_ACK" => received[Turn] = <<>>
    /\ twStatus = "none" =>
         \/ twcr.does = "ack" /\ Len(received[Turn]) + 1 < asked[Turn].rx
         \/ twcr.does = "nack" /\ Len(received[Turn]) + 1 = asked[Turn].rx
    /\ twStatus = "MR_DATA_ACK" => Len(received[Turn]) + 1 < asked[Turn].rx
    /\ twStatus = "MR_DATA_NACK" => Len(received[Turn]) + 1 = asked[Turn].rx

Answering ==
  Clean /\ sender = Turn /\ phase = "reading" =>
    \A promise \in promised : promise[1] = Turn =>
      /\ promise[2] = answer /\ ~torn
      /\ \A j \in 1 .. Len(received[Turn]) : received[Turn][j] = Filled(answer, j)
      /\ twStatus \in {"MR_DATA_ACK", "MR_DATA_NACK"} => twdr = Filled(answer, Given)
      /\ twStatus \notin {"MR_DATA_NACK", "MR_SLA_NACK"} =>
           /\ slaveStatus # "ST_DATA_NACK"
           /\ slaveStatus = "ST_SLA_ACK" => Given = 0
           /\ slaveStatus = "ST_DATA_ACK" => gI2cBufferIndex = Less(Given, Len(answer))
           /\ slaveStatus = "none" => /\ gI2cBufferIndex = Less(Given + 1, Len(answer))
                                      /\ slaveTwdr = Filled(answer, Given + 1)

Done ==
  \A id \in DOMAIN asked \ disturbed : id < Turn /\ status[id] = "ok" =>
    /\ asked[id].tx # <<>> => Settled(id)
    /\ \A promise \in promised :
         promise[1] = id => received[id] = Padded(promise[2], asked[id].rx)

Delivery ==
  /\ InTurn /\ Counted /\ Delivering /\ Between /\ Waiting /\ Addressing
  /\ Writing /\ Turning /\ SettledWhenTurned /\ Answerable /\ Reading /\ Answering /\ Done

-----------------------------------------------------------------------------
(* What follows at once *)

\* A request, and the mode it is pushed with.
LEMMA ModeFacts ==
  ASSUME BusInv, NEW id \in DOMAIN asked
  PROVE  /\ asked[id].tx \in Seq(Byte) /\ asked[id].rx \in Nat /\ asked[id].address \in Nat
         /\ Mode(asked[id]) \in {"write", "read", "writeRestartRead"}
         /\ Mode(asked[id]) = "read" => asked[id].tx = <<>>
         /\ Mode(asked[id]) # "write" => asked[id].rx > 0
<1>1. asked[id] \in Requests
  BY DEF BusInv, Queued
<1>2. asked[id] \in [address : Nat, tx : Seq(Byte), rx : Nat]
  BY <1>1, Constants
<1>3. asked[id].tx # <<>> \/ asked[id].rx > 0
  BY <1>1, I2cMasterAssumption
<1>4. CASE asked[id].rx = 0
  <2>1. Mode(asked[id]) = "write"
    BY <1>3, <1>4 DEF Mode
  <2> QED
    BY <1>2, <2>1
<1>5. CASE asked[id].rx # 0 /\ asked[id].tx = <<>>
  <2>1. Mode(asked[id]) = "read"
    BY <1>5 DEF Mode
  <2> QED
    BY <1>2, <1>5, <2>1
<1>6. CASE asked[id].rx # 0 /\ asked[id].tx # <<>>
  <2>1. Mode(asked[id]) = "writeRestartRead"
    BY <1>6 DEF Mode
  <2> QED
    BY <1>2, <1>6, <2>1
<1> QED
  BY <1>4, <1>5, <1>6

LEMMA RingFacts ==
  ASSUME BusInv, Delivery
  PROVE  /\ Len(asked) \in Nat /\ DOMAIN asked = 1 .. Len(asked)
         /\ mNbrMsgs \in Nat /\ Turn \in 1 .. Len(asked) + 1
         /\ Turn + mNbrMsgs = Len(asked) + 1
         /\ Turn \in DOMAIN asked <=> mNbrMsgs > 0
         /\ mNbrMsgs > 0 =>
              /\ Current.id = Turn /\ Current.address = asked[Turn].address
              /\ Current.tx = asked[Turn].tx /\ Current.rx = asked[Turn].rx
              /\ Current.mode = Mode(asked[Turn]) \/ Turned
<1>1. /\ Len(asked) \in Nat /\ DOMAIN asked = 1 .. Len(asked)
      /\ mNbrMsgs \in Nat /\ mNbrMsgs <= Len(asked)
      /\ mCurrentMsg \in 0 .. kMaxNbrMsgs - 1 /\ kMaxNbrMsgs \in 1 .. 255
  BY Constants DEF BusInv, Queued, Delivery, Counted
<1>2. /\ Turn \in 1 .. Len(asked) + 1 /\ Turn + mNbrMsgs = Len(asked) + 1
      /\ Turn \in DOMAIN asked <=> mNbrMsgs > 0
  BY <1>1 DEF Turn
<1>3. ASSUME mNbrMsgs > 0
      PROVE  /\ Current.id = Turn /\ Current.address = asked[Turn].address
             /\ Current.tx = asked[Turn].tx /\ Current.rx = asked[Turn].rx
             /\ Current.mode = Mode(asked[Turn]) \/ Turned
  <2>1. 0 \in 0 .. mNbrMsgs - 1 /\ Turn + 0 = Turn
    BY <1>1, <1>2, <1>3
  <2>2. (mCurrentMsg + 0) % kMaxNbrMsgs = mCurrentMsg
    BY <1>1
  <2>3. Slot(0) = Current
    BY <2>2 DEF Slot, Current
  <2>4. /\ Slot(0).id = Turn + 0 /\ Slot(0).address = asked[Turn + 0].address
        /\ Slot(0).tx = asked[Turn + 0].tx /\ Slot(0).rx = asked[Turn + 0].rx
        /\ Slot(0).mode = Mode(asked[Turn + 0]) \/ Turned
    BY <2>1 DEF Delivery, InTurn
  <2> QED
    BY <2>1, <2>3, <2>4
<1> QED
  BY <1>1, <1>2, <1>3

\* A byte is sent or asked for only where a message was begun.
LEMMA Transferred ==
  ASSUME BusInv, Delivery, twcr.twie, twStatus \notin {"none", "ARB_LOST", "BUS_ERROR"}
  PROVE  /\ mNbrMsgs > 0
         /\ twStatus \in {"START", "REP_START"} \/ sender = Turn
<1>1. mNbrMsgs > 0
  BY DEF BusInv, Enabled
<1> QED
  BY <1>1 DEF Delivery, Between

\* What the current message has to do with what is reported.
LEMMA ReportedOf ==
  ASSUME BusInv, Delivery, Clean, sender = Turn
  PROVE  /\ twStatus \notin {"ARB_LOST", "BUS_ERROR"}
         /\ twStatus \in {"MT_SLA_ACK", "MT_DATA_ACK", "MT_SLA_NACK", "MT_DATA_NACK"} =>
              phase = "writing"
         /\ twStatus \in {"MR_SLA_ACK", "MR_SLA_NACK", "MR_DATA_ACK", "MR_DATA_NACK"} =>
              phase = "reading"
         /\ twStatus = "none" => twcr.does \notin {"nothing", "stop", "stopAndStart"}
         /\ twStatus = "none" /\ twcr.does = "start" => phase = "writing" /\ Turned
<1>1. phase \in {"started", "writing", "reading"}
  BY DEF BusInv, Sending, Delivery, Turning
<1>2. CASE phase = "started"
  BY <1>2 DEF Delivery, Turning
<1>3. CASE phase = "writing"
  BY <1>3 DEF Delivery, Writing
<1>4. CASE phase = "reading"
  BY <1>4 DEF Delivery, Reading
<1> QED
  BY <1>1, <1>2, <1>3, <1>4

LEMMA DeliveryInit == Init => Delivery
<1> SUFFICES ASSUME Init PROVE Delivery
  OBVIOUS
<1>1. /\ asked = <<>> /\ received = <<>> /\ senders = <<>> /\ promised = {} /\ sender = 0
      /\ mNbrMsgs = 0 /\ mCurrentByte = 0 /\ twStatus = "none" /\ twcr = Idle
      /\ slaveStatus = "none" /\ addressed = FALSE /\ torn = FALSE /\ answer = <<>>
      /\ gI2cMsgSize = 0 /\ answer = <<>>
  BY DEF Init, MasterInit, SlaveInit
<1>2. Len(asked) = 0 /\ DOMAIN asked = {} /\ DOMAIN senders = {}
  BY <1>1
<1>3. twcr.does = "nothing"
  BY <1>1 DEF Idle
<1>4. Turn = 1
  BY <1>1, <1>2 DEF Turn
<1>5. InTurn
  BY <1>1 DEF InTurn
<1>6. Counted
  <2>1. received \in Seq(Seq(Byte)) /\ Len(received) = Len(asked)
    BY <1>1
  <2> QED
    BY <1>1, <1>2, <1>4, <2>1 DEF Counted
<1>7. Answerable
  BY <1>1, Constants DEF Answerable, Arrived
<1> QED
  BY <1>1, <1>2, <1>3, <1>5, <1>6, <1>7
     DEF Delivery, Delivering, Between, Waiting, Addressing, Writing, Turning, Clean,
         SettledWhenTurned, Reading, Answering, Done

-----------------------------------------------------------------------------
(* The steps of the slave *)

\* What the steps of the slave leave as it is.
LEMMA SlaveLeaves ==
  ASSUME BusInv, Delivery, UNCHANGED <<master, wire, sender, promised, disturbed>>
  PROVE  /\ InTurn' /\ Between' /\ Addressing' /\ Writing' /\ Turning'
         /\ Turn' = Turn /\ Clean' = Clean /\ Turned' = Turned /\ Given' = Given
<1>1. /\ asked' = asked /\ mNbrMsgs' = mNbrMsgs /\ slots' = slots /\ mCurrentMsg' = mCurrentMsg
      /\ mCurrentByte' = mCurrentByte /\ status' = status /\ received' = received
      /\ twcr' = twcr /\ twStatus' = twStatus /\ twdr' = twdr
      /\ sender' = sender /\ promised' = promised /\ disturbed' = disturbed
      /\ phase' = phase /\ addressed' = addressed
  BY DEF master, queue, messages, wire
<1>2. Turn' = Turn /\ Current' = Current /\ Clean' = Clean /\ Turned' = Turned
      /\ \A i : Slot(i)' = Slot(i)
  BY <1>1 DEF Turn, Current, Clean, Turned, Slot
<1>3. InTurn'
  BY <1>1, <1>2 DEF Delivery, InTurn, Slot, Turn, Turned, Current
<1>4. Between' /\ Addressing' /\ Writing' /\ Turning'
  BY <1>1, <1>2 DEF Delivery, Between, Addressing, Writing, Turning, NoPromise
<1> QED
  BY <1>1, <1>2, <1>3, <1>4 DEF Given

\* While no message is processed, none is forgotten.
LEMMA SettledStays ==
  ASSUME NEW id, UNCHANGED <<senders, processed, sender>>, asked'[id] = asked[id],
         Settled(id), Pending => Pending'
  PROVE  Settled(id)'
<1>1. SentOnce(id) => SentOnce(id)'
  BY DEF SentOnce
<1>2. NoneOf(id) => NoneOf(id)'
  BY DEF NoneOf
<1> QED
  BY <1>1, <1>2 DEF Settled

\* The steps of the slave in which no message is processed.
LEMMA SlaveWorks ==
  ASSUME BusInv, Delivery, UNCHANGED <<master, wire, sender, promised, disturbed>>,
         UNCHANGED <<senders, processed, answer>>, slaveStatus # "SR_STOP", slaveStatus' = "none",
         Delivering', Answerable', Answering'
  PROVE  Delivery'
<1>1. /\ InTurn' /\ Between' /\ Addressing' /\ Writing' /\ Turning'
      /\ Turn' = Turn /\ Clean' = Clean /\ Turned' = Turned /\ Given' = Given
  BY SlaveLeaves
<1>2. /\ asked' = asked /\ mNbrMsgs' = mNbrMsgs /\ slots' = slots /\ mCurrentMsg' = mCurrentMsg
      /\ mCurrentByte' = mCurrentByte /\ status' = status /\ received' = received
      /\ twcr' = twcr /\ twStatus' = twStatus /\ twdr' = twdr
      /\ sender' = sender /\ promised' = promised /\ disturbed' = disturbed
      /\ phase' = phase /\ addressed' = addressed
  BY DEF master, queue, messages, wire
<1>3. Counted' /\ Waiting' /\ Reading'
  BY <1>1, <1>2 DEF Delivery, Counted, Waiting, Reading, NoneOf, NoPromise, Current
<1>4. \A id : Settled(id) => Settled(id)'
  BY <1>2, SettledStays DEF Pending
<1>5. SettledWhenTurned'
  BY <1>1, <1>2, <1>4 DEF Delivery, SettledWhenTurned, Settled, SentOnce, NoneOf, Pending
<1>6. Done'
  BY <1>1, <1>2, <1>4 DEF Delivery, Done, Padded
<1> QED
  BY <1>1, <1>3, <1>5, <1>6 DEF Delivery

LEMMA LoadKeeps ==
  ASSUME BusInv, Delivery, UNCHANGED <<master, wire, sender, promised, disturbed, senders>>,
         StartTransmit \/ ContinueTransmit
  PROVE  Delivery'
<1> DEFINE index == IF slaveStatus = "ST_SLA_ACK" THEN 0 ELSE gI2cBufferIndex
<1>1. /\ slaveStatus \in {"ST_SLA_ACK", "ST_DATA_ACK"} /\ slaveStatus' = "none"
      /\ gI2cBufferIndex' = (IF index < gI2cMsgSize THEN index + 1 ELSE index)
      /\ slaveTwdr' = (IF index < gI2cMsgSize THEN slaveBuffer[index] ELSE 255)
      /\ UNCHANGED <<slaveBuffer, gI2cMsgSize, processed, answer, torn>>
  BY DEF StartTransmit, ContinueTransmit, Load, SlaveInterrupts
<1> HIDE DEF index
<1>2. /\ Turn' = Turn /\ Clean' = Clean /\ Given' = Given
      /\ sender' = sender /\ promised' = promised /\ received' = received /\ twStatus' = twStatus
      /\ twdr' = twdr /\ phase' = phase /\ addressed' = addressed
  BY SlaveLeaves DEF master, messages, wire
<1>3. ~(addressed' /\ phase' = "writing")
  BY <1>1, <1>2 DEF BusInv, Receiving
<1>4. Delivering'
  BY <1>1, <1>3 DEF Delivering
<1>5. Answerable'
  BY <1>1 DEF Delivery, Answerable, Arrived
<1>6. Answering'
  <2> SUFFICES ASSUME Clean, sender = Turn, phase = "reading", NEW promise \in promised,
                      promise[1] = Turn
               PROVE  /\ promise[2] = answer /\ ~torn
                      /\ \A j \in 1 .. Len(received[Turn]) : received[Turn][j] = Filled(answer, j)
                      /\ twStatus \in {"MR_DATA_ACK", "MR_DATA_NACK"} =>
                           twdr = Filled(answer, Given)
                      /\ twStatus \notin {"MR_DATA_NACK", "MR_SLA_NACK"} =>
                           /\ gI2cBufferIndex' = Less(Given + 1, Len(answer))
                           /\ slaveTwdr' = Filled(answer, Given + 1)
    BY <1>1, <1>2 DEF Answering
  <2>1. /\ promise[2] = answer /\ ~torn
        /\ \A j \in 1 .. Len(received[Turn]) : received[Turn][j] = Filled(answer, j)
        /\ twStatus \in {"MR_DATA_ACK", "MR_DATA_NACK"} => twdr = Filled(answer, Given)
    BY DEF Delivery, Answering
  <2>2. ASSUME twStatus \notin {"MR_DATA_NACK", "MR_SLA_NACK"}
        PROVE  /\ gI2cBufferIndex' = Less(Given + 1, Len(answer))
               /\ slaveTwdr' = Filled(answer, Given + 1)
    <3>1. /\ slaveStatus = "ST_SLA_ACK" => Given = 0
          /\ slaveStatus = "ST_DATA_ACK" => gI2cBufferIndex = Less(Given, Len(answer))
      BY <2>2 DEF Delivery, Answering
    <3>2. /\ answer \in Seq(Byte) /\ gI2cMsgSize = Len(answer) /\ Arrived(answer, Len(answer))
      BY <2>1 DEF Delivery, Answerable
    <3>3. Given \in Nat /\ Len(answer) \in Nat
      <4>1. Turn \in 1 .. Len(asked) /\ Len(received) = Len(asked)
        BY RingFacts DEF Clean, Delivery, Counted
      <4>2. received[Turn] \in Seq(Byte)
        BY <4>1 DEF Delivery, Counted
      <4> QED
        BY <3>2, <4>2 DEF Given
    <3>4. index = Less(Given, Len(answer))
      BY <1>1, <3>1, <3>3 DEF index, Less
    <3>5. CASE Given < Len(answer)
      <4>1. Given \in 0 .. Len(answer) - 1 /\ index = Given
        BY <3>3, <3>4, <3>5 DEF Less
      <4>2. slaveBuffer[Given] = answer[Given + 1]
        BY <3>2, <4>1 DEF Arrived
      <4> QED
        BY <1>1, <3>2, <3>3, <3>5, <4>1, <4>2 DEF Less, Filled
    <3>6. CASE ~(Given < Len(answer))
      <4>1. index = Len(answer)
        BY <3>3, <3>4, <3>6 DEF Less
      <4> QED
        BY <1>1, <3>2, <3>3, <3>6, <4>1 DEF Less, Filled
    <3> QED
      BY <3>5, <3>6
  <2> QED
    BY <2>1, <2>2
<1> QED
  BY <1>1, <1>4, <1>5, <1>6, SlaveWorks

LEMMA EndTransmitKeeps ==
  ASSUME BusInv, Delivery, UNCHANGED <<master, wire, sender, promised, disturbed, senders>>,
         EndTransmit \/ ReceiveFailed
  PROVE  Delivery'
<1>1. /\ slaveStatus \in {"ST_DATA_NACK", "SR_DATA_NACK", "SR_GCALL_DATA_NACK", "BUS_ERROR"}
      /\ slaveStatus' = "none"
      /\ UNCHANGED <<slaveBuffer, gI2cBufferIndex, gI2cMsgSize, slaveTwdr, processed, answer, torn>>
  BY DEF EndTransmit, ReceiveFailed, SlaveInterrupts
<1>2. /\ Turn' = Turn /\ Clean' = Clean /\ Given' = Given
      /\ sender' = sender /\ promised' = promised /\ received' = received /\ twStatus' = twStatus
      /\ twdr' = twdr /\ phase' = phase /\ addressed' = addressed
  BY SlaveLeaves DEF master, messages, wire
<1>3. ~(addressed' /\ phase' = "writing")
  BY <1>1, <1>2 DEF BusInv, Receiving
<1>4. Delivering'
  BY <1>1, <1>3 DEF Delivering
<1>5. Answerable'
  BY <1>1 DEF Delivery, Answerable, Arrived
<1>6. Answering'
  BY <1>1, <1>2 DEF Delivery, Reading, Answering
<1> QED
  BY <1>1, <1>4, <1>5, <1>6, SlaveWorks

LEMMA StartReceiveKeeps ==
  ASSUME BusInv, Delivery, UNCHANGED <<master, wire, sender, promised, disturbed, senders>>,
         StartReceive
  PROVE  Delivery'
<1>1. /\ slaveStatus \in {"SR_SLA_ACK", "SR_GCALL_ACK"} /\ slaveStatus' = "none"
      /\ gI2cBufferIndex' = 0
      /\ UNCHANGED <<slaveBuffer, gI2cMsgSize, slaveTwdr, processed, answer, torn>>
  BY DEF StartReceive, SlaveInterrupts
<1>2. /\ Turn' = Turn /\ Clean' = Clean /\ Given' = Given /\ asked' = asked
      /\ sender' = sender /\ promised' = promised /\ received' = received /\ twStatus' = twStatus
      /\ twdr' = twdr /\ phase' = phase /\ addressed' = addressed /\ disturbed' = disturbed
      /\ twcr' = twcr /\ mCurrentByte' = mCurrentByte
  BY SlaveLeaves DEF master, messages, wire, queue
<1>3. OnWire' = OnWire
  BY <1>2 DEF OnWire
<1>4. Delivering'
  BY <1>1, <1>2, <1>3 DEF Delivery, Delivering, NoneOf, Arrived
<1>5. Answerable'
  BY <1>1 DEF Delivery, Answerable, Arrived
<1>6. Answering'
  BY <1>1, <1>2 DEF Delivery, Reading, Answering
<1> QED
  BY <1>1, <1>4, <1>5, <1>6, SlaveWorks

LEMMA ReceiveByteKeeps ==
  ASSUME BusInv, Delivery, UNCHANGED <<master, wire, sender, promised, disturbed, senders>>,
         ReceiveByte
  PROVE  Delivery'
<1>1. /\ slaveStatus \in {"SR_DATA_ACK", "SR_GCALL_DATA_ACK"} /\ slaveStatus' = "none"
      /\ slaveBuffer' = [slaveBuffer EXCEPT ![gI2cBufferIndex] = slaveTwdr]
      /\ gI2cBufferIndex' = gI2cBufferIndex + 1 /\ torn' = TRUE
      /\ UNCHANGED <<gI2cMsgSize, slaveTwdr, processed, answer>>
  BY DEF ReceiveByte, SlaveInterrupts
<1>2. /\ Turn' = Turn /\ Clean' = Clean /\ Given' = Given /\ asked' = asked
      /\ sender' = sender /\ promised' = promised /\ received' = received /\ twStatus' = twStatus
      /\ twdr' = twdr /\ phase' = phase /\ addressed' = addressed /\ disturbed' = disturbed
      /\ twcr' = twcr /\ mCurrentByte' = mCurrentByte
  BY SlaveLeaves DEF master, messages, wire, queue
<1>3. OnWire' = OnWire
  BY <1>2 DEF OnWire
<1>4. Delivering'
  <2> SUFFICES ASSUME sender \in DOMAIN asked \ disturbed, addressed, phase = "writing"
               PROVE  /\ NoneOf(sender)' /\ gI2cBufferIndex' = OnWire
                      /\ \A i \in 0 .. OnWire - 1 : slaveBuffer'[i] = asked[sender].tx[i + 1]
    BY <1>1, <1>2, <1>3 DEF Delivering, Arrived
  <2>1. /\ slaveBuffer \in [0 .. kI2cBufferSize - 1 -> Byte]
        /\ gI2cBufferIndex \in 0 .. kI2cBufferSize /\ slaveStatus = "SR_DATA_ACK"
        /\ gI2cBufferIndex < kI2cBufferSize - 1 /\ kI2cBufferSize \in Nat \ {0, 1}
    BY <1>1, Constants DEF BusInv, Receiving
  <2>2. /\ NoneOf(sender) /\ gI2cBufferIndex + 1 = OnWire
        /\ \A i \in 0 .. gI2cBufferIndex - 1 : slaveBuffer[i] = asked[sender].tx[i + 1]
        /\ slaveTwdr = asked[sender].tx[OnWire]
    BY <2>1 DEF Delivery, Delivering, Arrived
  <2>3. ASSUME NEW i \in 0 .. OnWire - 1
        PROVE  slaveBuffer'[i] = asked[sender].tx[i + 1]
    <3>1. CASE i = gI2cBufferIndex
      BY <1>1, <2>1, <2>2, <3>1
    <3>2. CASE i # gI2cBufferIndex
      <4>1. i \in 0 .. gI2cBufferIndex - 1
        BY <2>1, <2>2, <3>2
      <4> QED
        BY <1>1, <2>1, <2>2, <3>2, <4>1
    <3> QED
      BY <3>1, <3>2
  <2>4. NoneOf(sender)'
    BY <1>2, <2>2 DEF NoneOf
  <2> QED
    BY <1>1, <2>2, <2>3, <2>4
<1>5. Answerable'
  BY <1>1 DEF Delivery, Answerable
<1>6. Answering'
  BY <1>1, <1>2 DEF Delivery, Reading, Answering
<1> QED
  BY <1>1, <1>4, <1>5, <1>6, SlaveWorks

\* The message that is processed counts as sent, the others as they did.
LEMMA ProcessedOnce ==
  ASSUME BusInv, Delivery, NEW id \in DOMAIN asked \ disturbed, Settled(id),
         slaveStatus = "SR_STOP", asked' = asked,
         senders' = Append(senders, sender),
         processed' = Append(processed, [i \in 1 .. gI2cBufferIndex |-> slaveBuffer[i - 1]])
  PROVE  SentOnce(id)'
<1> DEFINE n == Len(senders)
           message == [i \in 1 .. gI2cBufferIndex |-> slaveBuffer[i - 1]]
<1>1. /\ n \in Nat /\ DOMAIN senders = 1 .. n /\ Len(processed) = n /\ DOMAIN processed = 1 .. n
  BY DEF BusInv, Processing
<1>2. /\ DOMAIN senders' = 1 .. n + 1 /\ senders'[n + 1] = sender
      /\ \A k \in 1 .. n : senders'[k] = senders[k]
      /\ processed'[n + 1] = message /\ \A k \in 1 .. n : processed'[k] = processed[k]
  BY <1>1 DEF BusInv, Processing
<1>3. CASE sender = id
  <2>1. NoneOf(id) /\ gI2cBufferIndex = Len(asked[id].tx) /\ Arrived(asked[id].tx, gI2cBufferIndex)
    BY <1>3 DEF Delivery, Delivering
  <2>2. asked[id].tx \in Seq(Byte)
    BY ModeFacts
  <2>3. message = asked[id].tx
    <3>1. gI2cBufferIndex \in Nat
      BY DEF BusInv, Receiving
    <3>2. ASSUME NEW i \in 1 .. gI2cBufferIndex PROVE slaveBuffer[i - 1] = asked[id].tx[i]
      <4>1. i - 1 \in 0 .. gI2cBufferIndex - 1 /\ (i - 1) + 1 = i
        BY <3>1
      <4> QED
        BY <2>1, <4>1 DEF Arrived
    <3>3. /\ asked[id].tx = [i \in 1 .. Len(asked[id].tx) |-> asked[id].tx[i]]
      BY <2>2
    <3> QED
      BY <2>1, <3>2, <3>3
  <2> HIDE DEF n, message
  <2>4. processed'[n + 1] = asked'[id].tx /\ n + 1 \in DOMAIN senders'
    BY <1>1, <1>2, <2>3
  <2>5. ASSUME NEW l \in DOMAIN senders' PROVE senders'[l] = id <=> l = n + 1
    <3>1. CASE l = n + 1
      BY <1>2, <1>3, <3>1
    <3>2. CASE l # n + 1
      <4>1. l \in 1 .. n
        BY <1>1, <1>2, <3>2
      <4> QED
        BY <1>1, <1>2, <2>1, <3>2, <4>1 DEF NoneOf
    <3> QED
      BY <3>1, <3>2
  <2> QED
    BY <2>4, <2>5 DEF SentOnce
<1>4. CASE sender # id
  <2>1. SentOnce(id)
    BY <1>4 DEF Settled
  <2>2. PICK k \in DOMAIN senders :
          processed[k] = asked[id].tx /\ \A l \in DOMAIN senders : senders[l] = id <=> l = k
    BY <2>1 DEF SentOnce
  <2> HIDE DEF n, message
  <2>3. k \in DOMAIN senders' /\ processed'[k] = asked'[id].tx /\ k # n + 1 /\ k \in 1 .. n
    BY <1>1, <1>2, <2>2
  <2>4. ASSUME NEW l \in DOMAIN senders' PROVE senders'[l] = id <=> l = k
    <3>1. CASE l = n + 1
      BY <1>2, <1>4, <2>3, <3>1
    <3>2. CASE l # n + 1
      <4>1. l \in 1 .. n
        BY <1>1, <1>2, <3>2
      <4> QED
        BY <1>1, <1>2, <2>2, <4>1
    <3> QED
      BY <3>1, <3>2
  <2> QED
    BY <2>3, <2>4 DEF SentOnce
<1> QED
  BY <1>3, <1>4

LEMMA ProcessKeeps ==
  ASSUME BusInv, Delivery, UNCHANGED <<master, wire, sender, promised, disturbed>>,
         senders' = Append(senders, sender), ProcessMessage
  PROVE  Delivery'
<1>1. /\ slaveStatus = "SR_STOP" /\ slaveStatus' = "none" /\ torn' = FALSE
      /\ processed' = Append(processed, [i \in 1 .. gI2cBufferIndex |-> slaveBuffer[i - 1]])
  BY DEF ProcessMessage, SlaveInterrupts
<1>2. PICK reply \in Answers :
        /\ slaveBuffer' = [i \in DOMAIN slaveBuffer |->
                             IF i < Len(reply) THEN reply[i + 1] ELSE slaveBuffer[i]]
        /\ gI2cMsgSize' = Len(reply)
        /\ answer' = reply
  BY DEF ProcessMessage
<1>3. /\ InTurn' /\ Between' /\ Addressing' /\ Writing' /\ Turning'
      /\ Turn' = Turn /\ Clean' = Clean /\ Turned' = Turned /\ Given' = Given
  BY SlaveLeaves
<1>4. /\ asked' = asked /\ mNbrMsgs' = mNbrMsgs /\ slots' = slots /\ mCurrentMsg' = mCurrentMsg
      /\ mCurrentByte' = mCurrentByte /\ status' = status /\ received' = received
      /\ twcr' = twcr /\ twStatus' = twStatus /\ twdr' = twdr
      /\ sender' = sender /\ promised' = promised /\ disturbed' = disturbed
      /\ phase' = phase /\ addressed' = addressed
  BY DEF master, queue, messages, wire
<1>5. ~(addressed /\ phase = "writing")
  BY <1>1 DEF BusInv, Receiving
<1>6. Delivering' /\ ~Pending'
  BY <1>1, <1>4, <1>5 DEF Delivering, Pending
<1>7. \A k \in DOMAIN senders' :
        senders'[k] = sender \/ \E l \in DOMAIN senders : senders'[k] = senders[l]
  BY DEF BusInv, Processing
<1>8. Counted'
  BY <1>3, <1>4, <1>7 DEF Delivery, Counted
<1>9. Waiting'
  BY <1>3, <1>4, <1>7 DEF Delivery, Waiting, NoneOf, NoPromise, Current
<1>10. ~(Clean /\ sender = Turn /\ phase = "reading")
  BY <1>1 DEF Delivery, Reading
<1>11. Reading' /\ Answering'
  BY <1>3, <1>4, <1>10 DEF Reading, Answering
<1>12. Answerable'
  <2>1. reply \in Seq(Byte) /\ Len(reply) <= kI2cBufferSize /\ kI2cBufferSize \in Nat
    BY Constants
  <2>2. Len(reply) \in Nat /\ slaveBuffer \in [0 .. kI2cBufferSize - 1 -> Byte]
    BY <2>1 DEF BusInv, Receiving
  <2>3. ASSUME NEW i \in 0 .. Len(reply) - 1 PROVE slaveBuffer'[i] = reply[i + 1]
    BY <1>2, <2>1, <2>2
  <2> QED
    BY <1>2, <2>1, <2>3 DEF Answerable, Arrived
<1>13. ASSUME NEW id \in DOMAIN asked \ disturbed, Settled(id) PROVE Settled(id)'
  BY <1>1, <1>4, <1>13, ProcessedOnce DEF Settled
<1>14. SettledWhenTurned'
  <2> SUFFICES ASSUME Clean, Turned, NEW c, c = Turn
               PROVE  sender = c /\ mCurrentByte = Len(asked[c].tx) /\ Settled(c)'
    BY <1>3, <1>4 DEF SettledWhenTurned, Settled, SentOnce, NoneOf
  <2>1. c \in DOMAIN asked \ disturbed
    BY RingFacts DEF Clean
  <2>2. sender = c /\ mCurrentByte = Len(asked[c].tx) /\ Settled(c)
    BY DEF Delivery, SettledWhenTurned
  <2> QED
    BY <1>13, <2>1, <2>2
<1>15. Done'
  <2> SUFFICES ASSUME NEW id \in DOMAIN asked \ disturbed, id < Turn, status[id] = "ok"
               PROVE  /\ asked[id].tx # <<>> => Settled(id)'
                      /\ \A promise \in promised :
                           promise[1] = id => received[id] = Padded(promise[2], asked[id].rx)
    BY <1>3, <1>4 DEF Done, Padded
  <2> QED
    BY <1>13 DEF Delivery, Done
<1> QED
  BY <1>3, <1>6, <1>8, <1>9, <1>11, <1>12, <1>14, <1>15 DEF Delivery

LEMMA SlaveDelivers ==
  ASSUME BusInv, Delivery, SlaveSteps
  PROVE  Delivery'
<1>1. UNCHANGED <<master, wire, sender, promised, disturbed>> /\ SlaveInterrupt
  BY DEF SlaveSteps
<1>2. CASE ProcessMessage
  <2>1. senders' = Append(senders, sender)
    BY <1>2 DEF SlaveSteps, ProcessMessage, SlaveInterrupts
  <2> QED
    BY <1>1, <1>2, <2>1, ProcessKeeps
<1>3. CASE ~ProcessMessage
  <2>1. slaveStatus # "SR_STOP"
    BY <1>1, <1>3 DEF SlaveInterrupt, StartTransmit, ContinueTransmit, EndTransmit, StartReceive,
       ReceiveByte, ReceiveFailed, SlaveInterrupts
  <2>2. UNCHANGED <<master, wire, sender, promised, disturbed, senders>>
    BY <1>1, <2>1 DEF SlaveSteps
  <2> QED
    BY <1>1, <1>3, <2>2, LoadKeeps, EndTransmitKeeps, StartReceiveKeeps, ReceiveByteKeeps
       DEF SlaveInterrupt
<1> QED
  BY <1>2, <1>3

-----------------------------------------------------------------------------
(* The steps of the wire *)

\* What no step of the wire, and none of the main program but push, changes.
LEMMA RingLeft ==
  ASSUME BusInv, Delivery, UNCHANGED <<queue, messages>>
  PROVE  /\ InTurn' /\ Turn' = Turn /\ Turned' = Turned /\ Current' = Current
         /\ asked' = asked /\ mNbrMsgs' = mNbrMsgs /\ mCurrentByte' = mCurrentByte
         /\ status' = status /\ received' = received
<1>1. /\ asked' = asked /\ mNbrMsgs' = mNbrMsgs /\ slots' = slots /\ mCurrentMsg' = mCurrentMsg
      /\ mCurrentByte' = mCurrentByte /\ status' = status /\ received' = received
  BY DEF queue, messages
<1>2. Turn' = Turn /\ Current' = Current /\ Turned' = Turned
  BY <1>1 DEF Turn, Current, Turned
<1>3. InTurn'
  BY <1>1, <1>2 DEF Delivery, InTurn, Slot, Turn, Turned, Current
<1> QED
  BY <1>1, <1>2, <1>3

LEMMA EndSeen ==
  ASSUME SlaveSeesEnd
  PROVE  /\ UNCHANGED <<slaveBuffer, gI2cBufferIndex, gI2cMsgSize, slaveTwdr, processed,
                        answer, torn>>
         /\ slaveStatus' = IF addressed /\ phase = "writing" THEN "SR_STOP" ELSE slaveStatus
  BY DEF SlaveSeesEnd, SlaveGets, slave

\* A start or stop condition comes when the slave was given the whole message.
LEMMA AllGiven ==
  ASSUME BusInv, Delivery, sender \in DOMAIN asked \ disturbed, phase = "writing",
         twStatus = "none", twcr.does \in {"start", "stop", "stopAndStart"}
  PROVE  OnWire = Len(asked[sender].tx)
<1>1. CASE sender # Turn
  BY <1>1 DEF OnWire
<1>2. CASE sender = Turn
  <2>1. Clean
    BY <1>2, RingFacts DEF Clean
  <2>2. Turned
    BY <1>2, <2>1, ReportedOf
  <2>3. mCurrentByte = Len(asked[Turn].tx)
    BY <2>1, <2>2 DEF Delivery, SettledWhenTurned
  <2> QED
    BY <1>2, <2>3 DEF OnWire
<1> QED
  BY <1>1, <1>2

LEMMA EndKeeps ==
  ASSUME BusInv, Delivery, UNCHANGED <<queue, messages, twdr, history>>,
         twStatus = "none", slaveStatus = "none", twcr.does \in {"start", "stop", "stopAndStart"},
         SlaveSeesEnd, twStatus' \in {"none", "START", "REP_START"},
         phase' \in {"started", "free"}, addressed' = FALSE
  PROVE  /\ Counted' /\ Delivering' /\ Waiting' /\ Writing' /\ SettledWhenTurned'
         /\ Answerable' /\ Reading' /\ Answering' /\ Done'
<1>1. /\ InTurn' /\ Turn' = Turn /\ Turned' = Turned /\ Current' = Current
      /\ asked' = asked /\ mNbrMsgs' = mNbrMsgs /\ mCurrentByte' = mCurrentByte
      /\ status' = status /\ received' = received
  BY RingLeft
<1>2. /\ sender' = sender /\ senders' = senders /\ promised' = promised
      /\ disturbed' = disturbed /\ twdr' = twdr
  BY DEF history
<1>3. Clean' = Clean
  BY <1>1, <1>2 DEF Clean
<1>4. /\ UNCHANGED <<slaveBuffer, gI2cBufferIndex, gI2cMsgSize, slaveTwdr, processed, answer, torn>>
      /\ slaveStatus' = IF addressed /\ phase = "writing" THEN "SR_STOP" ELSE "none"
  BY EndSeen
<1>5. Counted' /\ Waiting'
  BY <1>1, <1>2, <1>3 DEF Delivery, Counted, Waiting, NoneOf, NoPromise
<1>6. Writing' /\ Reading' /\ Answering'
  BY DEF Writing, Reading, Answering
<1>7. Delivering'
  <2> SUFFICES ASSUME sender \in DOMAIN asked \ disturbed, addressed, phase = "writing"
               PROVE  /\ NoneOf(sender)
                      /\ gI2cBufferIndex = Len(asked[sender].tx)
                      /\ Arrived(asked[sender].tx, Len(asked[sender].tx))
    BY <1>1, <1>2, <1>4 DEF Delivering, NoneOf, Arrived
  <2>1. OnWire = Len(asked[sender].tx)
    BY AllGiven
  <2> QED
    BY <2>1 DEF Delivery, Delivering
<1>8. Pending => Pending'
  BY <1>4 DEF Pending
<1>9. ASSUME NEW id, Settled(id) PROVE Settled(id)'
  BY <1>1, <1>2, <1>4, <1>8, <1>9, SettledStays
<1>10. SettledWhenTurned'
  <2> SUFFICES ASSUME Clean, Turned, NEW c, c = Turn
               PROVE  sender = c /\ mCurrentByte = Len(asked[c].tx) /\ Settled(c)'
    BY <1>1, <1>2, <1>3 DEF SettledWhenTurned, Settled, SentOnce, NoneOf
  <2>1. sender = c /\ mCurrentByte = Len(asked[c].tx) /\ Settled(c)
    BY DEF Delivery, SettledWhenTurned
  <2> QED
    BY <1>9, <2>1
<1>11. Answerable'
  BY <1>4 DEF Delivery, Answerable, Arrived
<1>12. Done'
  <2> SUFFICES ASSUME NEW id \in DOMAIN asked \ disturbed, id < Turn, status[id] = "ok"
               PROVE  /\ asked[id].tx # <<>> => Settled(id)'
                      /\ \A promise \in promised :
                           promise[1] = id => received[id] = Padded(promise[2], asked[id].rx)
    BY <1>1, <1>2 DEF Done, Padded
  <2> QED
    BY <1>9 DEF Delivery, Done
<1> QED
  BY <1>5, <1>6, <1>7, <1>10, <1>11, <1>12

LEMMA StartKeeps ==
  ASSUME BusInv, Delivery, StartCondition
  PROVE  Delivery'
<1>1. /\ UNCHANGED <<queue, messages, twdr, history>> /\ twcr' = twcr
      /\ twStatus = "none" /\ slaveStatus = "none" /\ twcr.does \in {"start", "stopAndStart"}
      /\ SlaveSeesEnd /\ twStatus' \in {"START", "REP_START"} /\ phase' = "started"
      /\ addressed' = FALSE
  BY DEF StartCondition, Does, Report
<1>2. /\ Counted' /\ Delivering' /\ Waiting' /\ Writing' /\ SettledWhenTurned'
      /\ Answerable' /\ Reading' /\ Answering' /\ Done'
  BY <1>1, EndKeeps
<1>3. InTurn' /\ Turn' = Turn /\ Turned' = Turned /\ mNbrMsgs' = mNbrMsgs /\ received' = received
  BY <1>1, RingLeft
<1>4. sender' = sender /\ promised' = promised /\ disturbed' = disturbed
  BY <1>1 DEF history
<1>5. Between' /\ Addressing'
  BY <1>1 DEF Between, Addressing
<1>6. Turning'
  <2> SUFFICES ASSUME Clean, sender = Turn
               PROVE  Turned /\ NoPromise(Turn) /\ received[Turn] = <<>>
    BY <1>1, <1>3, <1>4 DEF Turning, Clean, NoPromise
  <2>1. phase = "writing" /\ Turned
    BY <1>1, ReportedOf
  <2> QED
    BY <2>1 DEF Delivery, Turning
<1> QED
  BY <1>2, <1>3, <1>5, <1>6 DEF Delivery

LEMMA StopKeeps ==
  ASSUME BusInv, Delivery, StopCondition
  PROVE  Delivery'
<1>1. /\ UNCHANGED <<queue, messages, twdr, history>> /\ twcr' = Idle
      /\ twStatus = "none" /\ slaveStatus = "none" /\ twcr.does = "stop"
      /\ SlaveSeesEnd /\ twStatus' = "none" /\ phase' = "free" /\ addressed' = FALSE
  BY DEF StopCondition, Does
<1>2. /\ Counted' /\ Delivering' /\ Waiting' /\ Writing' /\ SettledWhenTurned'
      /\ Answerable' /\ Reading' /\ Answering' /\ Done'
  BY <1>1, EndKeeps
<1>3. InTurn' /\ Turn' = Turn /\ Turned' = Turned /\ mNbrMsgs' = mNbrMsgs
  BY <1>1, RingLeft
<1>4. sender' = sender /\ promised' = promised /\ disturbed' = disturbed
  BY <1>1 DEF history
<1>5. twcr'.does = "nothing"
  BY <1>1 DEF Idle
<1>6. Between' /\ Addressing'
  BY <1>1, <1>5 DEF Between, Addressing
<1>7. Turning'
  <2>1. ~(Clean /\ sender = Turn)
    BY <1>1, ReportedOf
  <2> QED
    BY <1>3, <1>4, <2>1 DEF Turning, Clean
<1> QED
  BY <1>2, <1>3, <1>6, <1>7 DEF Delivery

LEMMA SentStays ==
  ASSUME NEW id, UNCHANGED <<senders, processed>>, asked'[id] = asked[id], SentOnce(id)
  PROVE  SentOnce(id)'
  BY DEF SentOnce

\* While the hardware transfers something, the last stop condition was seen: earlier
\* messages are with the slave.
LEMMA DoneAreSent ==
  ASSUME BusInv, Delivery, slaveStatus # "SR_STOP", phase = "writing" => sender = Turn,
         NEW id \in DOMAIN asked \ disturbed, id < Turn, status[id] = "ok", asked[id].tx # <<>>
  PROVE  SentOnce(id)
<1>1. Settled(id)
  BY DEF Delivery, Done
<1>2. Turn \in Nat /\ id # Turn
  BY RingFacts
<1>3. ~Pending \/ sender # id
  BY <1>2 DEF Pending
<1> QED
  BY <1>1, <1>3 DEF Settled

LEMMA AddressKeeps ==
  ASSUME BusInv, Delivery, Address
  PROVE  Delivery'
<1> DEFINE acknowledged == (\/ twdr.address = ownAddress
                            \/ (twdr.address = 0 /\ answerGeneralCall /\ ~twdr.read)) /\ twea
<1>1. /\ UNCHANGED <<queue, messages>> /\ twcr' = twcr /\ twdr' = twdr
      /\ senders' = senders /\ disturbed' = disturbed
      /\ UNCHANGED <<slaveBuffer, gI2cBufferIndex, gI2cMsgSize, slaveTwdr, processed, answer, torn>>
      /\ twStatus = "none" /\ slaveStatus = "none" /\ twcr.does = "send" /\ phase = "started"
      /\ sender' = Current.id
  BY DEF Address, Does, Report, SlaveGets, slave
<1>2. /\ twStatus' = (IF twdr.read THEN IF acknowledged THEN "MR_SLA_ACK" ELSE "MR_SLA_NACK"
                      ELSE IF acknowledged THEN "MT_SLA_ACK" ELSE "MT_SLA_NACK")
      /\ slaveStatus' = (IF acknowledged
                         THEN IF twdr.read THEN "ST_SLA_ACK"
                              ELSE IF twdr.address = 0 THEN "SR_GCALL_ACK" ELSE "SR_SLA_ACK"
                         ELSE "none")
      /\ addressed' = acknowledged
      /\ phase' = (IF twdr.read THEN "reading" ELSE "writing")
      /\ promised' = (IF twdr.read /\ acknowledged /\ ~torn
                      THEN promised \cup {<<Current.id, answer>>} ELSE promised)
  BY <1>1 DEF Address, Report, SlaveGets, slave
<1> HIDE DEF acknowledged
<1>3. /\ InTurn' /\ Turn' = Turn /\ Turned' = Turned /\ Current' = Current
      /\ asked' = asked /\ mNbrMsgs' = mNbrMsgs /\ mCurrentByte' = mCurrentByte
      /\ status' = status /\ received' = received
  BY <1>1, RingLeft
<1>4. mNbrMsgs > 0 /\ Clean' = Clean
  BY <1>1, <1>3 DEF BusInv, Enabled, Clean
<1>5. /\ Turn \in DOMAIN asked /\ Turn \in 1 .. Len(asked) /\ Len(asked) \in Nat
      /\ Current.id = Turn /\ (Current.mode = Mode(asked[Turn]) \/ Turned)
  BY <1>4, RingFacts
<1>6. twdr.read <=> Current.mode = "read"
  <2>1. Current.mode \in {"write", "read", "writeRestartRead"}
    BY <1>5, ModeFacts DEF Turned
  <2>2. Addressing
    BY DEF Delivery
  <2>3. twdr.read = (Current.mode \notin {"write", "writeRestartRead"})
    BY <1>1, <2>2 DEF Addressing
  <2> QED
    BY <2>1, <2>3
<1>7. sender' = Turn
  <2>1. sender' = Current.id
    BY <1>1
  <2>2. Current.id = Turn
    BY <1>5
  <2> QED
    BY <2>1, <2>2
<1>8. ~twdr.read /\ Clean =>
        NoneOf(Turn) /\ NoPromise(Turn) /\ received[Turn] = <<>> /\ mCurrentByte = 0
  BY <1>1, <1>6 DEF Delivery, Waiting, Turning, Turned
<1>9. Clean => NoPromise(Turn) /\ received[Turn] = <<>>
  BY <1>1 DEF Delivery, Waiting, Turning
<1>10. Counted'
  <2>1. ASSUME NEW promise \in promised' PROVE promise[1] \in 1 .. Len(asked) /\ promise[1] <= Turn
    <3>1. CASE promise \in promised
      BY <3>1 DEF Delivery, Counted
    <3>2. CASE promise \notin promised
      <4>1. promise = <<Current.id, answer>>
        BY <1>2, <3>2
      <4> QED
        BY <1>5, <4>1
    <3> QED
      BY <3>1, <3>2
  <2>2. sender' \in 0 .. Len(asked) /\ sender' <= Turn
    BY <1>5, <1>7
  <2> QED
    BY <1>1, <1>2, <1>3, <2>1, <2>2 DEF Delivery, Counted
<1>11. Delivering'
  <2> SUFFICES ASSUME Turn \notin disturbed, acknowledged, ~twdr.read
               PROVE  NoneOf(Turn)' /\ OnWire' = 0
    BY <1>1, <1>2, <1>3, <1>7 DEF Delivering, NoneOf
  <2>1. NoneOf(Turn) /\ mCurrentByte = 0
    BY <1>4, <1>8 DEF Clean
  <2> QED
    BY <1>1, <1>2, <1>3, <1>7, <2>1 DEF NoneOf, OnWire
<1>12. Between' /\ Waiting' /\ Addressing'
  BY <1>2, <1>3, <1>7 DEF Between, Waiting, Addressing
<1>13. Writing'
  <2> SUFFICES ASSUME Clean, ~twdr.read
               PROVE  /\ Current.mode \in {"write", "writeRestartRead"}
                      /\ mCurrentByte <= Len(asked[Turn].tx)
    BY <1>2, <1>3, <1>4 DEF Writing
  <2>1. Current.mode \in {"write", "read", "writeRestartRead"}
    BY <1>5, ModeFacts DEF Turned
  <2>2. asked[Turn].tx \in Seq(Byte)
    BY <1>5, ModeFacts
  <2> QED
    BY <1>6, <1>8, <2>1, <2>2
<1>14. Turning'
  BY <1>2, <1>3, <1>4, <1>8 DEF Turning, NoPromise
<1>15. SettledWhenTurned'
  <2> SUFFICES ASSUME Clean, Turned, NEW c, c = Turn
               PROVE  mCurrentByte = Len(asked[c].tx) /\ SentOnce(c)'
    BY <1>3, <1>4, <1>7 DEF SettledWhenTurned, Settled, SentOnce
  <2>1. mCurrentByte = Len(asked[c].tx) /\ SentOnce(c)
    BY <1>1 DEF Delivery, SettledWhenTurned, Settled, Pending
  <2> QED
    BY <1>1, <1>3, <2>1, SentStays
<1>16. Answerable'
  BY <1>1 DEF Delivery, Answerable, Arrived
<1>17. Reading'
  BY <1>2, <1>3, <1>4, <1>6, <1>9 DEF Reading
<1>18. Answering'
  <2> SUFFICES ASSUME Clean, twdr.read, NEW promise \in promised', promise[1] = Turn
               PROVE  /\ promise[2] = answer /\ ~torn
                      /\ \A j \in 1 .. Len(received[Turn]) : received[Turn][j] = Filled(answer, j)
                      /\ twStatus' = "MR_SLA_ACK" /\ slaveStatus' = "ST_SLA_ACK" /\ Given' = 0
    BY <1>1, <1>2, <1>3, <1>4 DEF Answering
  <2>1. promise \notin promised
    BY <1>9 DEF NoPromise
  <2>2. promise[2] = answer /\ ~torn /\ acknowledged
    BY <1>2, <2>1
  <2>3. received[Turn] = <<>> /\ Len(received[Turn]) = 0
    BY <1>9
  <2> QED
    BY <1>2, <1>3, <2>2, <2>3 DEF Given
<1>19. Done'
  <2> SUFFICES ASSUME NEW id \in DOMAIN asked \ disturbed, id < Turn, status[id] = "ok"
               PROVE  /\ asked[id].tx # <<>> => Settled(id)'
                      /\ \A promise \in promised' :
                           promise[1] = id => received[id] = Padded(promise[2], asked[id].rx)
    BY <1>1, <1>3 DEF Done, Padded
  <2>1. asked[id].tx # <<>> => SentOnce(id)'
    BY <1>1, <1>3, DoneAreSent, SentStays
  <2>2. ASSUME NEW promise \in promised', promise[1] = id
        PROVE  received[id] = Padded(promise[2], asked[id].rx)
    <3>1. promise \in promised
      <4>1. promise # <<Current.id, answer>>
        BY <1>5, <2>2
      <4> QED
        BY <1>2, <4>1
    <3> QED
      BY <2>2, <3>1 DEF Delivery, Done
  <2> QED
    BY <2>1, <2>2 DEF Settled
<1> QED
  BY <1>3, <1>10, <1>11, <1>12, <1>13, <1>14, <1>15, <1>16, <1>17, <1>18, <1>19 DEF Delivery

LEMMA WriteKeeps ==
  ASSUME BusInv, Delivery, Write
  PROVE  Delivery'
<1>1. /\ UNCHANGED <<queue, messages, history>> /\ twcr' = twcr /\ twdr' = twdr
      /\ UNCHANGED <<slaveBuffer, gI2cBufferIndex, gI2cMsgSize, processed, answer, torn>>
      /\ twStatus = "none" /\ slaveStatus = "none" /\ twcr.does = "send"
      /\ phase = "writing" /\ addressed /\ phase' = "writing" /\ addressed' = twea
      /\ twStatus' = (IF twea THEN "MT_DATA_ACK" ELSE "MT_DATA_NACK")
      /\ slaveStatus' = (IF twea THEN "SR_DATA_ACK" ELSE "SR_DATA_NACK") /\ slaveTwdr' = twdr
  BY DEF Write, Does, Report, SlaveGets
<1>2. /\ sender' = sender /\ senders' = senders /\ promised' = promised /\ disturbed' = disturbed
  BY <1>1 DEF history
<1>3. /\ InTurn' /\ Turn' = Turn /\ Turned' = Turned /\ Current' = Current
      /\ asked' = asked /\ mNbrMsgs' = mNbrMsgs /\ mCurrentByte' = mCurrentByte
      /\ status' = status /\ received' = received
  BY <1>1, RingLeft
<1>4. mNbrMsgs > 0 /\ Clean' = Clean
  BY <1>1, <1>2, <1>3 DEF BusInv, Enabled, Clean
<1>5. sender = Turn
  BY <1>1, <1>4 DEF Delivery, Between
<1>6. Clean => /\ mCurrentByte > 0 /\ twdr = asked[Turn].tx[mCurrentByte]
               /\ Current.mode \in {"write", "writeRestartRead"}
               /\ mCurrentByte <= Len(asked[Turn].tx)
  BY <1>1, <1>5 DEF Delivery, Writing
<1>7. Counted'
  BY <1>1, <1>2, <1>3 DEF Delivery, Counted
<1>8. Delivering'
  <2> SUFFICES ASSUME Turn \in DOMAIN asked \ disturbed
               PROVE  /\ NoneOf(Turn)' /\ gI2cBufferIndex + 1 = mCurrentByte
                      /\ Arrived(asked[Turn].tx, gI2cBufferIndex)'
                      /\ twdr = asked[Turn].tx[mCurrentByte]
    BY <1>1, <1>2, <1>3, <1>5 DEF Delivering, NoneOf, OnWire, Arrived
  <2>1. /\ NoneOf(Turn) /\ gI2cBufferIndex = OnWire /\ Arrived(asked[Turn].tx, OnWire)
    BY <1>1, <1>5 DEF Delivery, Delivering
  <2>2. OnWire = mCurrentByte - 1
    BY <1>1, <1>5 DEF OnWire
  <2>3. mCurrentByte \in Nat
    BY Constants DEF BusInv, Queued
  <2>4. Clean
    BY <1>4 DEF Clean
  <2>5. NoneOf(Turn)'
    BY <1>2, <1>3, <2>1 DEF NoneOf
  <2>6. Arrived(asked[Turn].tx, gI2cBufferIndex)'
    BY <1>1, <1>3, <2>1 DEF Arrived
  <2>7. gI2cBufferIndex + 1 = mCurrentByte
    BY <2>1, <2>2, <2>3
  <2> QED
    BY <1>6, <2>4, <2>5, <2>6, <2>7
<1>9. Between' /\ Waiting' /\ Addressing'
  BY <1>1, <1>2, <1>3, <1>5 DEF Between, Waiting, Addressing
<1>10. Writing'
  BY <1>1, <1>2, <1>3, <1>4, <1>6 DEF Writing
<1>11. Turning'
  BY <1>1, <1>2, <1>3, <1>4 DEF Delivery, Turning, NoPromise
<1>12. SettledWhenTurned'
  BY <1>3, <1>4, <1>6 DEF SettledWhenTurned, Turned
<1>13. Answerable'
  BY <1>1 DEF Delivery, Answerable, Arrived
<1>14. Reading' /\ Answering'
  BY <1>1 DEF Reading, Answering
<1>15. Done'
  <2> SUFFICES ASSUME NEW id \in DOMAIN asked \ disturbed, id < Turn, status[id] = "ok"
               PROVE  /\ asked[id].tx # <<>> => Settled(id)'
                      /\ \A promise \in promised :
                           promise[1] = id => received[id] = Padded(promise[2], asked[id].rx)
    BY <1>2, <1>3 DEF Done, Padded
  <2>1. asked[id].tx # <<>> => SentOnce(id)'
    BY <1>1, <1>2, <1>3, <1>5, DoneAreSent, SentStays
  <2> QED
    BY <2>1 DEF Delivery, Done, Settled
<1> QED
  BY <1>3, <1>7, <1>8, <1>9, <1>10, <1>11, <1>12, <1>13, <1>14, <1>15 DEF Delivery

LEMMA ReadKeeps ==
  ASSUME BusInv, Delivery, Read
  PROVE  Delivery'
<1>1. /\ UNCHANGED <<queue, messages, phase, history>> /\ twcr' = twcr /\ twdr' = slaveTwdr
      /\ UNCHANGED <<slaveBuffer, gI2cBufferIndex, gI2cMsgSize, slaveTwdr, processed, answer, torn>>
      /\ twStatus = "none" /\ slaveStatus = "none" /\ twcr.does \in {"ack", "nack"}
      /\ twStatus' = (IF twcr.does = "ack" THEN "MR_DATA_ACK" ELSE "MR_DATA_NACK")
      /\ slaveStatus' = (IF twcr.does = "ack" THEN "ST_DATA_ACK" ELSE "ST_DATA_NACK")
  BY DEF Read, Does, Report, SlaveGets
<1>2. /\ sender' = sender /\ senders' = senders /\ promised' = promised /\ disturbed' = disturbed
  BY <1>1 DEF history
<1>3. /\ InTurn' /\ Turn' = Turn /\ Turned' = Turned /\ Current' = Current
      /\ asked' = asked /\ mNbrMsgs' = mNbrMsgs /\ mCurrentByte' = mCurrentByte
      /\ status' = status /\ received' = received
  BY <1>1, RingLeft
<1>4. mNbrMsgs > 0 /\ Clean' = Clean /\ phase = "reading" /\ phase' = "reading"
  BY <1>1, <1>2, <1>3 DEF BusInv, Enabled, Sending, Clean
<1>5. sender = Turn
  BY <1>1, <1>4 DEF Delivery, Between
<1>6. Turn \in DOMAIN asked /\ received[Turn] \in Seq(Byte) /\ Len(received[Turn]) \in Nat
  <2>1. Turn \in 1 .. Len(asked)
    BY <1>4, RingFacts
  <2>2. received[Turn] \in Seq(Byte)
    BY <2>1 DEF Delivery, Counted
  <2> QED
    BY <1>4, <2>2, RingFacts
<1>7. Counted'
  BY <1>1, <1>2, <1>3 DEF Delivery, Counted, BusInv, Receiving
<1>8. Delivering' /\ Between' /\ Waiting' /\ Addressing' /\ Writing' /\ Turning'
  BY <1>1, <1>2, <1>3, <1>4, <1>5
     DEF Delivering, Between, Waiting, Addressing, Writing, Turning
<1>9. SettledWhenTurned'
  <2> SUFFICES ASSUME Clean, Turned, NEW c, c = Turn
               PROVE  mCurrentByte = Len(asked[c].tx) /\ SentOnce(c)'
    BY <1>2, <1>3, <1>4, <1>5 DEF SettledWhenTurned, Settled, SentOnce
  <2>1. mCurrentByte = Len(asked[c].tx) /\ SentOnce(c)
    BY <1>1, <1>4 DEF Delivery, SettledWhenTurned, Settled, Pending
  <2> QED
    BY <1>1, <1>2, <1>3, <2>1, SentStays
<1>10. Answerable'
  BY <1>1 DEF Delivery, Answerable, Arrived
<1>11. Reading'
  BY <1>1, <1>2, <1>3, <1>4, <1>5 DEF Delivery, Reading
<1>12. Answering'
  <2> SUFFICES ASSUME Clean, NEW promise \in promised, promise[1] = Turn
               PROVE  /\ promise[2] = answer /\ ~torn
                      /\ \A j \in 1 .. Len(received[Turn]) : received[Turn][j] = Filled(answer, j)
                      /\ slaveTwdr = Filled(answer, Given')
                      /\ gI2cBufferIndex = Less(Given', Len(answer))
    BY <1>1, <1>2, <1>3, <1>4 DEF Answering
  <2>1. /\ promise[2] = answer /\ ~torn
        /\ \A j \in 1 .. Len(received[Turn]) : received[Turn][j] = Filled(answer, j)
        /\ gI2cBufferIndex = Less(Given + 1, Len(answer))
        /\ slaveTwdr = Filled(answer, Given + 1)
    BY <1>1, <1>4, <1>5 DEF Delivery, Answering
  <2>2. Given' = Given + 1
    BY <1>1, <1>3 DEF Given
  <2> QED
    BY <2>1, <2>2
<1>13. Done'
  <2> SUFFICES ASSUME NEW id \in DOMAIN asked \ disturbed, id < Turn, status[id] = "ok"
               PROVE  /\ asked[id].tx # <<>> => Settled(id)'
                      /\ \A promise \in promised :
                           promise[1] = id => received[id] = Padded(promise[2], asked[id].rx)
    BY <1>2, <1>3 DEF Done, Padded
  <2>1. asked[id].tx # <<>> => SentOnce(id)'
    BY <1>1, <1>2, <1>3, <1>5, DoneAreSent, SentStays
  <2> QED
    BY <2>1 DEF Delivery, Done, Settled
<1> QED
  BY <1>3, <1>7, <1>8, <1>9, <1>10, <1>11, <1>12, <1>13 DEF Delivery

\* Nothing is claimed of the message that was disturbed.
LEMMA DisturbanceKeeps ==
  ASSUME BusInv, Delivery, OtherMasterWins \/ Noise
  PROVE  Delivery'
<1>1. /\ UNCHANGED <<queue, messages, senders, promised>>
      /\ disturbed' = disturbed \cup {Current.id}
      /\ UNCHANGED <<slaveBuffer, gI2cBufferIndex, gI2cMsgSize, slaveTwdr, processed, answer, torn>>
      /\ twStatus = "none" /\ slaveStatus = "none" /\ twcr.does \in {"send", "ack", "nack"}
      /\ twStatus' \in {"ARB_LOST", "BUS_ERROR"} /\ sender' = 0
      /\ phase' = "free" /\ addressed' = FALSE
  <2>1. CASE OtherMasterWins
    BY <2>1, EndSeen DEF OtherMasterWins, Does, Disturb, Report
  <2>2. CASE Noise
    BY <2>2 DEF Noise, Does, Disturb, Report, SlaveGets, slave
  <2> QED
    BY <2>1, <2>2
<1>2. /\ InTurn' /\ Turn' = Turn /\ Turned' = Turned /\ Current' = Current
      /\ asked' = asked /\ mNbrMsgs' = mNbrMsgs /\ mCurrentByte' = mCurrentByte
      /\ status' = status /\ received' = received
  BY <1>1, RingLeft
<1>3. mNbrMsgs > 0
  BY <1>1 DEF BusInv, Enabled
<1>4. /\ Current.id = Turn /\ Turn \in 1 .. Len(asked)
      /\ Len(asked) \in Nat /\ DOMAIN asked = 1 .. Len(asked)
  BY <1>3, RingFacts
<1>5. ~Clean'
  BY <1>1, <1>2, <1>4 DEF Clean
<1>6. Counted'
  <2>1. sender' \in 0 .. Len(asked) /\ sender' <= Turn
    BY <1>1, <1>4
  <2> QED
    BY <1>1, <1>2, <2>1 DEF Delivery, Counted
<1>7. Delivering'
  BY <1>1, <1>2, <1>4 DEF Delivering
<1>8. Between' /\ Addressing'
  BY <1>1 DEF Between, Addressing
<1>9. Waiting' /\ Writing' /\ Turning' /\ SettledWhenTurned' /\ Reading' /\ Answering'
  BY <1>5 DEF Waiting, Writing, Turning, SettledWhenTurned, Reading, Answering
<1>10. Answerable'
  BY <1>1 DEF Delivery, Answerable, Arrived
<1>11. Done'
  <2> SUFFICES ASSUME NEW id \in DOMAIN asked \ disturbed, id < Turn, status[id] = "ok"
               PROVE  /\ asked[id].tx # <<>> => Settled(id)'
                      /\ \A promise \in promised :
                           promise[1] = id => received[id] = Padded(promise[2], asked[id].rx)
    BY <1>1, <1>2 DEF Done, Padded
  <2>1. phase = "writing" => sender = Turn
    BY <1>1, <1>3 DEF Delivery, Between
  <2>2. asked[id].tx # <<>> => SentOnce(id)'
    BY <1>1, <1>2, <2>1, DoneAreSent, SentStays
  <2> QED
    BY <2>2 DEF Delivery, Done, Settled
<1> QED
  BY <1>2, <1>6, <1>7, <1>8, <1>9, <1>10, <1>11 DEF Delivery

LEMMA RestartDelivers ==
  ASSUME BusInv, Delivery, ProgramRestarts
  PROVE  Delivery'
<1>1. /\ UNCHANGED <<queue, messages, slave, wire, sender, senders, promised>>
      /\ disturbed' = disturbed \cup DOMAIN asked
      /\ twcr' = Idle /\ twStatus' = "none"
  BY DEF ProgramRestarts, Restart, Disturb
<1>2. /\ InTurn' /\ Turn' = Turn /\ asked' = asked /\ mNbrMsgs' = mNbrMsgs
      /\ mCurrentByte' = mCurrentByte /\ status' = status /\ received' = received
  BY <1>1, RingLeft
<1>3. twcr'.does = "nothing"
  BY <1>1 DEF Idle
<1>4. ~Clean' /\ DOMAIN asked' \ disturbed' = {}
  BY <1>1, <1>2, RingFacts DEF Clean
<1>5. Counted'
  BY <1>1, <1>2 DEF Delivery, Counted
<1>6. Between' /\ Addressing'
  BY <1>1, <1>3 DEF Between, Addressing
<1>7. Waiting' /\ Writing' /\ Turning' /\ SettledWhenTurned' /\ Reading' /\ Answering'
  BY <1>4 DEF Waiting, Writing, Turning, SettledWhenTurned, Reading, Answering
<1>8. Delivering' /\ Done'
  BY <1>4 DEF Delivering, Done
<1>9. Answerable'
  BY <1>1 DEF Delivery, Answerable, Arrived, slave
<1> QED
  BY <1>2, <1>5, <1>6, <1>7, <1>8, <1>9 DEF Delivery

-----------------------------------------------------------------------------
(* The steps of the master *)

LEMMA MasterLeaves ==
  ASSUME BusInv, Delivery, UNCHANGED <<slave, wire, history>>
  PROVE  /\ sender' = sender /\ senders' = senders /\ promised' = promised
         /\ disturbed' = disturbed /\ phase' = phase /\ addressed' = addressed
         /\ slaveStatus' = slaveStatus /\ slaveBuffer' = slaveBuffer /\ answer' = answer
         /\ gI2cBufferIndex' = gI2cBufferIndex /\ slaveTwdr' = slaveTwdr /\ torn' = torn
         /\ processed' = processed /\ Answerable' /\ Pending' = Pending
<1>1. /\ sender' = sender /\ senders' = senders /\ promised' = promised
      /\ disturbed' = disturbed /\ phase' = phase /\ addressed' = addressed
      /\ slaveStatus' = slaveStatus /\ slaveBuffer' = slaveBuffer /\ answer' = answer
      /\ gI2cBufferIndex' = gI2cBufferIndex /\ slaveTwdr' = slaveTwdr /\ torn' = torn
      /\ processed' = processed /\ gI2cMsgSize' = gI2cMsgSize
  BY DEF slave, wire, history
<1>2. Answerable'
  BY <1>1 DEF Delivery, Answerable, Arrived
<1> QED
  BY <1>1, <1>2 DEF Pending

\* The same message stays the current one.
LEMMA TurnStays ==
  ASSUME BusInv, Delivery, UNCHANGED <<slots, mNbrMsgs, mCurrentMsg, asked>>
  PROVE  InTurn' /\ Turn' = Turn /\ Turned' = Turned /\ Current' = Current
<1>1. Turn' = Turn /\ Current' = Current /\ Turned' = Turned
  BY DEF Turn, Current, Turned
<1>2. InTurn'
  BY <1>1 DEF Delivery, InTurn, Slot, Turn, Turned, Current
<1> QED
  BY <1>1, <1>2

\* What the routine does for the current message makes no difference to those done, or
\* to what the slave was given.
LEMMA GoesOnDelivers ==
  ASSUME BusInv, Delivery, UNCHANGED <<slave, wire, history, asked, mNbrMsgs>>,
         addressed /\ phase = "writing" /\ sender = Turn => OnWire' = OnWire,
         \A id \in DOMAIN asked :
           id # Turn => status'[id] = status[id] /\ received'[id] = received[id]
  PROVE  /\ Turn' = Turn /\ Clean' = Clean /\ Delivering' /\ Done'
         /\ Settled(Turn) => Settled(Turn)'
<1>1. /\ sender' = sender /\ senders' = senders /\ promised' = promised
      /\ disturbed' = disturbed /\ phase' = phase /\ addressed' = addressed
      /\ slaveStatus' = slaveStatus /\ slaveBuffer' = slaveBuffer
      /\ gI2cBufferIndex' = gI2cBufferIndex /\ slaveTwdr' = slaveTwdr
      /\ processed' = processed /\ Pending' = Pending
  BY MasterLeaves
<1>2. asked' = asked /\ mNbrMsgs' = mNbrMsgs
  OBVIOUS
<1>3. Turn' = Turn /\ Clean' = Clean
  BY <1>1, <1>2 DEF Turn, Clean
<1>4. addressed /\ phase = "writing" => OnWire' = OnWire
  BY <1>1, <1>2, <1>3 DEF OnWire
<1>5. Delivering'
  BY <1>1, <1>2, <1>4 DEF Delivery, Delivering, NoneOf, Arrived
<1>6. ASSUME NEW id, Settled(id) PROVE Settled(id)'
  BY <1>1, <1>2, <1>6, SettledStays
<1>7. Done'
  <2> SUFFICES ASSUME NEW id \in DOMAIN asked \ disturbed, id < Turn, status'[id] = "ok"
               PROVE  /\ asked[id].tx # <<>> => Settled(id)'
                      /\ \A promise \in promised :
                           promise[1] = id => received'[id] = Padded(promise[2], asked[id].rx)
    BY <1>1, <1>2, <1>3 DEF Done, Padded
  <2>1. status[id] = "ok" /\ received'[id] = received[id]
    BY RingFacts
  <2> QED
    BY <1>6, <2>1 DEF Delivery, Done
<1>8. ASSUME Settled(Turn) PROVE Settled(Turn)'
  <2> SUFFICES ASSUME NEW c, c = Turn PROVE Settled(c)'
    BY <1>3 DEF Settled, SentOnce, NoneOf
  <2> QED
    BY <1>6, <1>8
<1> QED
  BY <1>3, <1>5, <1>7, <1>8

LEMMA SendAddressDelivers ==
  ASSUME BusInv, Delivery, SendAddress, UNCHANGED <<slave, wire, history>>
  PROVE  Delivery'
<1>1. /\ twStatus \in {"START", "REP_START"} /\ twStatus' = "none"
      /\ twcr' = [twie |-> TRUE, does |-> "send"] /\ twcr.twie
      /\ twdr' = [address |-> Current.address,
                  read |-> Current.mode \notin {"write", "writeRestartRead"}]
      /\ status' = [status EXCEPT ![Current.id] = "inProgress"]
      /\ UNCHANGED <<slots, mNbrMsgs, mCurrentMsg, mCurrentByte, asked, received>>
  BY DEF SendAddress, Interrupts, Command, queue
<1>2. phase = "started" /\ mNbrMsgs > 0 /\ twcr'.does = "send"
  BY <1>1 DEF BusInv, Sending, Enabled
<1>3. InTurn' /\ Turn' = Turn /\ Turned' = Turned /\ Current' = Current
  BY <1>1, TurnStays
<1>4. Current.id = Turn /\ Turn \in DOMAIN asked
  BY <1>2, RingFacts
<1>5. /\ sender' = sender /\ senders' = senders /\ promised' = promised
      /\ disturbed' = disturbed /\ phase' = phase /\ Answerable'
  BY MasterLeaves
<1>6. /\ Clean' = Clean /\ Delivering' /\ Done'
      /\ Settled(Turn) => Settled(Turn)'
  <2>1. UNCHANGED <<slave, wire, history, asked, mNbrMsgs>> /\ ~(phase = "writing")
    BY <1>1, <1>2
  <2>2. \A id \in DOMAIN asked :
          id # Turn => status'[id] = status[id] /\ received'[id] = received[id]
    BY <1>1, <1>4
  <2> QED
    BY <2>1, <2>2, GoesOnDelivers
<1>7. Counted'
  <2>1. \A id \in DOMAIN asked : id >= Turn => status'[id] \in {"notStarted", "inProgress"}
    <3>1. DOMAIN status = DOMAIN asked
      BY DEF BusInv, Queued
    <3>2. status[Turn] \in {"notStarted", "inProgress"} /\ Turn \in Nat
      BY <1>4, RingFacts DEF Delivery, Counted
    <3> QED
      BY <1>1, <1>4, <3>1 DEF Delivery, Counted
  <2> QED
    BY <1>1, <1>3, <1>5, <2>1 DEF Delivery, Counted
<1>8. Between'
  BY <1>1, <1>2, <1>5 DEF Between
<1>9. Waiting'
  BY <1>1, <1>3, <1>5, <1>6 DEF Delivery, Waiting, NoneOf, NoPromise
<1>10. Addressing'
  BY <1>1, <1>3 DEF Addressing
<1>11. Writing' /\ Reading' /\ Answering'
  BY <1>2, <1>5 DEF Writing, Reading, Answering
<1>12. Turning'
  BY <1>1, <1>2, <1>3, <1>5, <1>6 DEF Delivery, Turning, NoPromise
<1>13. SettledWhenTurned'
  BY <1>1, <1>3, <1>5, <1>6 DEF Delivery, SettledWhenTurned
<1> QED
  BY <1>3, <1>5, <1>6, <1>7, <1>8, <1>9, <1>10, <1>11, <1>12, <1>13 DEF Delivery

LEMMA SendByteDelivers ==
  ASSUME BusInv, Delivery, SendByte, UNCHANGED <<slave, wire, history>>
  PROVE  Delivery'
<1>1. /\ twStatus \in {"MT_SLA_ACK", "MT_DATA_ACK"} /\ twStatus' = "none"
      /\ twcr' = [twie |-> TRUE, does |-> "send"] /\ twcr.twie
      /\ mCurrentByte < Len(Current.tx)
      /\ twdr' = Current.tx[mCurrentByte + 1] /\ mCurrentByte' = mCurrentByte + 1
      /\ UNCHANGED <<slots, mNbrMsgs, mCurrentMsg, asked, status, received>>
  BY DEF SendByte, Interrupts, Command, messages
<1>2. phase = "writing" /\ mNbrMsgs > 0 /\ twcr'.does = "send" /\ sender = Turn
  BY <1>1, Transferred DEF BusInv, Sending
<1>3. InTurn' /\ Turn' = Turn /\ Turned' = Turned /\ Current' = Current
  BY <1>1, TurnStays
<1>4. /\ Current.tx = asked[Turn].tx /\ Turn \in DOMAIN asked /\ mCurrentByte \in Nat
      /\ Len(asked[Turn].tx) \in Nat
  <2>1. Current.tx = asked[Turn].tx /\ Turn \in DOMAIN asked
    BY <1>2, RingFacts
  <2>2. asked[Turn].tx \in Seq(Byte)
    BY <2>1, ModeFacts
  <2> QED
    BY <2>1, <2>2, Constants DEF BusInv, Queued
<1>5. /\ sender' = sender /\ senders' = senders /\ promised' = promised
      /\ disturbed' = disturbed /\ phase' = phase /\ addressed' = addressed /\ Answerable'
  BY MasterLeaves
<1>6. /\ Clean' = Clean /\ Delivering' /\ Done'
  <2>1. OnWire = mCurrentByte /\ OnWire' = mCurrentByte' - 1
    BY <1>1, <1>2, <1>3, <1>5 DEF OnWire
  <2>2. OnWire' = OnWire
    BY <1>1, <1>4, <2>1
  <2>3. UNCHANGED <<slave, wire, history, asked, mNbrMsgs>>
    BY <1>1
  <2>4. \A id \in DOMAIN asked :
          id # Turn => status'[id] = status[id] /\ received'[id] = received[id]
    BY <1>1
  <2> QED
    BY <2>2, <2>3, <2>4, GoesOnDelivers
<1>7. Counted'
  BY <1>1, <1>2, <1>3, <1>5 DEF Delivery, Counted
<1>8. Between' /\ Waiting' /\ Addressing' /\ Reading' /\ Answering'
  BY <1>2, <1>3, <1>5 DEF Between, Waiting, Addressing, Reading, Answering
<1>9. Clean => Current.mode \in {"write", "writeRestartRead"} /\ addressed
  BY <1>1, <1>2 DEF Delivery, Writing
<1>10. Writing'
  <2>1. /\ mCurrentByte' > 0 /\ mCurrentByte' <= Len(asked[Turn].tx)
        /\ twdr' = asked[Turn].tx[mCurrentByte']
    BY <1>1, <1>4
  <2> QED
    BY <1>1, <1>2, <1>3, <1>5, <1>6, <1>9, <2>1 DEF Writing
<1>11. Turning'
  BY <1>1, <1>2, <1>3, <1>5, <1>6 DEF Delivery, Turning, NoPromise
<1>12. SettledWhenTurned'
  BY <1>3, <1>6, <1>9 DEF SettledWhenTurned, Turned
<1> QED
  BY <1>3, <1>5, <1>6, <1>7, <1>8, <1>10, <1>11, <1>12 DEF Delivery

LEMMA TurnToReadingDelivers ==
  ASSUME BusInv, Delivery, TurnToReading, UNCHANGED <<slave, wire, history>>
  PROVE  Delivery'
<1>1. /\ twStatus \in {"MT_SLA_ACK", "MT_DATA_ACK"} /\ twStatus' = "none"
      /\ twcr' = [twie |-> TRUE, does |-> "start"] /\ twcr.twie
      /\ mCurrentByte = Len(Current.tx) /\ Current.mode = "writeRestartRead"
      /\ slots' = [slots EXCEPT ![mCurrentMsg].mode = "read"]
      /\ UNCHANGED <<mCurrentByte, mNbrMsgs, mCurrentMsg, asked, status, received>>
  BY DEF TurnToReading, Interrupts, Command, messages
<1>2. /\ phase = "writing" /\ mNbrMsgs > 0 /\ twcr'.does = "start" /\ twcr'.does # "send"
      /\ sender = Turn
  BY <1>1, Transferred DEF BusInv, Sending
<1>3. /\ mCurrentMsg \in 0 .. kMaxNbrMsgs - 1 /\ kMaxNbrMsgs \in Nat \ {0}
      /\ mNbrMsgs \in 0 .. kMaxNbrMsgs
      /\ slots \in [0 .. kMaxNbrMsgs - 1 ->
                      [address : Nat, mode : {"none", "write", "read", "writeRestartRead"},
                       tx : Seq(Byte), rx : Nat, id : Nat]]
  <2>1. kMaxNbrMsgs \in 1 .. 255
    BY Constants
  <2>2. kMaxNbrMsgs \in Nat \ {0}
    BY <2>1
  <2> QED
    BY <2>2 DEF BusInv, Queued
<1>4. /\ slots'[mCurrentMsg] = [slots[mCurrentMsg] EXCEPT !.mode = "read"]
      /\ \A s \in 0 .. kMaxNbrMsgs - 1 : s # mCurrentMsg => slots'[s] = slots[s]
  BY <1>1, <1>3
<1>5. Turn' = Turn /\ Current'.mode = "read"
  <2>1. Turn' = Turn
    BY <1>1 DEF Turn
  <2>2. Current' = [Current EXCEPT !.mode = "read"]
    BY <1>1, <1>4 DEF Current
  <2>3. Current \in [address : Nat, mode : {"none", "write", "read", "writeRestartRead"},
                     tx : Seq(Byte), rx : Nat, id : Nat]
    BY <1>3 DEF Current
  <2> QED
    BY <2>1, <2>2, <2>3
<1>6. /\ Turn \in DOMAIN asked /\ Current.tx = asked[Turn].tx /\ ~Turned
      /\ Mode(asked[Turn]) = "writeRestartRead"
  BY <1>1, <1>2, RingFacts DEF Turned
<1>7. Turned'
  BY <1>1, <1>5, <1>6 DEF Turned, Mode
<1>8. InTurn'
  <2>1. ASSUME NEW i \in 0 .. mNbrMsgs - 1
        PROVE  /\ Slot(i)'.id = Turn + i
               /\ Slot(i)'.address = asked[Turn + i].address
               /\ Slot(i)'.tx = asked[Turn + i].tx /\ Slot(i)'.rx = asked[Turn + i].rx
               /\ Slot(i)'.mode = Mode(asked[Turn + i]) \/ i = 0
    <3> DEFINE s == (mCurrentMsg + i) % kMaxNbrMsgs
    <3>1. s \in 0 .. kMaxNbrMsgs - 1 /\ (i # 0 => s # mCurrentMsg)
      <4>1. i \in 0 .. kMaxNbrMsgs /\ i < kMaxNbrMsgs
        BY <1>3
      <4>2. /\ s = IF mCurrentMsg + i < kMaxNbrMsgs THEN mCurrentMsg + i
                   ELSE mCurrentMsg + i - kMaxNbrMsgs
            /\ s \in 0 .. kMaxNbrMsgs - 1
        BY <1>3, <4>1, SlotIs
      <4> HIDE DEF s
      <4>3. CASE mCurrentMsg + i < kMaxNbrMsgs
        BY <1>3, <4>2, <4>3
      <4>4. CASE ~(mCurrentMsg + i < kMaxNbrMsgs)
        BY <1>3, <4>1, <4>2, <4>4
      <4> QED
        BY <4>3, <4>4
    <3>2. Slot(i) = slots[s] /\ Slot(i)' = slots'[s]
      BY <1>1 DEF Slot
    <3> HIDE DEF s
    <3>3. /\ slots'[s].id = slots[s].id /\ slots'[s].address = slots[s].address
          /\ slots'[s].tx = slots[s].tx /\ slots'[s].rx = slots[s].rx
          /\ i # 0 => slots'[s].mode = slots[s].mode
      <4>1. CASE s = mCurrentMsg
        <5>1. slots[s] \in [address : Nat, mode : {"none", "write", "read", "writeRestartRead"},
                            tx : Seq(Byte), rx : Nat, id : Nat]
          BY <1>3, <3>1
        <5>2. slots'[s] = [slots[s] EXCEPT !.mode = "read"] /\ i = 0
          BY <1>4, <3>1, <4>1
        <5> QED
          BY <5>1, <5>2
      <4>2. CASE s # mCurrentMsg
        BY <1>4, <3>1, <4>2
      <4> QED
        BY <4>1, <4>2
    <3>4. /\ Slot(i).id = Turn + i /\ Slot(i).address = asked[Turn + i].address
          /\ Slot(i).tx = asked[Turn + i].tx /\ Slot(i).rx = asked[Turn + i].rx
          /\ Slot(i).mode = Mode(asked[Turn + i]) \/ i = 0
      BY DEF Delivery, InTurn
    <3> QED
      BY <3>2, <3>3, <3>4
  <2> QED
    BY <1>1, <1>5, <1>7, <2>1 DEF InTurn, Mode
<1>9. /\ sender' = sender /\ senders' = senders /\ promised' = promised
      /\ disturbed' = disturbed /\ phase' = phase /\ addressed' = addressed /\ Answerable'
  BY MasterLeaves
<1>10. /\ Clean' = Clean /\ Delivering' /\ Done'
       /\ Settled(Turn) => Settled(Turn)'
  <2>1. OnWire' = OnWire
    BY <1>1, <1>2, <1>5, <1>9 DEF OnWire
  <2>2. UNCHANGED <<slave, wire, history, asked, mNbrMsgs>>
    BY <1>1
  <2>3. \A id \in DOMAIN asked :
          id # Turn => status'[id] = status[id] /\ received'[id] = received[id]
    BY <1>1
  <2> QED
    BY <2>1, <2>2, <2>3, GoesOnDelivers
<1>11. Counted'
  BY <1>1, <1>2, <1>5, <1>9 DEF Delivery, Counted
<1>12. Between' /\ Waiting' /\ Addressing' /\ Reading' /\ Answering'
  BY <1>2, <1>5, <1>9 DEF Between, Waiting, Addressing, Reading, Answering
<1>13. Clean => addressed /\ mCurrentByte <= Len(asked[Turn].tx)
  BY <1>1, <1>2 DEF Delivery, Writing
<1>14. Writing'
  BY <1>1, <1>2, <1>5, <1>7, <1>9, <1>10, <1>13 DEF Writing
<1>15. Turning'
  BY <1>1, <1>2, <1>5, <1>9, <1>10 DEF Delivery, Turning, NoPromise
<1>16. SettledWhenTurned'
  <2> SUFFICES ASSUME Clean
               PROVE  sender = Turn /\ mCurrentByte = Len(asked[Turn].tx) /\ Settled(Turn)
    BY <1>1, <1>5, <1>9, <1>10 DEF SettledWhenTurned
  <2>1. Turn \in DOMAIN asked \ disturbed /\ addressed
    BY <1>6, <1>13 DEF Clean
  <2>2. NoneOf(Turn)
    BY <1>2, <2>1 DEF Delivery, Delivering
  <2> QED
    BY <1>1, <1>2, <1>6, <2>1, <2>2 DEF Settled, Pending
<1> QED
  BY <1>8, <1>9, <1>10, <1>11, <1>12, <1>14, <1>15, <1>16 DEF Delivery

LEMMA ArbitrationLostDelivers ==
  ASSUME BusInv, Delivery, ArbitrationLost, UNCHANGED <<slave, wire, history>>
  PROVE  Delivery'
<1>1. /\ twStatus = "ARB_LOST" /\ twStatus' = "none" /\ twcr.twie
      /\ twcr' = [twie |-> TRUE, does |-> "start"]
      /\ UNCHANGED <<slots, mCurrentByte, mNbrMsgs, mCurrentMsg, asked, status, received>>
  BY DEF ArbitrationLost, Interrupts, Command, queue, messages
<1>2. twcr'.does = "start" /\ ~(Clean /\ sender = Turn)
  BY <1>1, ReportedOf
<1>3. InTurn' /\ Turn' = Turn /\ Turned' = Turned /\ Current' = Current
  BY <1>1, TurnStays
<1>4. /\ sender' = sender /\ senders' = senders /\ promised' = promised
      /\ disturbed' = disturbed /\ phase' = phase /\ Answerable'
  BY MasterLeaves
<1>5. /\ Clean' = Clean /\ Delivering' /\ Done'
      /\ Settled(Turn) => Settled(Turn)'
  <2>1. OnWire' = OnWire
    BY <1>1, <1>2, <1>3, <1>4 DEF OnWire
  <2>2. UNCHANGED <<slave, wire, history, asked, mNbrMsgs>>
    BY <1>1
  <2>3. \A id \in DOMAIN asked :
          id # Turn => status'[id] = status[id] /\ received'[id] = received[id]
    BY <1>1
  <2> QED
    BY <2>1, <2>2, <2>3, GoesOnDelivers
<1>6. Counted'
  BY <1>1, <1>3, <1>4 DEF Delivery, Counted
<1>7. Between' /\ Addressing'
  BY <1>1, <1>2 DEF Between, Addressing
<1>8. Waiting'
  BY <1>1, <1>3, <1>4, <1>5 DEF Delivery, Waiting, NoneOf, NoPromise
<1>9. Writing' /\ Turning' /\ Reading' /\ Answering'
  BY <1>2, <1>3, <1>4, <1>5 DEF Writing, Turning, Reading, Answering
<1>10. SettledWhenTurned'
  BY <1>1, <1>3, <1>4, <1>5 DEF Delivery, SettledWhenTurned
<1> QED
  BY <1>3, <1>4, <1>5, <1>6, <1>7, <1>8, <1>9, <1>10 DEF Delivery

LEMMA ReadFirstDelivers ==
  ASSUME BusInv, Delivery, ReadFirst, UNCHANGED <<slave, wire, history>>
  PROVE  Delivery'
<1> DEFINE does == IF Current.rx > 1 THEN "ack" ELSE "nack"
<1>1. /\ twStatus = "MR_SLA_ACK" /\ twStatus' = "none" /\ twcr.twie
      /\ twcr' = [twie |-> does # "stop", does |-> does]
      /\ UNCHANGED <<slots, mCurrentByte, mNbrMsgs, mCurrentMsg, asked, status, received>>
  BY DEF ReadFirst, Interrupts, Command, queue, messages
<1>2. /\ phase = "reading" /\ mNbrMsgs > 0 /\ sender = Turn /\ twcr'.does = does
      /\ twcr'.does # "send"
  BY <1>1, Transferred DEF BusInv, Sending
<1> HIDE DEF does
<1>3. InTurn' /\ Turn' = Turn /\ Turned' = Turned /\ Current' = Current
  BY <1>1, TurnStays
<1>4. /\ sender' = sender /\ senders' = senders /\ promised' = promised
      /\ disturbed' = disturbed /\ phase' = phase /\ Answerable'
      /\ slaveStatus' = slaveStatus /\ gI2cBufferIndex' = gI2cBufferIndex
      /\ slaveTwdr' = slaveTwdr /\ answer' = answer /\ torn' = torn
  BY MasterLeaves
<1>5. /\ Clean' = Clean /\ Delivering' /\ Done'
      /\ Settled(Turn) => Settled(Turn)'
  <2>1. UNCHANGED <<slave, wire, history, asked, mNbrMsgs>> /\ phase # "writing"
    BY <1>1, <1>2
  <2>2. \A id \in DOMAIN asked :
          id # Turn => status'[id] = status[id] /\ received'[id] = received[id]
    BY <1>1
  <2> QED
    BY <2>1, <2>2, GoesOnDelivers
<1>6. Counted'
  BY <1>1, <1>3, <1>4 DEF Delivery, Counted
<1>7. Between' /\ Waiting' /\ Addressing' /\ Writing'
  BY <1>2, <1>3, <1>4 DEF Between, Waiting, Addressing, Writing
<1>8. Turning'
  BY <1>1, <1>2, <1>3, <1>4, <1>5 DEF Delivery, Turning
<1>9. SettledWhenTurned'
  BY <1>1, <1>3, <1>4, <1>5 DEF Delivery, SettledWhenTurned
<1>10. Reading'
  <2> SUFFICES ASSUME Clean
               PROVE  \/ does = "ack" /\ Len(received[Turn]) + 1 < asked[Turn].rx
                      \/ does = "nack" /\ Len(received[Turn]) + 1 = asked[Turn].rx
    BY <1>1, <1>2, <1>3, <1>4, <1>5 DEF Delivery, Reading
  <2>1. Current.mode = "read" /\ received[Turn] = <<>>
    BY <1>1, <1>2 DEF Delivery, Reading
  <2>2. /\ Turn \in DOMAIN asked /\ Current.rx = asked[Turn].rx
        /\ Current.mode = Mode(asked[Turn]) \/ Turned
    BY <1>2, RingFacts
  <2>3. Mode(asked[Turn]) # "write"
    BY <2>1, <2>2 DEF Turned
  <2>4. asked[Turn].rx \in Nat /\ asked[Turn].rx > 0
    BY <2>2, <2>3, ModeFacts
  <2>5. Len(received[Turn]) = 0
    BY <2>1
  <2> QED
    BY <2>2, <2>4, <2>5 DEF does
<1>11. Answering'
  <2>1. Given' = Given
    BY <1>1, <1>3 DEF Given
  <2> QED
    BY <1>1, <1>2, <1>3, <1>4, <1>5, <2>1 DEF Delivery, Answering
<1> QED
  BY <1>3, <1>4, <1>5, <1>6, <1>7, <1>8, <1>9, <1>10, <1>11 DEF Delivery

\* What the interrupt routine reads into the buffer of the current message.
LEMMA ReceiveAdds ==
  ASSUME BusInv, Delivery, Receive, asked' = asked, mNbrMsgs > 0,
         twStatus \in {"MR_DATA_ACK", "MR_DATA_NACK"}
  PROVE  /\ received' \in Seq(Seq(Byte)) /\ Len(received') = Len(asked)
         /\ \A id \in DOMAIN asked : id # Turn => received'[id] = received[id]
         /\ received[Turn] \in Seq(Byte) /\ received'[Turn] = Append(received[Turn], twdr)
         /\ Len(received[Turn]) \in Nat /\ Len(received'[Turn]) = Len(received[Turn]) + 1
         /\ \A j \in 1 .. Len(received[Turn]) : received'[Turn][j] = received[Turn][j]
         /\ received'[Turn][Len(received[Turn]) + 1] = twdr
<1>1. Current.id = Turn /\ Turn \in 1 .. Len(asked) /\ DOMAIN asked = 1 .. Len(asked)
  BY RingFacts
<1>2. /\ received \in Seq(Seq(Byte)) /\ Len(received) = Len(asked) /\ twdr \in Byte
  BY DEF Delivery, Counted
<1>3. received[Turn] \in Seq(Byte) /\ DOMAIN received = 1 .. Len(asked)
  BY <1>1, <1>2
<1>4. received' = [received EXCEPT ![Turn] = Append(received[Turn], twdr)]
  BY <1>1 DEF Receive
<1>5. Append(received[Turn], twdr) \in Seq(Byte)
  BY <1>2, <1>3
<1>6. received' \in Seq(Seq(Byte)) /\ Len(received') = Len(asked)
  BY <1>2, <1>4, <1>5, UpdateSeq
<1>7. /\ received'[Turn] = Append(received[Turn], twdr)
      /\ \A id \in DOMAIN asked : id # Turn => received'[id] = received[id]
  BY <1>1, <1>3, <1>4
<1>8. /\ Len(received[Turn]) \in Nat /\ Len(received'[Turn]) = Len(received[Turn]) + 1
      /\ \A j \in 1 .. Len(received[Turn]) : received'[Turn][j] = received[Turn][j]
      /\ received'[Turn][Len(received[Turn]) + 1] = twdr
  BY <1>2, <1>3, <1>7
<1> QED
  BY <1>3, <1>6, <1>7, <1>8

LEMMA ReadByteDelivers ==
  ASSUME BusInv, Delivery, ReadByte, UNCHANGED <<slave, wire, history>>
  PROVE  Delivery'
<1> DEFINE does == IF Len(received[Current.id]) + 1 < Current.rx - 1 THEN "ack" ELSE "nack"
           n == Len(received[Turn])
<1>1. /\ twStatus = "MR_DATA_ACK" /\ twStatus' = "none" /\ twcr.twie /\ Receive
      /\ twcr' = [twie |-> does # "stop", does |-> does]
      /\ UNCHANGED <<slots, mCurrentByte, mNbrMsgs, mCurrentMsg, asked, status>>
  BY DEF ReadByte, Interrupts, Command, queue
<1>2. /\ phase = "reading" /\ mNbrMsgs > 0 /\ sender = Turn /\ twcr'.does = does
      /\ twcr'.does # "send"
  BY <1>1, Transferred DEF BusInv, Sending
<1> HIDE DEF does
<1>3. InTurn' /\ Turn' = Turn /\ Turned' = Turned /\ Current' = Current
  BY <1>1, TurnStays
<1>4. /\ sender' = sender /\ senders' = senders /\ promised' = promised
      /\ disturbed' = disturbed /\ phase' = phase /\ Answerable'
      /\ slaveStatus' = slaveStatus /\ gI2cBufferIndex' = gI2cBufferIndex
      /\ slaveTwdr' = slaveTwdr /\ answer' = answer /\ torn' = torn
  BY MasterLeaves
<1>5. /\ received' \in Seq(Seq(Byte)) /\ Len(received') = Len(asked)
      /\ \A id \in DOMAIN asked : id # Turn => received'[id] = received[id]
      /\ n \in Nat /\ Len(received'[Turn]) = n + 1
      /\ \A j \in 1 .. n : received'[Turn][j] = received[Turn][j]
      /\ received'[Turn][n + 1] = twdr
  BY <1>1, <1>2, ReceiveAdds
<1>6. /\ Clean' = Clean /\ Delivering' /\ Done'
      /\ Settled(Turn) => Settled(Turn)'
  <2>1. UNCHANGED <<slave, wire, history, asked, mNbrMsgs>> /\ phase # "writing"
    BY <1>1, <1>2
  <2>2. \A id \in DOMAIN asked :
          id # Turn => status'[id] = status[id] /\ received'[id] = received[id]
    BY <1>1, <1>5
  <2> QED
    BY <2>1, <2>2, GoesOnDelivers
<1>7. Counted'
  <2>1. ASSUME NEW id \in DOMAIN asked, id > Turn PROVE received'[id] = <<>>
    <3>1. id # Turn
      BY <2>1, RingFacts
    <3>2. received[id] = <<>>
      BY <2>1 DEF Delivery, Counted
    <3> QED
      BY <1>5, <3>1, <3>2
  <2> QED
    BY <1>1, <1>3, <1>4, <1>5, <2>1 DEF Delivery, Counted
<1>8. Between' /\ Waiting' /\ Addressing' /\ Writing'
  BY <1>2, <1>3, <1>4 DEF Between, Waiting, Addressing, Writing
<1>9. Turning'
  BY <1>2, <1>4 DEF Turning
<1>10. SettledWhenTurned'
  BY <1>1, <1>3, <1>4, <1>6 DEF Delivery, SettledWhenTurned
<1>11. Reading'
  <2> SUFFICES ASSUME Clean
               PROVE  \/ does = "ack" /\ n + 1 + 1 < asked[Turn].rx
                      \/ does = "nack" /\ n + 1 + 1 = asked[Turn].rx
    BY <1>1, <1>2, <1>3, <1>4, <1>5, <1>6 DEF Delivery, Reading
  <2>1. n + 1 < asked[Turn].rx
    BY <1>1, <1>2 DEF Delivery, Reading
  <2>2. Turn \in DOMAIN asked /\ Current.rx = asked[Turn].rx /\ Current.id = Turn
    BY <1>2, RingFacts
  <2>3. asked[Turn].rx \in Nat
    BY <2>2, ModeFacts
  <2>4. does = IF n + 1 < asked[Turn].rx - 1 THEN "ack" ELSE "nack"
    BY <2>2 DEF does
  <2> HIDE DEF n
  <2>5. CASE n + 1 < asked[Turn].rx - 1
    BY <1>5, <2>3, <2>4, <2>5
  <2>6. CASE ~(n + 1 < asked[Turn].rx - 1)
    <3>1. n + 1 + 1 = asked[Turn].rx
      BY <1>5, <2>1, <2>3, <2>6
    <3> QED
      BY <2>4, <2>6, <3>1
  <2> QED
    BY <2>5, <2>6
<1>12. Answering'
  <2>1. Given = n + 1 /\ Given' = n + 1
    BY <1>1, <1>3, <1>5 DEF Given
  <2> SUFFICES ASSUME Clean, NEW promise \in promised, promise[1] = Turn
               PROVE  /\ promise[2] = answer /\ ~torn
                      /\ \A j \in 1 .. n + 1 : received'[Turn][j] = Filled(answer, j)
                      /\ slaveStatus # "ST_DATA_NACK"
                      /\ slaveStatus = "ST_SLA_ACK" => Given = 0
                      /\ slaveStatus = "ST_DATA_ACK" => gI2cBufferIndex = Less(Given, Len(answer))
                      /\ slaveStatus = "none" => /\ gI2cBufferIndex = Less(Given + 1, Len(answer))
                                                 /\ slaveTwdr = Filled(answer, Given + 1)
    BY <1>1, <1>3, <1>4, <1>5, <1>6, <2>1 DEF Answering
  <2>2. /\ promise[2] = answer /\ ~torn
        /\ \A j \in 1 .. n : received[Turn][j] = Filled(answer, j)
        /\ twdr = Filled(answer, Given)
        /\ slaveStatus # "ST_DATA_NACK"
        /\ slaveStatus = "ST_SLA_ACK" => Given = 0
        /\ slaveStatus = "ST_DATA_ACK" => gI2cBufferIndex = Less(Given, Len(answer))
        /\ slaveStatus = "none" => /\ gI2cBufferIndex = Less(Given + 1, Len(answer))
                                   /\ slaveTwdr = Filled(answer, Given + 1)
    BY <1>1, <1>2 DEF Delivery, Answering
  <2> HIDE DEF n
  <2>3. ASSUME NEW j \in 1 .. n + 1 PROVE received'[Turn][j] = Filled(answer, j)
    <3>1. CASE j = n + 1
      BY <1>5, <2>1, <2>2, <3>1
    <3>2. CASE j # n + 1
      <4>1. j \in 1 .. n
        BY <1>5, <3>2
      <4> QED
        BY <1>5, <2>2, <4>1
    <3> QED
      BY <3>1, <3>2
  <2> QED
    BY <2>2, <2>3
<1> QED
  BY <1>3, <1>4, <1>6, <1>7, <1>8, <1>9, <1>10, <1>11, <1>12 DEF Delivery

LEMMA FirstSlot ==
  ASSUME NEW size \in Nat \ {0}, NEW first \in 0 .. size - 1
  PROVE  (first + 0) % size = first
  OBVIOUS

\* The message is done: the next one is the current one, if there is one.
LEMMA TurnPasses ==
  ASSUME BusInv, Delivery, twStatus # "none", NEW result,
         NEW with \in {"start", "stopAndStart"}, Finish(result, with)
  PROVE  /\ mNbrMsgs > 0 /\ mNbrMsgs' = mNbrMsgs - 1 /\ mCurrentByte' = 0 /\ asked' = asked
         /\ twStatus' = "none" /\ twcr'.does \notin {"send", "ack", "nack"}
         /\ status' = [status EXCEPT ![Turn] = result]
         /\ Turn' = Turn + 1 /\ InTurn'
         /\ mNbrMsgs' > 0 => Current'.mode = Mode(asked[Turn + 1])
<1>1. /\ mNbrMsgs \in 1 .. 255 /\ mNbrMsgs <= kMaxNbrMsgs
  BY ReportIsOfEarlier
<1>2. Current.id = Turn /\ Turn \in 1 .. Len(asked) /\ Len(asked) \in Nat
  <2>1. mNbrMsgs > 0
    BY <1>1
  <2> QED
    BY <2>1, RingFacts
<1>3. /\ mNbrMsgs' = mNbrMsgs - 1 /\ mCurrentByte' = 0 /\ slots' = slots /\ asked' = asked
      /\ mCurrentMsg' = IF mNbrMsgs # 1 THEN (mCurrentMsg + 1) % kMaxNbrMsgs ELSE mCurrentMsg
      /\ status' = [status EXCEPT ![Turn] = result]
  BY <1>1, <1>2, OneLess DEF Finish, DoneWithCurrentMessage
<1>4. twStatus' = "none" /\ twcr'.does \notin {"send", "ack", "nack"}
  <2>1. twStatus' = "none" /\ \E does \in {"start", "stopAndStart", "stop"} :
                               twcr' = [twie |-> does # "stop", does |-> does]
    BY DEF Finish, Command
  <2>2. PICK does \in {"start", "stopAndStart", "stop"} :
          twcr' = [twie |-> does # "stop", does |-> does]
    BY <2>1
  <2>3. twcr'.does = does
    BY <2>2
  <2> QED
    BY <2>1, <2>3
<1>5. Turn' = Turn + 1
  BY <1>1, <1>2, <1>3 DEF Turn
<1>6. ASSUME NEW i \in 0 .. mNbrMsgs' - 1
      PROVE  /\ Slot(i)'.id = Turn' + i
             /\ Slot(i)'.address = asked[Turn' + i].address
             /\ Slot(i)'.tx = asked[Turn' + i].tx /\ Slot(i)'.rx = asked[Turn' + i].rx
             /\ Slot(i)'.mode = Mode(asked[Turn' + i])
  <2>1. /\ mCurrentMsg \in 0 .. kMaxNbrMsgs - 1 /\ kMaxNbrMsgs \in 1 .. 255
    BY Constants DEF BusInv, Queued
  <2>2. /\ i \in Nat /\ i + 1 \in 0 .. mNbrMsgs - 1 /\ i + 1 < kMaxNbrMsgs /\ mNbrMsgs # 1
        /\ kMaxNbrMsgs \in Nat \ {0} /\ i + 1 # 0
    BY <1>1, <1>3, <2>1
  <2>3. (mCurrentMsg' + i) % kMaxNbrMsgs = (mCurrentMsg + (i + 1)) % kMaxNbrMsgs
    <3>1. /\ 1 \in 0 .. kMaxNbrMsgs /\ i + 1 \in 0 .. kMaxNbrMsgs /\ i \in 0 .. kMaxNbrMsgs
      BY <2>1, <2>2
    <3>2. /\ mCurrentMsg' = IF mCurrentMsg + 1 < kMaxNbrMsgs THEN mCurrentMsg + 1
                            ELSE mCurrentMsg + 1 - kMaxNbrMsgs
          /\ mCurrentMsg' \in 0 .. kMaxNbrMsgs - 1
      BY <1>3, <2>1, <2>2, <3>1, SlotIs
    <3>3. (mCurrentMsg + (i + 1)) % kMaxNbrMsgs =
            IF mCurrentMsg + (i + 1) < kMaxNbrMsgs THEN mCurrentMsg + (i + 1)
            ELSE mCurrentMsg + (i + 1) - kMaxNbrMsgs
      BY <2>1, <2>2, <3>1, SlotIs
    <3>4. (mCurrentMsg' + i) % kMaxNbrMsgs =
            IF mCurrentMsg' + i < kMaxNbrMsgs THEN mCurrentMsg' + i
            ELSE mCurrentMsg' + i - kMaxNbrMsgs
      BY <2>2, <3>1, <3>2, SlotIs
    <3>5. CASE mCurrentMsg + 1 < kMaxNbrMsgs
      <4>1. mCurrentMsg' + i = mCurrentMsg + (i + 1)
        BY <2>1, <2>2, <3>2, <3>5
      <4> QED
        BY <3>3, <3>4, <4>1
    <3>6. CASE ~(mCurrentMsg + 1 < kMaxNbrMsgs)
      <4>1. mCurrentMsg' + i = i /\ mCurrentMsg + (i + 1) = kMaxNbrMsgs + i
        BY <2>1, <2>2, <3>2, <3>6
      <4> QED
        BY <2>1, <2>2, <3>3, <3>4, <4>1
    <3> QED
      BY <3>5, <3>6
  <2>4. Slot(i)' = Slot(i + 1)
    BY <1>3, <2>3 DEF Slot
  <2>5. Turn' + i = Turn + (i + 1)
    BY <1>2, <1>5, <2>2
  <2>6. /\ Slot(i + 1).id = Turn + (i + 1) /\ Slot(i + 1).address = asked[Turn + (i + 1)].address
        /\ Slot(i + 1).tx = asked[Turn + (i + 1)].tx /\ Slot(i + 1).rx = asked[Turn + (i + 1)].rx
        /\ Slot(i + 1).mode = Mode(asked[Turn + (i + 1)])
    BY <2>2 DEF Delivery, InTurn
  <2> QED
    BY <2>4, <2>5, <2>6
<1>7. InTurn'
  BY <1>3, <1>6 DEF InTurn, Mode
<1>8. ASSUME mNbrMsgs' > 0 PROVE Current'.mode = Mode(asked[Turn + 1])
  <2>1. 0 \in 0 .. mNbrMsgs' - 1 /\ mNbrMsgs # 1
    BY <1>1, <1>3, <1>8
  <2>2. Slot(0)'.mode = Mode(asked[Turn' + 0])
    BY <1>6, <2>1
  <2>3. mCurrentMsg' \in 0 .. kMaxNbrMsgs - 1 /\ kMaxNbrMsgs \in 1 .. 255
    <3>1. kMaxNbrMsgs \in 1 .. 255 /\ mCurrentMsg \in 0 .. kMaxNbrMsgs - 1
      BY Constants DEF BusInv, Queued
    <3>2. 1 \in 0 .. kMaxNbrMsgs /\ kMaxNbrMsgs \in Nat \ {0}
      BY <3>1
    <3>3. (mCurrentMsg + 1) % kMaxNbrMsgs \in 0 .. kMaxNbrMsgs - 1
      BY <3>1, <3>2, SlotIs
    <3> QED
      BY <1>3, <2>1, <3>1, <3>3
  <2>4. (mCurrentMsg' + 0) % kMaxNbrMsgs = mCurrentMsg'
    <3>1. 0 \in 0 .. kMaxNbrMsgs /\ kMaxNbrMsgs \in Nat \ {0}
      BY <2>3
    <3> QED
      BY <2>3, <3>1, FirstSlot
  <2>5. Slot(0)' = Current'
    BY <1>3, <2>4 DEF Slot, Current
  <2>6. Turn' + 0 = Turn + 1
    BY <1>2, <1>5
  <2> QED
    BY <2>2, <2>5, <2>6
<1> QED
  BY <1>1, <1>3, <1>4, <1>5, <1>7, <1>8

LEMMA FinishDelivers ==
  ASSUME BusInv, Delivery, twStatus # "none", NEW result,
         NEW with \in {"start", "stopAndStart"}, Finish(result, with),
         UNCHANGED <<slave, wire, history>>,
         received' \in Seq(Seq(Byte)), Len(received') = Len(asked),
         \A id \in DOMAIN asked : id # Turn => received'[id] = received[id],
         Clean /\ sender = Turn /\ addressed /\ phase = "writing" => OnWire = Len(asked[Turn].tx),
         Clean /\ result = "ok" =>
           /\ asked[Turn].tx # <<>> => Settled(Turn)
           /\ \A promise \in promised :
                promise[1] = Turn => received'[Turn] = Padded(promise[2], asked[Turn].rx)
  PROVE  Delivery'
<1>1. /\ mNbrMsgs > 0 /\ mNbrMsgs' = mNbrMsgs - 1 /\ mCurrentByte' = 0 /\ asked' = asked
      /\ twStatus' = "none" /\ twcr'.does \notin {"send", "ack", "nack"}
      /\ status' = [status EXCEPT ![Turn] = result]
      /\ Turn' = Turn + 1 /\ InTurn'
      /\ mNbrMsgs' > 0 => Current'.mode = Mode(asked[Turn + 1])
  BY TurnPasses
<1>2. /\ sender' = sender /\ senders' = senders /\ promised' = promised
      /\ disturbed' = disturbed /\ phase' = phase /\ addressed' = addressed
      /\ slaveStatus' = slaveStatus /\ slaveBuffer' = slaveBuffer
      /\ gI2cBufferIndex' = gI2cBufferIndex /\ slaveTwdr' = slaveTwdr
      /\ processed' = processed /\ Answerable' /\ Pending' = Pending
  BY MasterLeaves
<1>3. /\ Len(asked) \in Nat /\ DOMAIN asked = 1 .. Len(asked) /\ mNbrMsgs \in Nat
      /\ Turn \in 1 .. Len(asked) /\ Turn + mNbrMsgs = Len(asked) + 1
  BY <1>1, RingFacts
<1>4. /\ sender \in 0 .. Len(asked) /\ sender <= Turn
      /\ \A k \in DOMAIN senders : senders[k] <= Len(asked) /\ senders[k] <= Turn
      /\ \A promise \in promised : promise[1] \in 1 .. Len(asked) /\ promise[1] <= Turn
  BY DEF Delivery, Counted
<1>5. /\ \A k \in DOMAIN senders : senders[k] \in Nat
  BY DEF BusInv, Processing
<1>6. sender # Turn + 1 /\ sender <= Turn + 1
  BY <1>3, <1>4
<1>7. DOMAIN status = DOMAIN asked
  BY DEF BusInv, Queued
<1>8. Counted'
  <2>1. mNbrMsgs' <= Len(asked)
    BY <1>1, <1>3
  <2>2. \A k \in DOMAIN senders : senders[k] <= Turn + 1
    BY <1>3, <1>4, <1>5
  <2>3. \A promise \in promised : promise[1] <= Turn + 1
    BY <1>3, <1>4
  <2>4. ASSUME NEW id \in DOMAIN asked, id >= Turn + 1
        PROVE  status'[id] \in {"notStarted", "inProgress"}
    <3>1. id # Turn /\ id >= Turn
      BY <1>3, <2>4
    <3> QED
      BY <1>1, <1>7, <3>1 DEF Delivery, Counted
  <2>5. ASSUME NEW id \in DOMAIN asked, id > Turn + 1
        PROVE  received'[id] = <<>>
    <3>1. id # Turn /\ id > Turn
      BY <1>3, <2>5
    <3> QED
      BY <3>1 DEF Delivery, Counted
  <2> QED
    BY <1>1, <1>2, <1>4, <1>6, <2>1, <2>2, <2>3, <2>4, <2>5 DEF Counted
<1>9. Delivering'
  <2> SUFFICES ASSUME sender \in DOMAIN asked \ disturbed
               PROVE  /\ slaveStatus = "SR_STOP" =>
                           /\ NoneOf(sender) /\ gI2cBufferIndex = Len(asked[sender].tx)
                           /\ Arrived(asked[sender].tx, Len(asked[sender].tx))
                      /\ addressed /\ phase = "writing" =>
                           /\ NoneOf(sender)
                           /\ slaveStatus \in {"SR_SLA_ACK", "SR_GCALL_ACK"} => OnWire' = 0
                           /\ slaveStatus = "none" =>
                                gI2cBufferIndex = OnWire' /\ Arrived(asked[sender].tx, OnWire')
                           /\ slaveStatus = "SR_DATA_ACK" =>
                                /\ gI2cBufferIndex + 1 = OnWire'
                                /\ Arrived(asked[sender].tx, gI2cBufferIndex)
                                /\ slaveTwdr = asked[sender].tx[OnWire']
    BY <1>1, <1>2 DEF Delivering, NoneOf, Arrived
  <2>1. addressed /\ phase = "writing" => OnWire' = OnWire
    <3>1. OnWire' = Len(asked[sender].tx)
      BY <1>1, <1>2, <1>6 DEF OnWire
    <3>2. sender # Turn => OnWire = Len(asked[sender].tx)
      BY DEF OnWire
    <3>3. sender = Turn => Clean
      BY <1>1 DEF Clean
    <3> QED
      BY <3>1, <3>2, <3>3
  <2> QED
    BY <2>1 DEF Delivery, Delivering
<1>10. Between' /\ Addressing'
  BY <1>1 DEF Between, Addressing
<1>11. Waiting'
  <2> SUFFICES ASSUME mNbrMsgs' > 0
               PROVE  /\ \A k \in DOMAIN senders : senders[k] # Turn + 1
                      /\ \A promise \in promised : promise[1] # Turn + 1
                      /\ received'[Turn + 1] = <<>>
    BY <1>1, <1>2 DEF Waiting, Clean, NoneOf, NoPromise, Mode
  <2>1. \A k \in DOMAIN senders : senders[k] # Turn + 1
    BY <1>3, <1>4, <1>5
  <2>2. \A promise \in promised : promise[1] # Turn + 1
    BY <1>3, <1>4
  <2>3. Turn + 1 \in DOMAIN asked /\ Turn + 1 > Turn /\ Turn + 1 # Turn
    BY <1>1, <1>3
  <2>4. received'[Turn + 1] = received[Turn + 1] /\ received[Turn + 1] = <<>>
    BY <2>3 DEF Delivery, Counted
  <2> QED
    BY <2>1, <2>2, <2>4
<1>12. Writing' /\ Turning' /\ Reading' /\ Answering'
  BY <1>1, <1>2, <1>6 DEF Writing, Turning, Reading, Answering
<1>13. SettledWhenTurned'
  BY <1>1 DEF SettledWhenTurned, Turned, Clean, Mode
<1>14. ASSUME NEW id, Settled(id) PROVE Settled(id)'
  BY <1>1, <1>2, <1>14, SettledStays
<1>15. Done'
  <2> SUFFICES ASSUME NEW id \in DOMAIN asked \ disturbed, id < Turn + 1, status'[id] = "ok"
               PROVE  /\ asked[id].tx # <<>> => Settled(id)'
                      /\ \A promise \in promised :
                           promise[1] = id => received'[id] = Padded(promise[2], asked[id].rx)
    BY <1>1, <1>2 DEF Done, Padded
  <2>1. CASE id = Turn
    <3>1. Clean /\ result = "ok"
      BY <1>1, <1>7, <2>1 DEF Clean
    <3> QED
      BY <1>14, <2>1, <3>1
  <2>2. CASE id # Turn
    <3>1. id < Turn /\ status[id] = "ok" /\ received'[id] = received[id]
      BY <1>1, <1>3, <2>2
    <3> QED
      BY <1>14, <3>1 DEF Delivery, Done
  <2> QED
    BY <2>1, <2>2
<1> QED
  BY <1>1, <1>2, <1>8, <1>9, <1>10, <1>11, <1>12, <1>13, <1>15 DEF Delivery

LEMMA WriteCompletedDelivers ==
  ASSUME BusInv, Delivery, WriteCompleted, UNCHANGED <<slave, wire, history>>
  PROVE  Delivery'
<1>1. /\ twStatus \in {"MT_SLA_ACK", "MT_DATA_ACK"} /\ twcr.twie /\ mCurrentByte = Len(Current.tx)
      /\ Finish("ok", "start") /\ received' = received
  BY DEF WriteCompleted, Interrupts
<1>2. phase = "writing" /\ mNbrMsgs > 0 /\ sender = Turn
  BY <1>1, Transferred DEF BusInv, Sending
<1>3. Turn \in DOMAIN asked /\ Current.tx = asked[Turn].tx
  BY <1>2, RingFacts
<1>4. sender = Turn => OnWire = Len(asked[Turn].tx)
  BY <1>1, <1>3 DEF OnWire
<1>5. ASSUME Clean PROVE Settled(Turn) /\ NoPromise(Turn)
  <2>1. addressed
    BY <1>1, <1>2, <1>5 DEF Delivery, Writing
  <2>2. NoneOf(Turn)
    BY <1>2, <1>3, <1>5, <2>1 DEF Delivery, Delivering, Clean
  <2>3. NoPromise(Turn)
    BY <1>2, <1>5 DEF Delivery, Turning
  <2> QED
    BY <1>2, <2>1, <2>2, <2>3 DEF Settled, Pending
<1>6. /\ received' \in Seq(Seq(Byte)) /\ Len(received') = Len(asked)
      /\ \A id \in DOMAIN asked : id # Turn => received'[id] = received[id]
  BY <1>1 DEF Delivery, Counted
<1>7. Clean /\ "ok" = "ok" =>
        /\ asked[Turn].tx # <<>> => Settled(Turn)
        /\ \A promise \in promised :
             promise[1] = Turn => received'[Turn] = Padded(promise[2], asked[Turn].rx)
  BY <1>5 DEF NoPromise
<1> QED
  BY <1>1, <1>4, <1>6, <1>7, FinishDelivers

LEMMA ReadCompletedDelivers ==
  ASSUME BusInv, Delivery, ReadCompleted, UNCHANGED <<slave, wire, history>>
  PROVE  Delivery'
<1> DEFINE n == Len(received[Turn])
<1>1. /\ twStatus = "MR_DATA_NACK" /\ twcr.twie /\ Receive /\ Finish("ok", "start")
  BY DEF ReadCompleted, Interrupts
<1>2. mNbrMsgs > 0 /\ sender = Turn /\ asked' = asked
  BY <1>1, Transferred DEF Finish
<1>3. /\ received' \in Seq(Seq(Byte)) /\ Len(received') = Len(asked)
      /\ \A id \in DOMAIN asked : id # Turn => received'[id] = received[id]
      /\ received'[Turn] = Append(received[Turn], twdr) /\ received[Turn] \in Seq(Byte)
      /\ n \in Nat /\ Len(received'[Turn]) = n + 1
      /\ \A j \in 1 .. n : received'[Turn][j] = received[Turn][j]
      /\ received'[Turn][n + 1] = twdr
  BY <1>1, <1>2, ReceiveAdds
<1>4. /\ Turn \in DOMAIN asked
      /\ Current.mode = Mode(asked[Turn]) \/ Turned
  BY <1>2, RingFacts
<1>5. ASSUME Clean PROVE phase = "reading" /\ Current.mode = "read" /\ n + 1 = asked[Turn].rx
  <2>1. phase = "reading"
    BY <1>1, <1>2, <1>5, ReportedOf
  <2> QED
    BY <1>1, <1>2, <1>5, <2>1 DEF Delivery, Reading
<1>6. ASSUME Clean, asked[Turn].tx # <<>> PROVE Settled(Turn)
  <2>1. Turned
    BY <1>4, <1>5, <1>6, ModeFacts
  <2> QED
    BY <1>6, <2>1 DEF Delivery, SettledWhenTurned
<1>7. ASSUME Clean, NEW promise \in promised, promise[1] = Turn
      PROVE  received'[Turn] = Padded(promise[2], asked[Turn].rx)
  <2>1. /\ promise[2] = answer
        /\ \A j \in 1 .. n : received[Turn][j] = Filled(answer, j)
        /\ twdr = Filled(answer, Given)
    BY <1>1, <1>2, <1>5, <1>7 DEF Delivery, Answering
  <2>2. Given = n + 1
    BY <1>1 DEF Given
  <2>3. received'[Turn] \in Seq(Byte)
    <3>1. Turn \in DOMAIN received'
      BY <1>3, <1>4
    <3> QED
      BY <1>3, <3>1
  <2>4. received'[Turn] = [j \in 1 .. n + 1 |-> received'[Turn][j]]
    BY <1>3, <2>3
  <2> HIDE DEF n
  <2>5. ASSUME NEW j \in 1 .. n + 1 PROVE received'[Turn][j] = Filled(answer, j)
    <3>1. CASE j = n + 1
      BY <1>3, <2>1, <2>2, <3>1
    <3>2. CASE j # n + 1
      <4>1. j \in 1 .. n
        BY <1>3, <3>2
      <4> QED
        BY <1>3, <2>1, <4>1
    <3> QED
      BY <3>1, <3>2
  <2>6. [j \in 1 .. n + 1 |-> received'[Turn][j]] = [j \in 1 .. n + 1 |-> Filled(answer, j)]
    BY <2>5
  <2>7. Padded(promise[2], asked[Turn].rx) = [j \in 1 .. n + 1 |-> Filled(answer, j)]
    BY <1>5, <1>7, <2>1 DEF Padded, Filled
  <2> QED
    BY <2>4, <2>6, <2>7
<1>8. ~(Clean /\ phase = "writing")
  BY <1>5
<1> QED
  BY <1>1, <1>3, <1>6, <1>7, <1>8, FinishDelivers

LEMMA FailedDelivers ==
  ASSUME BusInv, Delivery, Failed, UNCHANGED <<slave, wire, history>>
  PROVE  Delivery'
<1>1. /\ twStatus \in {"MT_SLA_NACK", "MR_SLA_NACK", "MT_DATA_NACK", "BUS_ERROR"}
      /\ Finish("error", "stopAndStart") /\ received' = received
  BY DEF Failed, Interrupts
<1>2. Clean /\ sender = Turn => ~(addressed /\ phase = "writing")
  <2> SUFFICES ASSUME Clean, sender = Turn, phase = "writing" PROVE ~addressed
    OBVIOUS
  <2>1. twStatus \in {"MT_SLA_NACK", "MT_DATA_NACK"}
    BY <1>1, ReportedOf
  <2> QED
    BY <2>1 DEF Delivery, Writing
<1>3. /\ received' \in Seq(Seq(Byte)) /\ Len(received') = Len(asked)
      /\ \A id \in DOMAIN asked : id # Turn => received'[id] = received[id]
  BY <1>1 DEF Delivery, Counted
<1> QED
  BY <1>1, <1>2, <1>3, FinishDelivers

LEMMA MasterDelivers ==
  ASSUME BusInv, Delivery, MasterSteps
  PROVE  Delivery'
<1>1. MasterInterrupt /\ UNCHANGED <<slave, wire, history>>
  BY DEF MasterSteps
<1> QED
  BY <1>1, SendAddressDelivers, SendByteDelivers, TurnToReadingDelivers, WriteCompletedDelivers,
     ReadFirstDelivers, ReadByteDelivers, ReadCompletedDelivers, ArbitrationLostDelivers,
     FailedDelivers
     DEF MasterInterrupt

-----------------------------------------------------------------------------
(* The steps of the main program *)

\* A message comes after those that are asked for already.
LEMMA PushAdds ==
  ASSUME BusInv, Delivery, NEW request \in Requests, Push(request)
  PROVE  /\ asked' = Append(asked, request) /\ Len(asked') = Len(asked) + 1
         /\ status' = Append(status, "notStarted") /\ received' = Append(received, <<>>)
         /\ \A id \in DOMAIN asked :
              asked'[id] = asked[id] /\ status'[id] = status[id] /\ received'[id] = received[id]
         /\ asked'[Len(asked) + 1] = request /\ status'[Len(asked) + 1] = "notStarted"
         /\ received'[Len(asked) + 1] = <<>>
         /\ DOMAIN asked' = 1 .. Len(asked) + 1
         /\ received' \in Seq(Seq(Byte)) /\ Len(received') = Len(asked')
         /\ mNbrMsgs' = mNbrMsgs + 1 /\ mCurrentByte' = mCurrentByte /\ Turn' = Turn
<1>1. /\ asked' = Append(asked, request) /\ status' = Append(status, "notStarted")
      /\ received' = Append(received, <<>>)
      /\ mNbrMsgs' = mNbrMsgs + 1 /\ mCurrentByte' = mCurrentByte
  BY DEF Push
<1>2. /\ asked \in Seq(Requests) /\ status \in Seq(Statuses) /\ Len(status) = Len(asked)
      /\ received \in Seq(Seq(Byte)) /\ Len(received) = Len(asked) /\ Len(asked) \in Nat
      /\ mNbrMsgs \in Nat
  BY RingFacts DEF BusInv, Queued, Delivery, Counted
<1>3. /\ Len(asked') = Len(asked) + 1 /\ DOMAIN asked' = 1 .. Len(asked) + 1
      /\ asked'[Len(asked) + 1] = request
      /\ \A id \in DOMAIN asked : asked'[id] = asked[id]
  BY <1>1, <1>2
<1>4. /\ status'[Len(asked) + 1] = "notStarted"
      /\ \A id \in DOMAIN asked : status'[id] = status[id]
  BY <1>1, <1>2
<1>5. /\ received' \in Seq(Seq(Byte)) /\ Len(received') = Len(asked) + 1
      /\ received'[Len(asked) + 1] = <<>>
      /\ \A id \in DOMAIN asked : received'[id] = received[id]
  <2>1. <<>> \in Seq(Byte)
    OBVIOUS
  <2> QED
    BY <1>1, <1>2, <2>1
<1>6. Turn' = Turn
  BY <1>1, <1>2, <1>3 DEF Turn
<1> QED
  BY <1>1, <1>3, <1>4, <1>5, <1>6

LEMMA PushKeepsTurn ==
  ASSUME BusInv, Delivery, NEW request \in Requests, Push(request)
  PROVE  /\ InTurn'
         /\ mNbrMsgs > 0 => Current' = Current /\ asked'[Turn] = asked[Turn]
         /\ mNbrMsgs = 0 => Current'.mode = Mode(asked'[Turn]) /\ Turn = Len(asked) + 1
<1> DEFINE last == (mCurrentMsg + mNbrMsgs) % kMaxNbrMsgs
           message == [address |-> request.address, mode |-> Mode(request), tx |-> request.tx,
                       rx |-> request.rx, id |-> Len(asked) + 1]
<1>1. /\ slots' = [slots EXCEPT ![last] = message] /\ mCurrentMsg' = mCurrentMsg
      /\ mNbrMsgs' = mNbrMsgs + 1 /\ mNbrMsgs < kMaxNbrMsgs
  BY DEF Push
<1>2. /\ Len(asked) \in Nat /\ DOMAIN asked = 1 .. Len(asked) /\ mNbrMsgs \in Nat
      /\ Turn \in 1 .. Len(asked) + 1 /\ Turn + mNbrMsgs = Len(asked) + 1
  BY RingFacts
<1>3. /\ \A id \in DOMAIN asked : asked'[id] = asked[id]
      /\ asked'[Len(asked) + 1] = request /\ Turn' = Turn
  BY PushAdds
<1>4. /\ mCurrentMsg \in 0 .. kMaxNbrMsgs - 1 /\ kMaxNbrMsgs \in Nat \ {0}
      /\ mNbrMsgs \in 0 .. kMaxNbrMsgs - 1
      /\ DOMAIN slots = 0 .. kMaxNbrMsgs - 1
  <2>1. kMaxNbrMsgs \in 1 .. 255
    BY Constants
  <2> QED
    BY <1>1, <1>2, <2>1 DEF BusInv, Queued
<1>5. /\ last \in 0 .. kMaxNbrMsgs - 1
      /\ last = IF mCurrentMsg + mNbrMsgs < kMaxNbrMsgs THEN mCurrentMsg + mNbrMsgs
                ELSE mCurrentMsg + mNbrMsgs - kMaxNbrMsgs
  <2>1. mNbrMsgs \in 0 .. kMaxNbrMsgs
    BY <1>4
  <2> QED
    BY <1>4, <2>1, SlotIs
<1>6. /\ message.id = Len(asked) + 1 /\ message.address = request.address
      /\ message.tx = request.tx /\ message.rx = request.rx /\ message.mode = Mode(request)
  OBVIOUS
<1> HIDE DEF message
<1>7. ASSUME NEW i \in 0 .. mNbrMsgs - 1
      PROVE  Slot(i)' = Slot(i) /\ asked'[Turn + i] = asked[Turn + i]
  <2>1. i \in 0 .. kMaxNbrMsgs /\ i < mNbrMsgs
    BY <1>4
  <2>2. /\ (mCurrentMsg + i) % kMaxNbrMsgs \in 0 .. kMaxNbrMsgs - 1
        /\ (mCurrentMsg + i) % kMaxNbrMsgs =
             IF mCurrentMsg + i < kMaxNbrMsgs THEN mCurrentMsg + i
             ELSE mCurrentMsg + i - kMaxNbrMsgs
    BY <1>4, <2>1, SlotIs
  <2> DEFINE s == (mCurrentMsg + i) % kMaxNbrMsgs
  <2>3. s # last
    <3> HIDE DEF s, last
    <3>1. /\ s = IF mCurrentMsg + i < kMaxNbrMsgs THEN mCurrentMsg + i
                 ELSE mCurrentMsg + i - kMaxNbrMsgs
          /\ last = IF mCurrentMsg + mNbrMsgs < kMaxNbrMsgs THEN mCurrentMsg + mNbrMsgs
                    ELSE mCurrentMsg + mNbrMsgs - kMaxNbrMsgs
      BY <1>5, <2>2 DEF s
    <3> QED
      BY <1>4, <2>1, <3>1
  <2>4. Slot(i)' = slots'[s] /\ Slot(i) = slots[s]
    BY <1>1 DEF Slot
  <2> HIDE DEF s, last
  <2>5. slots'[s] = slots[s]
    BY <1>1, <2>3
  <2>6. Turn + i \in DOMAIN asked
    BY <1>2, <2>1
  <2> QED
    BY <1>3, <2>4, <2>5, <2>6
<1>8. slots'[last] = message
  <2> HIDE DEF last
  <2> QED
    BY <1>1, <1>4, <1>5
<1>9. ASSUME mNbrMsgs > 0
      PROVE  Current' = Current /\ asked'[Turn] = asked[Turn] /\ Turned' = Turned
  <2>1. 0 \in 0 .. mNbrMsgs - 1 /\ Turn + 0 = Turn
    BY <1>2, <1>9
  <2>2. (mCurrentMsg + 0) % kMaxNbrMsgs = mCurrentMsg
    BY <1>4, FirstSlot
  <2>3. Slot(0) = Current /\ Slot(0)' = Current'
    BY <1>1, <2>2 DEF Slot, Current
  <2>4. Current' = Current /\ asked'[Turn] = asked[Turn]
    BY <1>7, <2>1, <2>3
  <2> QED
    BY <1>3, <2>4 DEF Turned, Mode
<1>10. ASSUME mNbrMsgs = 0
       PROVE  Current'.mode = Mode(asked'[Turn]) /\ Turn = Len(asked) + 1
  <2>1. Turn = Len(asked) + 1
    BY <1>2, <1>10
  <2>2. last = mCurrentMsg
    BY <1>4, <1>10, FirstSlot
  <2>3. Current' = message
    BY <1>1, <1>8, <2>2 DEF Current
  <2> QED
    BY <1>3, <1>6, <2>1, <2>3
<1>11. InTurn'
  <2>1. ASSUME NEW i \in 0 .. mNbrMsgs
        PROVE  /\ Slot(i)'.id = Turn + i
               /\ Slot(i)'.address = asked'[Turn + i].address
               /\ Slot(i)'.tx = asked'[Turn + i].tx /\ Slot(i)'.rx = asked'[Turn + i].rx
               /\ \/ Slot(i)'.mode = Mode(asked'[Turn + i])
                  \/ i = 0 /\ Turned'
    <3>1. CASE i = mNbrMsgs
      <4>1. Slot(i)' = message
        BY <1>1, <1>8, <3>1 DEF Slot
      <4>2. Turn + i = Len(asked) + 1 /\ asked'[Turn + i] = request
        BY <1>2, <1>3, <3>1
      <4> QED
        BY <1>6, <4>1, <4>2
    <3>2. CASE i # mNbrMsgs
      <4>1. i \in 0 .. mNbrMsgs - 1 /\ mNbrMsgs > 0
        BY <1>2, <3>2
      <4>2. /\ Slot(i).id = Turn + i
            /\ Slot(i).address = asked[Turn + i].address
            /\ Slot(i).tx = asked[Turn + i].tx /\ Slot(i).rx = asked[Turn + i].rx
            /\ \/ Slot(i).mode = Mode(asked[Turn + i])
               \/ i = 0 /\ Turned
        BY <4>1 DEF Delivery, InTurn
      <4> QED
        BY <1>7, <1>9, <4>1, <4>2
    <3> QED
      BY <3>1, <3>2
  <2>2. 0 .. mNbrMsgs' - 1 = 0 .. mNbrMsgs
    BY <1>1, <1>2
  <2> QED
    BY <1>3, <2>1, <2>2 DEF InTurn, Mode
<1> QED
  BY <1>9, <1>10, <1>11

LEMMA PushDelivers ==
  ASSUME BusInv, Delivery, NEW request \in Requests, Push(request), NEW sync, Ask(sync),
         UNCHANGED <<slave, wire, history>>
  PROVE  Delivery'
<1>1. /\ Len(asked') = Len(asked) + 1
      /\ \A id \in DOMAIN asked :
           asked'[id] = asked[id] /\ status'[id] = status[id] /\ received'[id] = received[id]
      /\ status'[Len(asked) + 1] = "notStarted" /\ received'[Len(asked) + 1] = <<>>
      /\ DOMAIN asked' = 1 .. Len(asked) + 1
      /\ received' \in Seq(Seq(Byte)) /\ Len(received') = Len(asked')
      /\ mNbrMsgs' = mNbrMsgs + 1 /\ mCurrentByte' = mCurrentByte /\ Turn' = Turn
  BY PushAdds
<1>2. /\ InTurn'
      /\ mNbrMsgs > 0 => Current' = Current /\ asked'[Turn] = asked[Turn]
      /\ mNbrMsgs = 0 => Current'.mode = Mode(asked'[Turn]) /\ Turn = Len(asked) + 1
  BY PushKeepsTurn
<1>3. twcr' = twcr /\ twStatus' = twStatus /\ twdr' = twdr
  BY DEF Ask
<1>4. /\ sender' = sender /\ senders' = senders /\ promised' = promised
      /\ disturbed' = disturbed /\ phase' = phase /\ addressed' = addressed
      /\ slaveStatus' = slaveStatus /\ slaveBuffer' = slaveBuffer /\ answer' = answer
      /\ gI2cBufferIndex' = gI2cBufferIndex /\ slaveTwdr' = slaveTwdr /\ torn' = torn
      /\ processed' = processed /\ Answerable' /\ Pending' = Pending
  BY MasterLeaves
<1>5. /\ Len(asked) \in Nat /\ DOMAIN asked = 1 .. Len(asked) /\ mNbrMsgs \in Nat
      /\ Turn \in 1 .. Len(asked) + 1
      /\ Turn \in DOMAIN asked <=> mNbrMsgs > 0
  BY RingFacts
<1>6. /\ sender \in 0 .. Len(asked) /\ sender <= Turn
      /\ \A k \in DOMAIN senders : senders[k] <= Len(asked) /\ senders[k] <= Turn
      /\ \A promise \in promised : promise[1] \in 1 .. Len(asked) /\ promise[1] <= Turn
      /\ \A id \in DOMAIN asked : id >= Turn => status[id] \in {"notStarted", "inProgress"}
      /\ \A id \in DOMAIN asked : id > Turn => received[id] = <<>>
      /\ mNbrMsgs <= Len(asked)
      /\ mNbrMsgs = 0 => mCurrentByte = 0
      /\ twStatus \in {"MR_DATA_ACK", "MR_DATA_NACK"} => twdr \in Byte
  BY DEF Delivery, Counted
<1>7. \A k \in DOMAIN senders : senders[k] \in Nat
  BY DEF BusInv, Processing
<1>8. Counted'
  <2>1. /\ mNbrMsgs' <= Len(asked') /\ sender \in 0 .. Len(asked') /\ mNbrMsgs' # 0
        /\ \A promise \in promised : promise[1] \in 1 .. Len(asked')
    BY <1>1, <1>5, <1>6
  <2>2. \A k \in DOMAIN senders : senders[k] <= Len(asked')
    BY <1>1, <1>5, <1>6, <1>7
  <2>3. ASSUME NEW id \in DOMAIN asked'
        PROVE  /\ id >= Turn => status'[id] \in {"notStarted", "inProgress"}
               /\ id > Turn => received'[id] = <<>>
    <3>1. CASE id = Len(asked) + 1
      BY <1>1, <3>1
    <3>2. CASE id # Len(asked) + 1
      <4>1. id \in DOMAIN asked
        BY <1>1, <1>5, <3>2
      <4> QED
        BY <1>1, <1>6, <4>1
    <3> QED
      BY <3>1, <3>2
  <2> QED
    BY <1>1, <1>3, <1>4, <1>6, <2>1, <2>2, <2>3 DEF Counted
<1>9. Delivering'
  <2> SUFFICES ASSUME sender \in DOMAIN asked' \ disturbed PROVE Delivering'
    BY <1>4 DEF Delivering
  <2>1. sender \in DOMAIN asked \ disturbed /\ asked'[sender] = asked[sender]
    <3>1. sender \in DOMAIN asked
      BY <1>1, <1>5, <1>6
    <3> QED
      BY <1>1, <3>1
  <2>2. OnWire' = OnWire
    BY <1>1, <1>3, <1>4, <2>1 DEF OnWire
  <2> QED
    BY <1>4, <2>1, <2>2 DEF Delivery, Delivering, NoneOf, Arrived
<1>10. ASSUME NEW id \in DOMAIN asked, Settled(id) PROVE Settled(id)'
  BY <1>1, <1>4, <1>10, SettledStays
<1>11. Done'
  <2> SUFFICES ASSUME NEW id \in DOMAIN asked' \ disturbed, id < Turn, status'[id] = "ok"
               PROVE  /\ asked'[id].tx # <<>> => Settled(id)'
                      /\ \A promise \in promised :
                           promise[1] = id => received'[id] = Padded(promise[2], asked'[id].rx)
    BY <1>1, <1>4 DEF Done, Padded
  <2>1. id \in DOMAIN asked
    BY <1>1, <1>5
  <2>2. asked'[id] = asked[id] /\ status[id] = "ok" /\ received'[id] = received[id]
    BY <1>1, <2>1
  <2> QED
    BY <1>10, <2>1, <2>2 DEF Delivery, Done
<1>12. CASE mNbrMsgs = 0
  <2>1. sender < Turn /\ sender # Turn
    BY <1>2, <1>5, <1>6, <1>12
  <2>2. /\ twStatus = "none" /\ twcr.does \in {"nothing", "stop"}
    BY <1>12 DEF BusInv, Enabled
  <2>3. Between' /\ Addressing'
    BY <1>3, <2>2 DEF Between, Addressing
  <2>4. Waiting'
    <3>1. \A k \in DOMAIN senders : senders[k] # Turn
      BY <1>2, <1>5, <1>6, <1>7, <1>12
    <3>2. \A promise \in promised : promise[1] # Turn
      BY <1>2, <1>5, <1>6, <1>12
    <3>3. received'[Turn] = <<>> /\ mCurrentByte' = 0 /\ Current'.mode = Mode(asked'[Turn])
      BY <1>1, <1>2, <1>6, <1>12
    <3> QED
      BY <1>1, <1>4, <3>1, <3>2, <3>3 DEF Waiting, NoneOf, NoPromise, Mode
  <2>5. Writing' /\ Turning' /\ Reading' /\ Answering'
    BY <1>1, <1>4, <2>1 DEF Writing, Turning, Reading, Answering
  <2>6. SettledWhenTurned'
    BY <1>1, <1>2, <1>12 DEF SettledWhenTurned, Turned, Mode
  <2> QED
    BY <1>2, <1>4, <1>8, <1>9, <1>11, <2>3, <2>4, <2>5, <2>6 DEF Delivery
<1>13. CASE mNbrMsgs > 0
  <2>1. /\ Current' = Current /\ Turn \in DOMAIN asked
        /\ asked'[Turn] = asked[Turn] /\ received'[Turn] = received[Turn]
    BY <1>1, <1>2, <1>5, <1>13
  <2>2. Clean' = Clean /\ Turned' = Turned /\ mNbrMsgs' > 0
    BY <1>1, <1>4, <1>5, <1>13, <2>1 DEF Clean, Turned, Mode
  <2>3. Between' /\ Addressing'
    BY <1>1, <1>3, <1>4, <1>13, <2>1 DEF Delivery, Between, Addressing
  <2>4. Waiting'
    BY <1>1, <1>4, <2>1, <2>2 DEF Delivery, Waiting, NoneOf, NoPromise, Mode
  <2>5. Writing'
    BY <1>1, <1>3, <1>4, <2>1, <2>2 DEF Delivery, Writing
  <2>6. Turning'
    BY <1>1, <1>3, <1>4, <2>1, <2>2 DEF Delivery, Turning, NoPromise
  <2>7. Reading'
    BY <1>1, <1>3, <1>4, <2>1, <2>2 DEF Delivery, Reading
  <2>8. Given' = Given
    BY <1>1, <1>3, <2>1 DEF Given
  <2>9. Answering'
    BY <1>1, <1>3, <1>4, <2>1, <2>2, <2>8 DEF Delivery, Answering
  <2>10. SettledWhenTurned'
    <3> SUFFICES ASSUME Clean, Turned, NEW c, c = Turn
                 PROVE  sender = c /\ mCurrentByte = Len(asked[c].tx) /\ Settled(c)'
      BY <1>1, <1>4, <2>1, <2>2 DEF SettledWhenTurned, Settled, SentOnce, NoneOf
    <3>1. sender = c /\ mCurrentByte = Len(asked[c].tx) /\ Settled(c)
      BY DEF Delivery, SettledWhenTurned
    <3> QED
      BY <1>10, <2>1, <3>1
  <2> QED
    BY <1>2, <1>4, <1>8, <1>9, <1>11, <2>3, <2>4, <2>5, <2>6, <2>7, <2>9, <2>10 DEF Delivery
<1> QED
  BY <1>5, <1>12, <1>13

\* Where neither ring nor hardware of the master change, nor the slave, nothing does.
LEMMA SameDelivers ==
  ASSUME BusInv, Delivery,
         UNCHANGED <<queue, messages, twStatus, twdr, slave, wire, history>>,
         \/ twcr' = twcr
         \/ twcr.does \in {"nothing", "stop"} /\ twcr'.does = "start" /\ twStatus = "none"
  PROVE  Delivery'
<1>1. /\ UNCHANGED <<slots, mCurrentByte, mNbrMsgs, mCurrentMsg, asked, status, received>>
      /\ twStatus' = twStatus /\ twdr' = twdr
  BY DEF queue, messages
<1>2. InTurn' /\ Turn' = Turn /\ Turned' = Turned /\ Current' = Current
  BY <1>1, TurnStays
<1>3. /\ sender' = sender /\ senders' = senders /\ promised' = promised
      /\ disturbed' = disturbed /\ phase' = phase /\ addressed' = addressed
      /\ slaveStatus' = slaveStatus /\ answer' = answer /\ torn' = torn
      /\ gI2cBufferIndex' = gI2cBufferIndex /\ slaveTwdr' = slaveTwdr /\ Answerable'
  BY MasterLeaves
<1>4. /\ Clean' = Clean /\ Delivering' /\ Done'
      /\ Settled(Turn) => Settled(Turn)'
  <2>1. OnWire' = OnWire
    BY <1>1, <1>2, <1>3 DEF OnWire
  <2>2. UNCHANGED <<slave, wire, history, asked, mNbrMsgs>>
    BY <1>1
  <2>3. \A id \in DOMAIN asked :
          id # Turn => status'[id] = status[id] /\ received'[id] = received[id]
    BY <1>1
  <2> QED
    BY <2>1, <2>2, <2>3, GoesOnDelivers
<1>5. Counted' /\ Waiting'
  BY <1>1, <1>2, <1>3, <1>4 DEF Delivery, Counted, Waiting, NoneOf, NoPromise
<1>6. SettledWhenTurned'
  BY <1>1, <1>2, <1>3, <1>4 DEF Delivery, SettledWhenTurned
<1>7. Between' /\ Addressing'
  BY <1>1, <1>2, <1>3 DEF Delivery, Between, Addressing
<1>8. twcr' = twcr \/ ~(Clean /\ sender = Turn)
  BY ReportedOf
<1>9. Writing' /\ Turning'
  BY <1>1, <1>2, <1>3, <1>4, <1>8 DEF Delivery, Writing, Turning, NoPromise
<1>10. Reading'
  BY <1>1, <1>2, <1>3, <1>4, <1>8 DEF Delivery, Reading
<1>11. Answering'
  <2>1. Given' = Given
    BY <1>1, <1>2 DEF Given
  <2> QED
    BY <1>1, <1>2, <1>3, <1>4, <2>1 DEF Delivery, Answering
<1> QED
  BY <1>2, <1>3, <1>4, <1>5, <1>6, <1>7, <1>9, <1>10, <1>11 DEF Delivery

LEMMA ProgramDelivers ==
  ASSUME BusInv, Delivery, ProgramSteps
  PROVE  Delivery'
<1>1. Program /\ UNCHANGED <<slave, wire, history>>
  BY DEF ProgramSteps
<1>2. CASE WriteAsync \/ ReadAsync \/ WriteSync \/ ReadSync
  <2>1. PICK request \in Requests, sync \in BOOLEAN : Push(request) /\ Ask(sync)
    BY <1>2 DEF WriteAsync, ReadAsync, WriteSync, ReadSync
  <2> QED
    BY <1>1, <2>1, PushDelivers
<1>3. CASE StartI2cBusy \/ WaitForCompletion
  <2>1. UNCHANGED <<queue, messages, twStatus, twdr>> /\ twcr' = twcr
    BY <1>3 DEF StartI2cBusy, WaitForCompletion
  <2> QED
    BY <1>1, <2>1, SameDelivers
<1>4. CASE StartI2cIdle
  <2>1. UNCHANGED <<queue, messages, twdr>>
    BY <1>4 DEF StartI2cIdle
  <2>2. CASE twcr' = twcr /\ twStatus' = twStatus
    BY <1>1, <2>1, <2>2, SameDelivers
  <2>3. CASE ~twcr.twie /\ twcr' = [twie |-> TRUE, does |-> "start"] /\ twStatus' = "none"
    <3>1. twcr.does \in {"nothing", "stop"} /\ twStatus = "none" /\ twcr'.does = "start"
      BY <2>3 DEF BusInv, Enabled
    <3> QED
      BY <1>1, <2>1, <2>3, <3>1, SameDelivers
  <2> QED
    BY <1>4, <2>2, <2>3 DEF StartI2cIdle
<1> QED
  BY <1>1, <1>2, <1>3, <1>4 DEF Program

LEMMA DeliveryStep ==
  ASSUME BusInv, Delivery, [Next]_vars
  PROVE  Delivery'
<1>1. CASE UNCHANGED vars
  <2>1. UNCHANGED <<queue, messages, twStatus, twdr, slave, wire, history>> /\ twcr' = twcr
    BY <1>1 DEF vars, master
  <2> QED
    BY <2>1, SameDelivers
<1>2. CASE Next
  BY <1>2, MasterDelivers, ProgramDelivers, SlaveDelivers, StartKeeps, StopKeeps, AddressKeeps,
     WriteKeeps, ReadKeeps, DisturbanceKeeps, RestartDelivers
     DEF Next
<1> QED
  BY <1>1, <1>2

\* What reports completion was carried out as it was asked for, for any requests, ring,
\* buffer and answers, and however many disturbances there were: a message whose own
\* transfer went undisturbed and that has the status of a completed one was given to the
\* slave once and unchanged, and what it read is the slave's answer to it, although ring
\* and buffer are shared with messages that failed or were broken off half way.
THEOREM CompletedCorrectly == Prompt => (Spec => []CompletedAsAsked)
<1> SUFFICES ASSUME Prompt
             PROVE  Spec => []CompletedAsAsked
  OBVIOUS
<1>1. Init => BusInv /\ Delivery
  BY BusInit, DeliveryInit
<1>2. BusInv /\ Delivery /\ [Next]_vars => (BusInv /\ Delivery)'
  BY BusStep, DeliveryStep
<1>3. BusInv /\ Delivery => CompletedAsAsked
  <2> SUFFICES ASSUME BusInv, Delivery, NEW id \in DOMAIN asked \ disturbed, status[id] = "ok"
               PROVE  /\ asked[id].tx # <<>> =>
                           \/ {k \in DOMAIN senders : senders[k] = id} = {} /\ sender = id
                           \/ \E k \in DOMAIN senders :
                                /\ processed[k] = asked[id].tx
                                /\ \A l \in DOMAIN senders : senders[l] = id <=> l = k
                      /\ \A promise \in promised :
                           promise[1] = id => received[id] = Padded(promise[2], asked[id].rx)
    BY DEF CompletedAsAsked
  <2>1. id < Turn
    <3>1. ~(id >= Turn)
      BY DEF Delivery, Counted
    <3>2. id \in Nat /\ Turn \in Nat
      BY RingFacts
    <3> QED
      BY <3>1, <3>2
  <2>2. /\ asked[id].tx # <<>> => Settled(id)
        /\ \A promise \in promised :
             promise[1] = id => received[id] = Padded(promise[2], asked[id].rx)
    BY <2>1 DEF Delivery, Done
  <2> QED
    BY <2>2 DEF Settled, SentOnce, NoneOf
<1> QED
  BY <1>1, <1>2, <1>3, PTL DEF Spec
=============================================================================
