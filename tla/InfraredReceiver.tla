--------------------------- MODULE InfraredReceiver ---------------------------
(***************************************************************************)
(* The infrared receiver of lib/IRremote: the timer interrupt that samples *)
(* the receiver's pin at each tick and records how long the light was on   *)
(* and off, and the handler of the board that decodes a record and makes   *)
(* the receiver ready again, at any moment of the next transmission.       *)
(* What a record is decoded to is Infrared's.                              *)
(***************************************************************************)
EXTENDS Integers, Sequences, SequencesExt, FiniteSetsExt

CONSTANTS
  GAP_TICKS,   \* 100 in the code
  RAWBUFFER,   \* the entries of rawbuf, RAWBUF, 101 in the code
  Transmissions, \* sequences of ticks on, off, ..., on
  Silences,    \* the ticks between two transmissions
  MaxTransmissions

\* What the constants are; assumed by MCDrivers.
InfraredReceiverAssumption ==
  /\ GAP_TICKS \in Nat \ {0} /\ RAWBUFFER \in Nat \ {0, 1} /\ MaxTransmissions \in Nat
  /\ \A signal \in Transmissions :
       \A k \in DOMAIN signal : k % 2 = 0 => signal[k] + 1 < GAP_TICKS

VARIABLES
  light,       \* the samples to come, TRUE for a mark
  rcvstate, rawlen, timer, rawbuf, overflow, \* irparams
  irPc,        \* the handler: between its calls, or between the two steps of resume
  transmitted, \* history: the transmissions begun
  awaited,     \* history: the receiver was ready for the last of them
  raced,       \* history: a sample came between the two steps of resume, or the record
               \* before was full: it stops without resetting the timer at a mark
  decoded      \* history: the records decoded, and whether each was full or raced

irparams == <<rcvstate, rawlen, timer, rawbuf, overflow>>
irVars == <<light, irparams, irPc, transmitted, awaited, raced, decoded>>

ReceiverInit ==
  /\ light = <<>>
  /\ rcvstate = "IDLE" /\ rawlen = 0 /\ timer = 0
  /\ rawbuf = [k \in 0 .. RAWBUFFER - 1 |-> 0] /\ overflow = FALSE
  /\ irPc = "loop" /\ transmitted = <<>> /\ awaited = FALSE /\ raced = FALSE /\ decoded = {}

\* A record that is full before its last space is an overflow.
Fits(signal) == Len(signal) + 1 < RAWBUFFER

PinSamples(signal) ==
  FlattenSeq([k \in DOMAIN signal |-> [i \in 1 .. signal[k] |-> k % 2 = 1]])

\* Somebody sends, after a silence; another silence ends the last one.
Transmission ==
  /\ light = <<>> /\ Len(transmitted) < MaxTransmissions
  /\ \E signal \in Transmissions, silence \in Silences :
       /\ light' = [i \in 1 .. silence |-> FALSE] \o PinSamples(signal)
                     \o [i \in 1 .. GAP_TICKS + 2 |-> FALSE]
       /\ transmitted' = Append(transmitted, signal)
       /\ awaited' = (rcvstate = "IDLE" /\ irPc = "loop" /\ ~raced /\ silence > GAP_TICKS /\ Fits(signal))
  /\ UNCHANGED <<irparams, irPc, raced, decoded>>

-----------------------------------------------------------------------------
(* ISR(TIMER_INTR_NAME) *)

Mark == Head(light)

StateUnchecked == rcvstate

\* A full record stops whatever state there was.
State == IF rawlen >= RAWBUFFER THEN "OVERFLOW" ELSE rcvstate

\* The duration that ends is recorded, at the place given; the timer starts again.
Record(place, state) ==
  /\ rawbuf' = [rawbuf EXCEPT ![place] = timer + 1]
  /\ rawlen' = place + 1 /\ timer' = 0 /\ rcvstate' = state

Keep(ticks, state) == timer' = ticks /\ rcvstate' = state /\ UNCHANGED <<rawlen, rawbuf>>

RecordAnyMark == Mark
RecordAfterGap == Mark /\ timer + 1 >= GAP_TICKS

Idle ==
  /\ State = "IDLE"
  /\ IF RecordAfterGap THEN Record(0, "MARK") /\ overflow' = FALSE
     ELSE Keep(IF Mark THEN 0 ELSE timer + 1, "IDLE") /\ UNCHANGED overflow

InMark ==
  /\ State = "MARK"
  /\ IF Mark THEN Keep(timer + 1, "MARK") ELSE Record(rawlen, "SPACE")
  /\ UNCHANGED overflow

InSpace ==
  /\ State = "SPACE"
  /\ IF Mark THEN Record(rawlen, "MARK")
     ELSE Keep(timer + 1, IF timer + 1 > GAP_TICKS THEN "STOP" ELSE "SPACE")
  /\ UNCHANGED overflow

Stopped ==
  /\ State = "STOP"
  /\ Keep(IF Mark THEN 0 ELSE timer + 1, "STOP") /\ UNCHANGED overflow

Overflow == State = "OVERFLOW" /\ Keep(timer + 1, "STOP") /\ overflow' = TRUE

Tick ==
  /\ light # <<>>
  /\ Idle \/ InMark \/ InSpace \/ Stopped \/ Overflow
  /\ light' = Tail(light)
  /\ raced' = (raced \/ irPc = "resume")
  /\ UNCHANGED <<irPc, transmitted, awaited, decoded>>

-----------------------------------------------------------------------------
(* Handler::loop: decode, which does not look at overflow, and resume in two steps *)

Durations == [k \in 1 .. rawlen - 1 |-> rawbuf[k]]

DecodeRecord ==
  /\ irPc = "loop" /\ rcvstate = "STOP"
  /\ decoded' = decoded \cup {[durations |-> Durations, whole |-> ~(overflow \/ raced)]}
  /\ rcvstate' = "IDLE"
  /\ raced' = overflow
  /\ irPc' = "resume"
  /\ UNCHANGED <<light, rawlen, timer, rawbuf, overflow, transmitted, awaited>>

\* A record begun between the two steps loses its first entry.
Resume ==
  /\ irPc = "resume"
  /\ rawlen' = 0
  /\ irPc' = "loop"
  /\ UNCHANGED <<light, rcvstate, timer, rawbuf, overflow, transmitted, awaited, raced, decoded>>

ReceiverNext == Transmission \/ Tick \/ DecodeRecord \/ Resume

ReceiverSpec == ReceiverInit /\ [][ReceiverNext]_irVars

-----------------------------------------------------------------------------
ReceiverTypeOK ==
  /\ rcvstate \in {"IDLE", "MARK", "SPACE", "STOP", "OVERFLOW"}
  /\ rawlen \in 0 .. RAWBUFFER /\ rawbuf \in [0 .. RAWBUFFER - 1 -> Nat] /\ timer \in Nat
  /\ irPc = "loop" => (rcvstate \in {"MARK", "SPACE"} => rawlen > 0) \/ raced

\* Part of a transmission without a gap in it; the first duration may have begun before.
PartOf(durations, signal) ==
  durations # <<>> =>
    \E i, j \in DOMAIN signal :
      /\ Head(durations) <= signal[i] /\ i <= j /\ Tail(durations) = SubSeq(signal, i + 1, j)

\* What is decoded is never put together from two transmissions, and durations in it are
\* never left out, whatever samples come between the two steps of resume and however
\* full the record: it is one transmission from its beginning to its end, or, if it raced
\* with resume or ran over, a part of one, whose first mark may be cut short.  And a
\* transmission that found the receiver ready, after a gap, is in the record when it is
\* over, or was decoded.
WholeTransmissions ==
  /\ \A record \in decoded :
       \E k \in DOMAIN transmitted :
         IF record.whole THEN record.durations = transmitted[k]
         ELSE PartOf(record.durations, transmitted[k])
  /\ light = <<>> /\ awaited =>
       \/ [durations |-> Last(transmitted), whole |-> TRUE] \in decoded
       \/ rcvstate = "STOP" /\ ~overflow /\ Durations = Last(transmitted)
=============================================================================
