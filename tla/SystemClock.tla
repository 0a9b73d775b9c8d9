---------------------------- MODULE SystemClock ----------------------------
(***************************************************************************)
(* The clock of a board, lib/AVRTools/SystemClock: timer 0 counts 64 CPU   *)
(* cycles a tick, its overflow routine counts milliseconds, and micros     *)
(* puts both together, reading counter, timer and overflow flag one after  *)
(* the other while the timer goes on.  delayMilliseconds waits on micros.  *)
(* The overflow routine may be late, as other routines and atomic blocks   *)
(* hold it up.                                                             *)
(***************************************************************************)
EXTENDS Integers

CONSTANTS
  Top,         \* the timer counts 0 .. Top, 255
  MicrosPerTick, \* 4 at 16 MHz
  Milli,       \* 1000 microseconds
  FractUnit,   \* 8 microseconds: fractions of a millisecond fit into a byte
  kMillisInc, kFractInc, kFractMax, \* 1, 3, 125: an overflow is 1 ms and 24 us
  Wrap,        \* delayMilliseconds keeps 16 bits of micros, 65536
  MaxLatency,  \* ticks the routine is late at most
  Delays,      \* the arguments of delayMilliseconds
  DelayStarts, \* and the ticks before which it is called
  MaxTicks

ASSUME ClockAssumption ==
  /\ Top \in Nat \ {0} /\ MicrosPerTick \in Nat \ {0}
  /\ Milli \in Nat \ {0} /\ FractUnit \in Nat \ {0} /\ Wrap \in Nat \ (0 .. Milli)
  /\ kMillisInc \in Nat /\ kFractMax \in Nat \ {0} /\ kFractInc \in 0 .. kFractMax - 1
  /\ FractUnit * kFractMax = Milli
  /\ (Top + 1) * MicrosPerTick = Milli * kMillisInc + FractUnit * kFractInc
  /\ MaxLatency \in 0 .. Top /\ Delays \subseteq Nat /\ DelayStarts \subseteq Nat
  /\ MaxTicks \in Nat

VARIABLES
  ticks,       \* history: the time
  TCNT0, TOV0, \* the timer and its overflow flag
  timer0_overflow_count, timer0_millis, timer0_fract,
  reading,     \* micros: how far it is, and m and t
  delaying     \* delayMilliseconds: start, ms; history: its argument and when it was called

clockVars == <<ticks, TCNT0, TOV0, timer0_overflow_count, timer0_millis, timer0_fract,
               reading, delaying>>

NotReading == [at |-> "no", m |-> 0, t |-> 0, since |-> 0, moved |-> FALSE]
NotDelaying == [at |-> "no", start |-> 0, ms |-> 0, asked |-> 0, since |-> 0]

ClockInit == \* initSystem and initSystemClock: the timer starts at 0
  /\ ticks = 0 /\ TCNT0 = 0 /\ TOV0 = FALSE
  /\ timer0_overflow_count = 0 /\ timer0_millis = 0 /\ timer0_fract = 0
  /\ reading = NotReading /\ delaying = NotDelaying

-----------------------------------------------------------------------------
\* One tick; the atomic block of micros is shorter than one, so that at most one falls
\* into it, and the overflow routine is never later than MaxLatency.
Tick ==
  /\ ticks < MaxTicks
  /\ reading.at # "no" => ~reading.moved
  /\ TOV0 => TCNT0 < MaxLatency
  /\ ticks' = ticks + 1
  /\ TCNT0' = (TCNT0 + 1) % (Top + 1)
  /\ TOV0' = (TOV0 \/ TCNT0 = Top)
  /\ reading' = IF reading.at = "no" THEN reading ELSE [reading EXCEPT !.moved = TRUE]
  /\ UNCHANGED <<timer0_overflow_count, timer0_millis, timer0_fract, delaying>>

FractWithoutCarry ==
  /\ timer0_fract' = (timer0_fract + kFractInc) % kFractMax
  /\ timer0_millis' = timer0_millis + kMillisInc

Fract ==
  LET f == timer0_fract + kFractInc
  IN /\ timer0_fract' = IF f >= kFractMax THEN f - kFractMax ELSE f
     /\ timer0_millis' = timer0_millis + kMillisInc + (IF f >= kFractMax THEN 1 ELSE 0)

\* ISR( TIMER0_OVF_vect ); interrupts are disabled inside micros.
Overflow ==
  /\ TOV0 /\ reading.at = "no"
  /\ TOV0' = FALSE
  /\ Fract
  /\ timer0_overflow_count' = timer0_overflow_count + 1
  /\ UNCHANGED <<ticks, TCNT0, reading, delaying>>

-----------------------------------------------------------------------------
(* micros, in ticks *)

Elsewhere == UNCHANGED <<ticks, TCNT0, TOV0, timer0_overflow_count, timer0_millis, timer0_fract>>

ReadCount ==
  /\ reading.at = "no" /\ (delaying.at = "no" => ticks \in DelayStarts)
  /\ delaying.at = "wait" => delaying.ms > 0
  /\ reading' = [at |-> "count", m |-> timer0_overflow_count, t |-> 0,
                 since |-> ticks, moved |-> FALSE]
  /\ UNCHANGED delaying /\ Elsewhere

ReadTimer ==
  /\ reading.at = "count"
  /\ reading' = [reading EXCEPT !.at = "timer", !.t = TCNT0]
  /\ UNCHANGED delaying /\ Elsewhere

Result(m) == m * (Top + 1) + reading.t

WithoutPending == Result(reading.m)
WithPending == Result(reading.m + (IF TOV0 THEN 1 ELSE 0))

\* An overflow that is still to be served counts, unless it is newer than the timer's value.
Micros == Result(reading.m + (IF TOV0 /\ reading.t < Top THEN 1 ELSE 0))

-----------------------------------------------------------------------------
(* delayMilliseconds: start is 16 bits wide *)

Unsigned16(n) == n % Wrap

Call(ms) ==
  /\ delaying.at = "no" /\ reading.at = "count" /\ ~reading.moved
  /\ delaying' = [at |-> "start", start |-> 0, ms |-> ms, asked |-> ms, since |-> reading.since]
  /\ UNCHANGED reading /\ Elsewhere

\* The timer's flag is read, micros returns: to its caller or into the delay.
MicrosReturns ==
  /\ reading.at = "timer"
  /\ reading' = NotReading
  /\ LET now == Unsigned16(Micros * MicrosPerTick)
     IN delaying' =
       CASE delaying.at = "start" -> [delaying EXCEPT !.at = "wait", !.start = now]
         [] delaying.at = "wait" /\ Unsigned16(now - delaying.start) >= Milli ->
              [delaying EXCEPT !.ms = @ - 1, !.start = Unsigned16(@ + Milli)]
         [] OTHER -> delaying
  /\ Elsewhere

DelayOver ==
  /\ delaying.at = "wait" /\ delaying.ms = 0 /\ reading.at = "no"
  /\ delaying' = NotDelaying
  /\ UNCHANGED reading /\ Elsewhere

ClockNext ==
  \/ Tick \/ Overflow \/ ReadCount \/ ReadTimer \/ MicrosReturns \/ DelayOver
  \/ \E ms \in Delays : Call(ms)

ClockSpec == ClockInit /\ [][ClockNext]_clockVars

-----------------------------------------------------------------------------
ClockTypeOK ==
  /\ ticks \in Nat /\ TCNT0 \in 0 .. Top /\ TOV0 \in BOOLEAN
  /\ timer0_overflow_count \in Nat /\ timer0_millis \in Nat
  /\ timer0_fract \in 0 .. kFractMax - 1

\* No millisecond is lost or counted twice: milliseconds and fraction are exactly the
\* time of the overflows served, and those are all there were but the one that is
\* pending, however late the routine runs.
MillisExact ==
  /\ Milli * timer0_millis + FractUnit * timer0_fract
       = timer0_overflow_count * (Top + 1) * MicrosPerTick
  /\ ticks = (timer0_overflow_count + (IF TOV0 THEN 1 ELSE 0)) * (Top + 1) + TCNT0

\* What micros returns was the time at some moment of the call, also when the timer
\* overflows between its three reads.
MicrosInCall ==
  reading.at = "timer" => Micros \in reading.since .. ticks

\* The clock neither loses nor gains time, and tells it right.
ClockExact == MillisExact /\ MicrosInCall

\* A delay is never shorter than asked for, also across the wrap of its 16 bits.
DelayLongEnough ==
  delaying.at = "wait" /\ delaying.ms = 0 =>
    (ticks - delaying.since) * MicrosPerTick >= Milli * delaying.asked
=============================================================================
