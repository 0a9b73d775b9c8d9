---------------------------- MODULE ClockProofs ----------------------------
(***************************************************************************)
(* Proofs about SystemClock, for any timer, any frequency and any length   *)
(* of time: the clock neither loses nor gains time, and what micros        *)
(* returns was the time during its call.                                   *)
(***************************************************************************)
EXTENDS SystemClock, TLAPS

\* The overflow routine is taken before the timer overflows again.
InTime == TOV0 => TCNT0 <= MaxLatency

\* Where micros is: its m is still the count of overflows, as the routine waits for it, at
\* most one tick passed, and if that was after the timer was read, the timer is one ahead.
ReadingOK ==
  /\ reading.at \in {"no", "count", "timer"} /\ reading.moved \in BOOLEAN
  /\ reading.at # "no" =>
       /\ reading.m = timer0_overflow_count /\ reading.since \in Nat
       /\ ticks = reading.since + (IF reading.moved THEN 1 ELSE 0)
  /\ reading.at = "timer" =>
       /\ reading.t \in 0 .. Top
       /\ \/ reading.t = TCNT0
          \/ reading.moved /\ reading.t < Top /\ TCNT0 = reading.t + 1
          \/ reading.moved /\ reading.t = Top /\ TCNT0 = 0 /\ TOV0

ReadingShape ==
  reading \in [at : {"no", "count", "timer"}, m : Nat, t : Nat, since : Nat, moved : BOOLEAN]

ClockInv == ClockTypeOK /\ ReadingShape /\ InTime /\ ReadingOK /\ MillisExact

-----------------------------------------------------------------------------
(* Arithmetic *)

LEMMA Distributes == \A x, y, z \in Int : x * (y + z) = x * y + x * z /\ (y + z) * x = y * x + z * x
  BY SMT

LEMMA ProductIsInt == \A x, y \in Int : x * y \in Int
  BY SMT

LEMMA ConstantsAreNumbers ==
  /\ Top \in Nat /\ Top > 0 /\ Top + 1 \in Nat /\ MicrosPerTick \in Nat /\ Milli \in Nat
  /\ FractUnit \in Nat /\ kMillisInc \in Nat /\ kFractMax \in Nat /\ kFractMax > 0
  /\ kFractInc \in Nat /\ kFractInc < kFractMax /\ MaxLatency \in Nat /\ MaxLatency <= Top
  BY ClockAssumption

\* One overflow more: what the routine adds to milliseconds and fraction is the time
\* between two overflows.
LEMMA OverflowAddsItsTime ==
  ASSUME ClockTypeOK, Fract,
         Milli * timer0_millis + FractUnit * timer0_fract
           = timer0_overflow_count * (Top + 1) * MicrosPerTick
  PROVE  /\ timer0_millis' \in Nat /\ timer0_fract' \in 0 .. kFractMax - 1
         /\ Milli * timer0_millis' + FractUnit * timer0_fract'
              = (timer0_overflow_count + 1) * (Top + 1) * MicrosPerTick
<1> DEFINE f == timer0_fract + kFractInc
           carry == IF f >= kFractMax THEN 1 ELSE 0
           left == IF f >= kFractMax THEN f - kFractMax ELSE f
           period == (Top + 1) * MicrosPerTick
<1>1. /\ timer0_fract \in Nat /\ timer0_fract < kFractMax /\ timer0_millis \in Nat
      /\ timer0_overflow_count \in Nat
  BY ConstantsAreNumbers DEF ClockTypeOK
<1>2. timer0_fract' = left /\ timer0_millis' = timer0_millis + kMillisInc + carry
  BY DEF Fract
<1>3. carry \in Nat /\ left \in 0 .. kFractMax - 1
  BY <1>1, ConstantsAreNumbers
<1>4. FractUnit * f = FractUnit * timer0_fract + FractUnit * kFractInc
  BY <1>1, ConstantsAreNumbers, Distributes
<1>5. Milli * carry + FractUnit * left = FractUnit * f
  <2>1. CASE f >= kFractMax
    <3>1. FractUnit * f = FractUnit * kFractMax + FractUnit * (f - kFractMax)
      BY <1>1, ConstantsAreNumbers, Distributes
    <3> QED
      BY <2>1, <3>1, <1>1, ConstantsAreNumbers, ClockAssumption
  <2>2. CASE ~(f >= kFractMax)
    BY <2>2, <1>1, ConstantsAreNumbers
  <2> QED
    BY <2>1, <2>2
<1>6. Milli * (timer0_millis + kMillisInc + carry)
        = Milli * timer0_millis + Milli * kMillisInc + Milli * carry
  BY <1>1, <1>3, ConstantsAreNumbers, Distributes
<1>7. (timer0_overflow_count + 1) * (Top + 1) * MicrosPerTick
        = timer0_overflow_count * (Top + 1) * MicrosPerTick + period
  BY <1>1, ConstantsAreNumbers, Distributes
<1>8. period = Milli * kMillisInc + FractUnit * kFractInc
  BY ClockAssumption
<1> HIDE DEF f, carry, left, period
<1>9. /\ timer0_millis + kMillisInc + carry \in Nat
      /\ Milli * timer0_millis \in Int /\ Milli * kMillisInc \in Int /\ Milli * carry \in Int
      /\ FractUnit * timer0_fract \in Int /\ FractUnit * left \in Int
      /\ FractUnit * kFractInc \in Int
  BY <1>1, <1>3, ConstantsAreNumbers
<1>10. /\ Milli * timer0_millis' = Milli * timer0_millis + Milli * kMillisInc + Milli * carry
       /\ FractUnit * timer0_fract' = FractUnit * left
  BY <1>2, <1>6
<1> QED
  BY <1>2, <1>3, <1>4, <1>5, <1>7, <1>8, <1>9, <1>10

-----------------------------------------------------------------------------
(* The invariant *)

LEMMA ClockInvInit == ClockInit => ClockInv
<1> SUFFICES ASSUME ClockInit PROVE ClockInv
  OBVIOUS
<1>1. ClockTypeOK
  <2>1. 0 \in 0 .. Top /\ 0 \in 0 .. kFractMax - 1
    BY ConstantsAreNumbers
  <2> QED
    BY <2>1 DEF ClockInit, ClockTypeOK
<1>2. InTime /\ ReadingOK
  BY DEF ClockInit, InTime, ReadingOK, NotReading
<1>3. ReadingShape
  BY DEF ClockInit, NotReading, ReadingShape
<1>4. MillisExact
  BY ConstantsAreNumbers DEF ClockInit, MillisExact
<1> QED
  BY <1>1, <1>2, <1>3, <1>4 DEF ClockInv

\* A tick: the timer goes on by one, past its top it sets the flag, which was then clear.
LEMMA TickKeepsInv == ClockInv /\ Tick => ClockInv'
<1> SUFFICES ASSUME ClockInv, Tick PROVE ClockInv'
  OBVIOUS
<1> USE DEF ClockInv
<1>1. /\ TCNT0' = IF TCNT0 = Top THEN 0 ELSE TCNT0 + 1
      /\ TOV0' = (TOV0 \/ TCNT0 = Top)
      /\ TOV0 => TCNT0 < Top
  <2>1. TOV0 => TCNT0 < Top
    BY ConstantsAreNumbers DEF Tick, ClockTypeOK
  <2>2. (TCNT0 + 1) % (Top + 1) = IF TCNT0 = Top THEN 0 ELSE TCNT0 + 1
    BY ConstantsAreNumbers DEF ClockTypeOK
  <2> QED
    BY <2>1, <2>2 DEF Tick
<1>2. ClockTypeOK'
  BY <1>1, ConstantsAreNumbers DEF ClockTypeOK, Tick
<1>3. ReadingShape'
  BY DEF ReadingShape, Tick
<1>4. InTime'
  BY <1>1, ConstantsAreNumbers DEF InTime, Tick, ClockTypeOK
<1>5. ReadingOK'
  <2>1. CASE reading.at = "no"
    BY <2>1 DEF ReadingOK, Tick
  <2>2. CASE reading.at # "no"
    <3>1. /\ ~reading.moved /\ reading' = [reading EXCEPT !.moved = TRUE]
          /\ ticks' = ticks + 1 /\ timer0_overflow_count' = timer0_overflow_count
      BY <2>2 DEF Tick
    <3>2. /\ reading'.at = reading.at /\ reading'.m = reading.m /\ reading'.t = reading.t
          /\ reading'.since = reading.since /\ reading'.moved = TRUE
      BY <3>1 DEF ReadingShape
    <3>3. ticks' = reading'.since + 1
      BY <2>2, <3>1, <3>2 DEF ReadingOK
    <3>4. reading.at = "timer" => reading.t = TCNT0
      BY <3>1 DEF ReadingOK
    <3>5. TCNT0 \in 0 .. Top
      BY DEF ClockTypeOK
    <3>6. reading.at = "timer" /\ TCNT0 = Top => TOV0'
      BY <1>1, Zenon
    <3>7. reading'.at = "timer" =>
            /\ reading'.t \in 0 .. Top
            /\ \/ reading'.moved /\ reading'.t < Top /\ TCNT0' = reading'.t + 1
               \/ reading'.moved /\ reading'.t = Top /\ TCNT0' = 0 /\ TOV0'
      BY <1>1, <3>2, <3>4, <3>5, <3>6, ConstantsAreNumbers
    <3> QED
      BY <2>2, <3>1, <3>2, <3>3, <3>7 DEF ReadingOK
  <2> QED
    BY <2>1, <2>2
<1>6. MillisExact'
  <2>1. /\ Milli * timer0_millis' + FractUnit * timer0_fract'
             = timer0_overflow_count' * (Top + 1) * MicrosPerTick
    BY DEF MillisExact, Tick
  <2>2. ticks' = (timer0_overflow_count' + (IF TOV0' THEN 1 ELSE 0)) * (Top + 1) + TCNT0'
    <3> DEFINE c == timer0_overflow_count
               p == IF TOV0 THEN 1 ELSE 0
    <3>1. c \in Nat /\ p \in Nat /\ TCNT0 \in 0 .. Top
      BY DEF ClockTypeOK
    <3>2. ticks' = (c + p) * (Top + 1) + TCNT0 + 1
      BY <3>1, ConstantsAreNumbers DEF MillisExact, Tick
    <3>3. (c + p + 1) * (Top + 1) = (c + p) * (Top + 1) + (Top + 1)
      BY <3>1, ConstantsAreNumbers, Distributes
    <3>4. CASE TCNT0 = Top
      <4>1. ~TOV0
        BY <1>1, <3>4, ConstantsAreNumbers
      <4>2. p = 0 /\ TCNT0' = 0
        BY <1>1, <3>4, <4>1
      <4>3. TOV0' = TRUE
        BY <1>1, <3>4, Zenon
      <4>4. ticks' = (c + 1) * (Top + 1) + TCNT0'
        BY <3>1, <3>2, <3>3, <3>4, <4>2, ConstantsAreNumbers
      <4> QED
        BY <4>3, <4>4 DEF Tick
    <3>5. CASE TCNT0 # Top
      <4>1. TOV0' = TOV0 /\ TCNT0' = TCNT0 + 1
        BY <1>1, <3>5 DEF ClockTypeOK
      <4>2. (c + p) * (Top + 1) \in Int
        BY <3>1, ConstantsAreNumbers
      <4>3. ticks' = (c + p) * (Top + 1) + TCNT0'
        BY <3>1, <3>2, <4>1, <4>2
      <4> QED
        BY <4>1, <4>3 DEF Tick
    <3> QED
      BY <3>4, <3>5
  <2> QED
    BY <2>1, <2>2 DEF MillisExact
<1> QED
  BY <1>2, <1>3, <1>4, <1>5, <1>6

\* The overflow routine: the overflow that was pending is now counted.
LEMMA OverflowKeepsInv == ClockInv /\ Overflow => ClockInv'
<1> SUFFICES ASSUME ClockInv, Overflow PROVE ClockInv'
  OBVIOUS
<1> USE DEF ClockInv
<1>1. /\ timer0_millis' \in Nat /\ timer0_fract' \in 0 .. kFractMax - 1
      /\ Milli * timer0_millis' + FractUnit * timer0_fract'
           = (timer0_overflow_count + 1) * (Top + 1) * MicrosPerTick
  BY OverflowAddsItsTime DEF MillisExact, Overflow
<1>2. ClockTypeOK'
  <2>1. timer0_overflow_count' \in Nat /\ TOV0' = FALSE
    BY DEF ClockTypeOK, Overflow
  <2> QED
    BY <1>1, <2>1, Zenon DEF ClockTypeOK, Overflow
<1>3. ReadingShape' /\ InTime' /\ ReadingOK'
  BY DEF ReadingShape, InTime, ReadingOK, Overflow
<1>4. MillisExact'
  <2>1. ticks' = (timer0_overflow_count + 1) * (Top + 1) + TCNT0'
    BY DEF MillisExact, Overflow
  <2>2. timer0_overflow_count' + (IF TOV0' THEN 1 ELSE 0) = timer0_overflow_count + 1
    BY DEF Overflow, ClockTypeOK
  <2> QED
    BY <1>1, <2>1, <2>2 DEF MillisExact, Overflow
<1> QED
  BY <1>2, <1>3, <1>4

\* The steps of micros and of a delay leave the clock alone.
LEMMA ReadingKeepsInv ==
  ASSUME ClockInv,
         \/ ReadCount \/ ReadTimer \/ MicrosReturns \/ DelayOver
         \/ \E ms \in Delays : Call(ms)
         \/ UNCHANGED clockVars
  PROVE  ClockInv'
<1> USE DEF ClockInv
<1>1. Elsewhere
  BY DEF ReadCount, ReadTimer, MicrosReturns, DelayOver, Call, Elsewhere, clockVars
<1>2. ClockTypeOK' /\ InTime' /\ MillisExact'
  BY <1>1 DEF ClockTypeOK, InTime, MillisExact, Elsewhere
<1>3. CASE ReadCount
  <2>1. /\ reading' = [at |-> "count", m |-> timer0_overflow_count, t |-> 0, since |-> ticks,
                       moved |-> FALSE]
        /\ ticks \in Nat /\ timer0_overflow_count \in Nat
    BY <1>3 DEF ReadCount, ClockTypeOK
  <2> QED
    BY <1>1, <1>2, <2>1 DEF ReadingShape, ReadingOK, Elsewhere
<1>4. CASE ReadTimer
  <2>1. TCNT0 \in 0 .. Top /\ TCNT0 \in Nat
    BY ConstantsAreNumbers DEF ClockTypeOK
  <2>2. reading.at = "count" /\ reading' = [reading EXCEPT !.at = "timer", !.t = TCNT0]
    BY <1>4 DEF ReadTimer
  <2>3. /\ reading'.at = "timer" /\ reading'.t = TCNT0 /\ reading'.m = reading.m
        /\ reading'.since = reading.since /\ reading'.moved = reading.moved
    BY <2>2 DEF ReadingShape
  <2>4. ReadingShape'
    BY <2>1, <2>2 DEF ReadingShape
  <2> QED
    BY <1>1, <1>2, <2>1, <2>2, <2>3, <2>4 DEF ReadingOK, Elsewhere
<1>5. CASE MicrosReturns
  <2>1. reading' = NotReading
    BY <1>5 DEF MicrosReturns
  <2> QED
    BY <1>2, <2>1 DEF ReadingShape, ReadingOK, NotReading
<1>6. CASE DelayOver \/ UNCHANGED clockVars \/ \E ms \in Delays : Call(ms)
  <2>1. reading' = reading
    BY <1>6 DEF DelayOver, Call, clockVars
  <2> QED
    BY <1>1, <1>2, <2>1 DEF ReadingShape, ReadingOK, Elsewhere
<1> QED
  BY <1>3, <1>4, <1>5, <1>6

\* The clock's reading, the timer and the time that passed stay related as the invariant says.
THEOREM ClockInvariant == ClockSpec => []ClockInv
<1>1. ClockInv /\ [ClockNext]_clockVars => ClockInv'
  BY TickKeepsInv, OverflowKeepsInv, ReadingKeepsInv DEF ClockNext
<1> QED
  BY <1>1, ClockInvInit, PTL DEF ClockSpec

-----------------------------------------------------------------------------
(* The results *)

\* Every variable of the clock keeps its type (SystemClock.cpp: the fraction stays below
\* FRACT_MAX, however often the routine runs).
THEOREM ClockTypes == ClockSpec => []ClockTypeOK
  BY ClockInvariant, PTL DEF ClockInv

\* No millisecond is lost or counted twice by the overflow routine, as long as it is taken
\* before the next overflow: ISR( TIMER0_OVF_vect ).
THEOREM NoMillisecondLost == ClockSpec => []MillisExact
  BY ClockInvariant, PTL DEF ClockInv

\* micros: its count, timer and flag, read one after the other, together tell a time of
\* the call, if the routine is never as late as the last tick of the timer.
LEMMA MicrosTellsTime ==
  ASSUME MaxLatency < Top, ClockInv
  PROVE  MicrosInCall
<1> SUFFICES ASSUME reading.at = "timer" PROVE Micros \in reading.since .. ticks
  BY DEF MicrosInCall
<1> DEFINE c == timer0_overflow_count
<1>1. /\ reading.m = c /\ reading.since \in Nat
      /\ ticks = reading.since + (IF reading.moved THEN 1 ELSE 0)
      /\ reading.t \in 0 .. Top /\ c \in Nat /\ TCNT0 \in 0 .. Top
      /\ reading.moved \in BOOLEAN /\ TOV0 \in BOOLEAN
  BY DEF ClockInv, ReadingOK, ClockTypeOK
<1>2. ticks = (c + (IF TOV0 THEN 1 ELSE 0)) * (Top + 1) + TCNT0
  BY DEF ClockInv, MillisExact
<1>3. (TOV0 => TCNT0 < Top)
  BY <1>1, ConstantsAreNumbers DEF ClockInv, InTime
<1>4. Micros = (c + (IF TOV0 /\ reading.t < Top THEN 1 ELSE 0)) * (Top + 1) + reading.t
  BY <1>1 DEF Micros, Result
<1>5. c * (Top + 1) \in Int /\ (c + 1) * (Top + 1) = c * (Top + 1) + (Top + 1)
  BY <1>1, ConstantsAreNumbers, Distributes
<1>6. CASE reading.t = TCNT0
  <2>1. Micros = ticks
    BY <1>1, <1>2, <1>3, <1>4, <1>6, ConstantsAreNumbers
  <2> QED
    BY <1>1, <2>1
<1>7. CASE reading.moved /\ reading.t < Top /\ TCNT0 = reading.t + 1
  <2>1. Micros + 1 = ticks /\ Micros \in Int
    BY <1>1, <1>2, <1>4, <1>5, <1>7, ConstantsAreNumbers
  <2> QED
    BY <1>1, <1>7, <2>1
<1>8. CASE reading.moved /\ reading.t = Top /\ TCNT0 = 0 /\ TOV0
  <2>1. Micros = c * (Top + 1) + Top
    BY <1>1, <1>4, <1>8, ConstantsAreNumbers
  <2>2. ticks = c * (Top + 1) + (Top + 1)
    BY <1>1, <1>2, <1>5, <1>8, ConstantsAreNumbers
  <2> QED
    BY <1>1, <1>5, <1>8, <2>1, <2>2, ConstantsAreNumbers
<1> QED
  BY <1>6, <1>7, <1>8 DEF ClockInv, ReadingOK

\* The clock neither loses nor gains time and micros tells it right, at any frequency, for
\* any length of time and wherever the overflow falls between the three reads of micros.
THEOREM ClockIsExact ==
  ASSUME MaxLatency < Top
  PROVE  ClockSpec => []ClockExact
<1>1. ClockInv => ClockExact
  BY MicrosTellsTime DEF ClockInv, ClockExact
<1> QED
  BY <1>1, ClockInvariant, PTL

-----------------------------------------------------------------------------
(* delayMilliseconds *)

\* What a number is, modulo a period.
LEMMA Modulo ==
  ASSUME NEW n \in Nat, NEW period \in Nat \ {0}
  PROVE  /\ n % period \in 0 .. period - 1
         /\ \E q \in Nat : n = q * period + (n % period)
<1> DEFINE q == n \div period
<1>1. n % period \in 0 .. period - 1
  BY SMT
<1>2. n = q * period + (n % period)
  BY SMT
<1>3. q \in Nat
  BY SMT
<1> QED
  BY <1>1, <1>2, <1>3, Zenon

\* If 16 bits of a later and an earlier time differ by at least d, so do the times.
LEMMA WrappedDifference ==
  ASSUME NEW now \in Nat, NEW start \in Nat, NEW period \in Nat \ {0}, NEW d \in Nat,
         start <= now, ((now % period) - (start % period)) % period >= d
  PROVE  start + d <= now
<1> DEFINE r == now % period
           s == start % period
<1>1. r \in 0 .. period - 1 /\ s \in 0 .. period - 1
  BY Modulo
<1>2. PICK q \in Nat : now = q * period + r
  BY Modulo
<1>3. PICK p \in Nat : start = p * period + s
  BY Modulo
<1>4. (r - s) % period >= d
  BY Zenon
<1> HIDE DEF r, s
<1>5. (q - p) * period = q * period - p * period /\ (q - p) * period \in Int
  BY <1>1
<1>6. CASE r >= s
  <2>1. (r - s) % period = r - s
    BY <1>1, <1>6
  <2>2. (q - p) * period > -period
    BY <1>1, <1>2, <1>3, <1>5
  <2>3. (q - p) * period >= 0
    BY <2>2, SMT
  <2> QED
    BY <1>1, <1>2, <1>3, <1>4, <1>5, <2>1, <2>3
<1>7. CASE r < s
  <2>1. (r - s) % period = r - s + period
    BY <1>1, <1>7
  <2>2. (q - p) * period > 0
    BY <1>1, <1>2, <1>3, <1>5, <1>7
  <2>3. (q - p) * period >= period
    BY <2>2, SMT
  <2> QED
    BY <1>1, <1>2, <1>3, <1>4, <1>5, <2>1, <2>3
<1> QED
  BY <1>1, <1>6, <1>7

LEMMA ModuloUnique ==
  ASSUME NEW q \in Nat, NEW period \in Nat \ {0}, NEW r \in 0 .. period - 1
  PROVE  (q * period + r) % period = r
<1> DEFINE n == q * period + r
           s == n % period
<1>1. n \in Nat
  BY SMT
<1>2. s \in 0 .. period - 1
  BY <1>1, Modulo
<1>3. PICK p \in Nat : n = p * period + s
  BY <1>1, Modulo
<1> HIDE DEF s
<1>4. (q - p) * period = s - r
  BY <1>2, <1>3, SMT
<1>5. q - p = 0
  <2>1. CASE q - p > 0
    BY <1>2, <1>4, <2>1, SMT
  <2>2. CASE q - p < 0
    BY <1>2, <1>4, <2>2, SMT
  <2> QED
    BY <2>1, <2>2
<1>6. s = r
  BY <1>2, <1>4, <1>5
<1> QED
  BY <1>6 DEF s

LEMMA WrappedSum ==
  ASSUME NEW n \in Nat, NEW period \in Nat \ {0}, NEW d \in Nat
  PROVE  ((n % period) + d) % period = (n + d) % period
<1> DEFINE r == n % period
           s == (r + d) % period
<1>1. r \in 0 .. period - 1 /\ r + d \in Nat
  BY Modulo
<1>2. s \in 0 .. period - 1
  BY <1>1, Modulo
<1>3. PICK q \in Nat : n = q * period + r
  BY Modulo
<1>4. PICK p \in Nat : r + d = p * period + s
  BY <1>1, Modulo
<1> HIDE DEF r, s
<1>5. n + d = (q + p) * period + s
  BY <1>1, <1>2, <1>3, <1>4, SMT
<1>6. ((q + p) * period + s) % period = s
  BY <1>2, ModuloUnique
<1>7. (n + d) % period = s
  BY <1>5, <1>6
<1> QED
  BY <1>7 DEF r, s

DelayShape ==
  delaying \in [at : {"no", "start", "wait"}, start : Nat, ms : Nat, asked : Nat, since : Nat]

\* The loop of delayMilliseconds: its 16 bits of start stand for a time s, which is at
\* least the time of the call and the milliseconds counted since, and not in the future.
DelayOK ==
  /\ DelayShape
  /\ delaying.at = "start" =>
       reading.at # "no" /\ reading.since = delaying.since /\ delaying.ms = delaying.asked
  /\ delaying.at = "wait" =>
       /\ delaying.ms <= delaying.asked
       /\ reading.at # "no" => delaying.ms > 0
       /\ \E s \in Nat :
            /\ delaying.start = s % Wrap
            /\ delaying.since * MicrosPerTick + Milli * (delaying.asked - delaying.ms) <= s
            /\ s <= ticks * MicrosPerTick
            /\ reading.at # "no" => s <= reading.since * MicrosPerTick

LEMMA DelayInit == ClockInit => DelayOK
  BY DEF ClockInit, NotReading, NotDelaying, DelayOK, DelayShape

LEMMA TickKeepsDelay == ClockInv /\ DelayOK /\ Tick => DelayOK'
<1> SUFFICES ASSUME ClockInv, DelayOK, Tick PROVE DelayOK'
  OBVIOUS
<1>1. /\ delaying' = delaying /\ reading'.at = reading.at /\ reading'.since = reading.since
      /\ ticks' = ticks + 1 /\ ticks \in Nat
  <2>1. ticks \in Nat
    BY DEF ClockInv, ClockTypeOK
  <2>2. reading'.at = reading.at /\ reading'.since = reading.since
    BY DEF ClockInv, ReadingShape, Tick
  <2> QED
    BY <2>1, <2>2 DEF Tick
<1>2. ticks * MicrosPerTick <= ticks' * MicrosPerTick
  <2>1. (ticks + 1) * MicrosPerTick = ticks * MicrosPerTick + 1 * MicrosPerTick
    BY <1>1, ConstantsAreNumbers, Distributes
  <2> QED
    BY <1>1, <2>1, ConstantsAreNumbers
<1>3. ASSUME NEW s \in Nat, s <= ticks * MicrosPerTick PROVE s <= ticks' * MicrosPerTick
  BY <1>1, <1>2, <1>3, ConstantsAreNumbers
<1> QED
  BY <1>1, <1>3 DEF DelayOK, DelayShape

\* Steps that neither end micros nor move the time on.
LEMMA ReadingKeepsDelay ==
  ASSUME ClockInv, DelayOK,
         \/ Overflow \/ ReadCount \/ ReadTimer \/ DelayOver
         \/ \E ms \in Delays : Call(ms)
         \/ UNCHANGED clockVars
  PROVE  DelayOK'
<1>1. ticks' = ticks /\ ticks \in Nat
  BY DEF Overflow, ReadCount, ReadTimer, DelayOver, Call, Elsewhere, clockVars, ClockInv,
         ClockTypeOK
<1>2. CASE Overflow \/ UNCHANGED clockVars
  BY <1>1, <1>2 DEF Overflow, clockVars, DelayOK, DelayShape
<1>3. CASE ReadCount
  <2>1. /\ delaying' = delaying /\ reading.at = "no" /\ reading'.at = "count"
        /\ reading'.since = ticks
        /\ delaying.at = "wait" => delaying.ms > 0
    BY <1>3 DEF ReadCount
  <2>2. delaying.at # "start"
    BY <2>1 DEF DelayOK
  <2> QED
    BY <1>1, <2>1, <2>2 DEF DelayOK, DelayShape
<1>4. CASE ReadTimer
  <2>1. /\ delaying' = delaying /\ reading.at = "count" /\ reading'.at = "timer"
        /\ reading'.since = reading.since
    BY <1>4 DEF ReadTimer, ClockInv, ReadingShape
  <2> QED
    BY <1>1, <2>1 DEF DelayOK, DelayShape
<1>5. CASE DelayOver
  BY <1>5 DEF DelayOver, NotDelaying, DelayOK, DelayShape
<1>6. ASSUME NEW ms \in Delays, Call(ms)
      PROVE  DelayOK'
  <2>1. ms \in Nat /\ reading.since \in Nat
    BY <1>6, ClockAssumption DEF ClockInv, ReadingShape
  <2> QED
    BY <1>6, <2>1 DEF Call, DelayOK, DelayShape
<1> QED
  BY <1>2, <1>3, <1>4, <1>5, <1>6

\* micros returns into the delay: its result begins the delay, or ends a millisecond.
LEMMA ReturnKeepsDelay ==
  ASSUME MaxLatency < Top, ClockInv, DelayOK, MicrosReturns
  PROVE  DelayOK'
<1> DEFINE time == Micros * MicrosPerTick
           now == Unsigned16(time)
<1>1. ticks \in Nat /\ reading.since \in Nat /\ reading.at = "timer"
  BY DEF ClockInv, ClockTypeOK, ReadingShape, MicrosReturns
<1>2. Micros \in reading.since .. ticks
  BY <1>1, MicrosTellsTime DEF MicrosInCall
<1>3. /\ time \in Nat /\ reading.since * MicrosPerTick <= time
      /\ time <= ticks * MicrosPerTick
  <2>1. PICK a \in Nat : Micros = reading.since + a
    <3>1. Micros - reading.since \in Nat /\ Micros = reading.since + (Micros - reading.since)
      BY <1>1, <1>2
    <3> QED
      BY <3>1
  <2>2. PICK b \in Nat : ticks = Micros + b
    <3>1. ticks - Micros \in Nat /\ ticks = Micros + (ticks - Micros)
      BY <1>1, <1>2
    <3> QED
      BY <3>1
  <2>3. Micros * MicrosPerTick = reading.since * MicrosPerTick + a * MicrosPerTick
    BY <1>1, <2>1, ConstantsAreNumbers, Distributes
  <2>4. ticks * MicrosPerTick = Micros * MicrosPerTick + b * MicrosPerTick
    BY <1>1, <1>2, <2>2, ConstantsAreNumbers, Distributes
  <2>5. \A x \in Nat : x * MicrosPerTick \in Nat
    BY ConstantsAreNumbers
  <2>6. Micros \in Nat
    BY <1>1, <1>2
  <2> QED
    BY <1>1, <2>3, <2>4, <2>5, <2>6
<1>4. /\ Wrap \in Nat \ {0} /\ now = time % Wrap /\ now \in Nat
  <2>1. Wrap \in Nat \ {0}
    BY ClockAssumption
  <2>2. time % Wrap \in 0 .. Wrap - 1
    BY <1>3, <2>1, Modulo
  <2> QED
    BY <2>1, <2>2 DEF Unsigned16
<1>5. ticks' = ticks /\ reading'.at = "no"
  BY DEF MicrosReturns, Elsewhere, NotReading
<1>6. CASE delaying.at = "start"
  <2>1. delaying' = [delaying EXCEPT !.at = "wait", !.start = now]
    BY <1>6 DEF MicrosReturns
  <2>2. delaying.ms = delaying.asked /\ delaying.since = reading.since /\ delaying.ms \in Nat
    BY <1>6 DEF DelayOK, DelayShape
  <2>3. delaying.since * MicrosPerTick + Milli * (delaying.asked - delaying.ms) <= time
    <3>1. delaying.asked - delaying.ms = 0
      BY <2>2
    <3>2. Milli * 0 = 0
      BY ConstantsAreNumbers
    <3>3. delaying.since * MicrosPerTick \in Nat
      BY <1>1, <2>2, ConstantsAreNumbers
    <3> HIDE DEF time
    <3> QED
      BY <1>3, <2>2, <3>1, <3>2, <3>3
  <2> HIDE DEF time, now
  <2>4. /\ delaying'.at = "wait" /\ delaying'.start = now /\ delaying'.ms = delaying.ms
        /\ delaying'.asked = delaying.asked /\ delaying'.since = delaying.since
    BY <2>1 DEF DelayOK, DelayShape
  <2>5. DelayShape'
    BY <1>4, <2>1 DEF DelayOK, DelayShape
  <2>6. \E s \in Nat :
          /\ delaying'.start = s % Wrap
          /\ delaying'.since * MicrosPerTick + Milli * (delaying'.asked - delaying'.ms) <= s
          /\ s <= ticks' * MicrosPerTick
    BY <1>3, <1>4, <1>5, <2>3, <2>4
  <2> QED
    BY <1>5, <2>2, <2>4, <2>5, <2>6 DEF DelayOK
<1>7. CASE delaying.at = "wait" /\ Unsigned16(now - delaying.start) >= Milli
  <2>1. delaying' = [delaying EXCEPT !.ms = @ - 1, !.start = Unsigned16(@ + Milli)]
    BY <1>7 DEF MicrosReturns
  <2>2. PICK s \in Nat :
          /\ delaying.start = s % Wrap
          /\ delaying.since * MicrosPerTick + Milli * (delaying.asked - delaying.ms) <= s
          /\ s <= reading.since * MicrosPerTick
    BY <1>1, <1>7 DEF DelayOK
  <2> HIDE DEF time, now
  <2>3. s <= time
    <3>1. reading.since * MicrosPerTick \in Nat
      BY <1>1, ConstantsAreNumbers
    <3> QED
      BY <1>3, <2>2, <3>1
  <2>4. s + Milli <= time
    <3>1. ((time % Wrap) - (s % Wrap)) % Wrap >= Milli
      BY <1>4, <1>7, <2>2 DEF Unsigned16
    <3> QED
      BY <1>3, <1>4, <2>3, <3>1, WrappedDifference, ConstantsAreNumbers
  <2>5. delaying.ms \in Nat /\ delaying.ms > 0 /\ delaying.asked \in Nat /\ delaying.since \in Nat
        /\ delaying.ms <= delaying.asked
    BY <1>1, <1>7 DEF DelayOK, DelayShape
  <2>6. /\ delaying'.at = "wait" /\ delaying'.ms = delaying.ms - 1
        /\ delaying'.asked = delaying.asked /\ delaying'.since = delaying.since
        /\ delaying'.start = (delaying.start + Milli) % Wrap
    BY <1>7, <2>1 DEF DelayOK, DelayShape, Unsigned16
  <2>7. delaying'.start = (s + Milli) % Wrap /\ delaying'.start \in Nat
    <3>1. s + Milli \in Nat /\ Wrap \in Nat \ {0}
      BY <1>4, ConstantsAreNumbers
    <3>2. (s + Milli) % Wrap \in 0 .. Wrap - 1
      BY <3>1, Modulo
    <3> QED
      BY <2>2, <2>6, <3>1, <3>2, ConstantsAreNumbers, WrappedSum
  <2>8. DelayShape'
    <3>1. delaying.ms - 1 \in Nat /\ Unsigned16(delaying.start + Milli) \in Nat
      BY <2>5, <2>6, <2>7 DEF Unsigned16
    <3> QED
      BY <2>1, <3>1 DEF DelayOK, DelayShape
  <2>9. delaying'.since * MicrosPerTick + Milli * (delaying'.asked - delaying'.ms) <= s + Milli
    <3>1. delaying'.asked - delaying'.ms = (delaying.asked - delaying.ms) + 1
      BY <2>5, <2>6
    <3>2. Milli * ((delaying.asked - delaying.ms) + 1)
            = Milli * (delaying.asked - delaying.ms) + Milli * 1
      BY <2>5, ConstantsAreNumbers, Distributes
    <3>3. /\ Milli * (delaying.asked - delaying.ms) \in Int /\ Milli * 1 = Milli
          /\ delaying.since * MicrosPerTick \in Int /\ Milli \in Int
      BY <2>5, ConstantsAreNumbers
    <3> QED
      BY <2>2, <2>6, <3>1, <3>2, <3>3
  <2>10. s + Milli \in Nat /\ s + Milli <= ticks' * MicrosPerTick
    <3>1. ticks * MicrosPerTick \in Nat
      BY <1>1, ConstantsAreNumbers
    <3> QED
      BY <1>3, <1>5, <2>4, <3>1, ConstantsAreNumbers
  <2> QED
    BY <1>5, <2>5, <2>6, <2>7, <2>8, <2>9, <2>10 DEF DelayOK
<1>8. CASE /\ ~(delaying.at = "start")
           /\ ~(delaying.at = "wait" /\ Unsigned16(now - delaying.start) >= Milli)
  <2>1. delaying' = delaying
    BY <1>8 DEF MicrosReturns
  <2> HIDE DEF time, now
  <2> QED
    BY <1>5, <1>8, <2>1 DEF DelayOK, DelayShape
<1> QED
  BY <1>6, <1>7, <1>8

\* A delay is never shorter than it was asked for, however long it is, however seldom the
\* loop gets to look at the clock, and however often its 16 bits wrap: delayMilliseconds.
THEOREM DelayNeverShort ==
  ASSUME MaxLatency < Top
  PROVE  ClockSpec => []DelayLongEnough
<1>1. ClockInv /\ DelayOK /\ [ClockNext]_clockVars => DelayOK'
  BY TickKeepsDelay, ReadingKeepsDelay, ReturnKeepsDelay DEF ClockNext
<1>2. ClockInv /\ DelayOK => DelayLongEnough
  <2> SUFFICES ASSUME ClockInv, DelayOK, delaying.at = "wait", delaying.ms = 0
               PROVE  (ticks - delaying.since) * MicrosPerTick >= Milli * delaying.asked
    BY DEF DelayLongEnough
  <2>1. /\ ticks \in Nat /\ delaying.since \in Nat /\ delaying.asked \in Nat
        /\ delaying.asked - delaying.ms = delaying.asked
    BY DEF ClockInv, ClockTypeOK, DelayOK, DelayShape
  <2>2. PICK s \in Nat :
          /\ delaying.since * MicrosPerTick + Milli * delaying.asked <= s
          /\ s <= ticks * MicrosPerTick
    BY <2>1 DEF DelayOK
  <2>3. (ticks - delaying.since) * MicrosPerTick + delaying.since * MicrosPerTick
          = ticks * MicrosPerTick
    BY <2>1, ConstantsAreNumbers, Distributes
  <2>4. /\ (ticks - delaying.since) * MicrosPerTick \in Int
        /\ delaying.since * MicrosPerTick \in Int
        /\ ticks * MicrosPerTick \in Int /\ Milli * delaying.asked \in Int
    BY <2>1, ConstantsAreNumbers
  <2> QED
    BY <2>2, <2>3, <2>4
<1> QED
  BY <1>1, <1>2, DelayInit, ClockInvariant, PTL DEF ClockSpec
=============================================================================
