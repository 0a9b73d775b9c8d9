---------------------------- MODULE Temperature ----------------------------
(***************************************************************************)
(* What the driver of the thermometers makes of the nine bytes it reads    *)
(* (lib/DS18X20): the check sum, the temperature in units of 1/10 and of   *)
(* 1/10000 degree, and their text.  Pure functions, each state a sample.   *)
(***************************************************************************)
EXTENDS Integers, Sequences, SequencesExt

CONSTANTS Samples, Damages \* what is tried: readings, and sets of damaged bits

VARIABLE sample

TemperatureInit == sample \in Samples \cup [damaged : Damages]

-----------------------------------------------------------------------------
(* crc8, least significant bit first, on bits *)

CrcStep(crc, bit) ==
  LET feedback == (crc[1] + bit) % 2
  IN [k \in 1 .. 8 |-> CASE k \in {3, 4} -> (crc[k + 1] + feedback) % 2
                         [] k = 8 -> feedback
                         [] OTHER -> crc[k + 1]]

CrcWithoutFeedback(bits) ==
  FoldLeft(LAMBDA crc, bit : [k \in 1 .. 8 |-> IF k = 8 THEN (crc[1] + bit) % 2 ELSE crc[k + 1]],
           [k \in 1 .. 8 |-> 0], bits)

Crc8(bits) == FoldLeft(CrcStep, [k \in 1 .. 8 |-> 0], bits)

-----------------------------------------------------------------------------
(* DS18X20_raw_to_maxres, raw_to_decicelsius and meas_to_cel begin alike *)

DS18S20_FAMILY_CODE == 16
DS18B20_FAMILY_CODE == 40
DS1822_FAMILY_CODE == 34

Unsigned16(n) == n % 65536

\* A DS18S20 counts half degrees, and what remains of the next in sp[6].
Measure(reading) ==
  IF reading.family = DS18S20_FAMILY_CODE
  THEN Unsigned16((reading.raw - (reading.raw % 2)) * 8 + (16 - reading.remain) - 4)
  ELSE reading.raw

Negative(reading) == Measure(reading) >= 32768

OnesComplement(reading) ==
  IF Negative(reading) THEN 65535 - Measure(reading) ELSE Measure(reading)

Magnitude(reading) ==
  IF Negative(reading) THEN 65536 - Measure(reading) ELSE Measure(reading)

\* The bits a coarser resolution leaves undefined are cleared, after the negation.
Defined(reading) ==
  LET magnitude == Magnitude(reading)
  IN IF reading.family = DS18S20_FAMILY_CODE THEN magnitude
     ELSE magnitude - (magnitude % (2 ^ (12 - reading.resolution)))

Signed(reading, n) == IF Negative(reading) THEN -n ELSE n

RawToMaxres(reading) ==
  LET measure == Defined(reading)
  IN Signed(reading, (measure \div 16) * 10000 + (measure % 16) * 625)

Rounded(reading) == (Defined(reading) % 16) * 640 + (IF Negative(reading) THEN 0 ELSE 512)

DS18X20_INVALID_DECICELSIUS == 2000

RawToDecicelsius(reading) ==
  LET decicelsius == Signed(reading, (Defined(reading) \div 16) * 10 + Rounded(reading) \div 1024)
  IN IF decicelsius < -550 \/ decicelsius > 1250 THEN DS18X20_INVALID_DECICELSIUS
     ELSE decicelsius

\* Degrees and sixteenths, for the verbose listing.
MeasToCel(reading) == [cel |-> (Defined(reading) \div 16) % 256, frac |-> Defined(reading) % 16]

-----------------------------------------------------------------------------
(* DS18X20_format_from_decicelsius, format_from_maxres: characters, digits as numbers *)

Abs(n) == IF n < 0 THEN -n ELSE n
Digits(n) == CHOOSE c \in 1 .. 8 : n < 10 ^ c /\ (c = 1 \/ n >= 10 ^ (c - 1))
Digit(n, i) == (n \div 10 ^ i) % 10

\* The digits backward and the sign are written from behind, with the point before the
\* digit at pointAt: the first character is the sign, also without a digit after it.
Written(value, digits, pointAt) ==
  LET sign == IF value < 0 THEN "-" ELSE "+"
      before == IF digits > pointAt + 1 THEN [k \in 1 .. digits - pointAt - 1 |-> Digit(Abs(value), digits - k)]
                ELSE <<>>
      after == LET n == IF digits > pointAt THEN pointAt + 1 ELSE digits
               IN [k \in 1 .. n |-> Digit(Abs(value), n - k)]
  IN [sign |-> sign, before |-> before, point |-> digits > pointAt, after |-> after]

FormatFromDecicelsius(value) == Written(value, Digits(Abs(value)), 0)

\* Two and three digits get a leading 0, one does not.
FormatFromMaxresUnpadded(value) == Written(value, Digits(Abs(value)), 3)

FormatFromMaxres(value) ==
  LET digits == Digits(Abs(value))
  IN Written(value, IF digits \in 2 .. 3 THEN digits + 1 ELSE digits, 3)

-----------------------------------------------------------------------------
(* What they should yield *)

Sixteenths(reading) ==
  LET n == IF reading.family = DS18S20_FAMILY_CODE
           THEN (reading.raw - (reading.raw % 2)) * 8 + 12 - reading.remain
           ELSE reading.raw
  IN IF reading.raw >= 32768 THEN n - (IF reading.family = DS18S20_FAMILY_CODE THEN 8 * 65536 ELSE 65536)
     ELSE n

Step(reading) ==
  IF reading.family = DS18S20_FAMILY_CODE THEN 1 ELSE 2 ^ (12 - reading.resolution)

\* The text with its sign and point taken for a number of 1/10000 (or 1/10) degrees.
ReadBack(text) ==
  LET n == FoldLeft(LAMBDA acc, d : 10 * acc + d, 0, text.before \o text.after)
  IN IF text.sign = "-" THEN -n ELSE n

Size(text) == 2 + Len(text.before) + Len(text.after) + (IF text.point THEN 1 ELSE 0) \* with the sign and the end

Reading == "family" \in DOMAIN sample

\* At every temperature of the range and for every family and resolution the value is
\* less than one step of the resolution off what the sensor counts, and exact at the
\* finest; in tenths it is less than a tenth off that, unless it is out of the range.
TemperatureExact ==
  Reading =>
    LET maxres == RawToMaxres(sample)
        decicelsius == RawToDecicelsius(sample)
    IN /\ Abs(maxres - 625 * Sixteenths(sample)) < 625 * Step(sample)
       /\ decicelsius # DS18X20_INVALID_DECICELSIUS => Abs(1000 * decicelsius - maxres) < 1000
       /\ decicelsius = DS18X20_INVALID_DECICELSIUS => maxres < -550000 \/ maxres > 1250000
       /\ MeasToCel(sample).cel * 10000 + MeasToCel(sample).frac * 625 = Abs(maxres)

\* The texts read back as the values and fit into the seven and ten characters that
\* callers provide.
TextsReadBack ==
  Reading =>
    LET maxres == RawToMaxres(sample)
        decicelsius == RawToDecicelsius(sample)
    IN /\ decicelsius # DS18X20_INVALID_DECICELSIUS =>
            /\ ReadBack(FormatFromDecicelsius(decicelsius)) = decicelsius
            /\ Size(FormatFromDecicelsius(decicelsius)) <= 7
       /\ ReadBack(FormatFromMaxres(maxres)) = maxres
       /\ maxres # 0 => FormatFromMaxres(maxres).point
       /\ Size(FormatFromMaxres(maxres)) <= 10

ScratchpadBits == 72

\* One or two damaged bits among the 72 of a scratchpad are noticed: by linearity it is
\* enough that the check sum of the damage alone is not zero.
DamageNoticed ==
  ~Reading =>
    Crc8([k \in 1 .. ScratchpadBits |-> IF k \in sample.damaged THEN 1 ELSE 0])
      # [k \in 1 .. 8 |-> 0]
=============================================================================
