------------------------------- MODULE Infrared -------------------------------
(***************************************************************************)
(* Infrared codes, lib/IRremote: how a code is sent, in microseconds, and  *)
(* how the decoders, tried one after the other, make out what was sent     *)
(* from what the receiver measured, in ticks.  Pure functions, each state  *)
(* a sample.  A signal is a sequence of marks (positive) and spaces        *)
(* (negative); a code is a sequence of bits, highest first.                *)
(***************************************************************************)
EXTENDS Integers, Sequences, SequencesExt, FiniteSetsExt

CONSTANTS
  IrSamples    \* records of protocol, bits, excess, late, gap and previous

VARIABLE ir

IrInit == ir \in IrSamples

-----------------------------------------------------------------------------
(* IRsend *)

Coded(head, one, zero, bits, foot) ==
  head \o FlattenSeq([i \in DOMAIN bits |-> IF bits[i] = 1 THEN one ELSE zero]) \o foot

SendNEC(bits)       == Coded(<<9000, -4500>>, <<560, -1690>>, <<560, -560>>, bits, <<560>>)
SendSony(bits)      == Coded(<<2400, -600>>, <<1200, -600>>, <<600, -600>>, bits, <<>>)
SendSAMSUNG(bits)   == Coded(<<5000, -5000>>, <<560, -1600>>, <<560, -560>>, bits, <<560>>)
SendPanasonic(bits) == Coded(<<3502, -1750>>, <<502, -1244>>, <<502, -400>>, bits, <<502>>)
SendDenon(bits)     == Coded(<<300, -750>>, <<300, -1800>>, <<300, -750>>, bits, <<300>>)
SendDISH(bits)      == Coded(<<400, -6100>>, <<400, -1700>>, <<400, -2800>>, bits, <<400>>)
SendLG(bits)        == Coded(<<8000, -4000, 600>>, <<-1600, 600>>, <<-550, 600>>, bits, <<>>)
SendWhynter(bits) ==
  Coded(<<750, -750, 2850, -2850>>, <<750, -2150>>, <<750, -750>>, bits, <<750, -750>>)
SendJVC(bits, repeat) ==
  Coded(IF repeat THEN <<>> ELSE <<8000, -4000>>, <<600, -1600>>, <<600, -550>>, bits, <<600>>)

AiwaPre == <<1, 0, 0, 0, 1, 0, 0, 1, 1, 1, 1, 1, 1, 0, 1, 1, 1, 0, 1, 1, 0, 0, 0, 0, 0, 0>>
SendAiwaRCT501(bits) ==
  Coded(<<8800, -4500>>, <<500, -600>>, <<500, -1700>>, AiwaPre \o bits \o <<0>>, <<500>>)

\* Three bursts, the second with its last ten bits inverted; delay(40) in between.
SendSharp(bits) ==
  LET inverted == [i \in DOMAIN bits |-> IF i > Len(bits) - 10 THEN 1 - bits[i] ELSE bits[i]]
      burst(code) == Coded(<<>>, <<245, -1805>>, <<245, -795>>, code, <<245, -40795>>)
  IN burst(bits) \o burst(inverted) \o burst(bits)

SendRC5(bits) == Coded(<<889, -889, 889>>, <<-889, 889>>, <<889, -889>>, bits, <<>>)

\* The fourth bit is the trailer of double width.
SendRC6(bits) ==
  <<2666, -889, 444, -444>>
    \o FlattenSeq([i \in DOMAIN bits |->
         LET t == IF i = 4 THEN 888 ELSE 444
         IN IF bits[i] = 1 THEN <<t, -t>> ELSE <<-t, t>>])

\* LegoPfBitStreamEncoder: start, 16 bits, stop; a repeated message has its pauses after
\* the stop bit computed in int, 16 bits wide on the board.
LegoLength(bits) ==
  18 * 158 + 2 * 1026 + FoldLeft(LAMBDA sum, bit : sum + IF bit = 1 THEN 553 ELSE 263, 0, bits)

Int16(n) == ((n + 32768) % 65536) - 32768

LegoStop(bits, n) ==
  LET channel == 1 + 2 * bits[3] + bits[4]
      messages == CASE n \in {0, 1} -> 5 [] n \in {2, 3} -> 6 + 2 * channel
  IN IF n = 4 THEN 1026 ELSE Int16(1026 + messages * 16000 - LegoLength(bits)) % 65536

SendLegoPowerFunctions(bits, repeat) ==
  FlattenSeq([n \in 1 .. IF repeat THEN 5 ELSE 1 |->
    Coded(<<158, -1026>>, <<158, -553>>, <<158, -263>>, bits,
          <<158, -(IF repeat THEN LegoStop(bits, n - 1) ELSE 1026)>>)])

-----------------------------------------------------------------------------
(* What the receiver records: see InfraredReceiver *)

USECPERTICK == 50
RAWBUF == 101
Gap == 5000

\* Marks or spaces that follow one another are one.
Joined(signal) ==
  FoldLeft(LAMBDA s, d : IF s # <<>> /\ (Last(s) > 0 <=> d > 0)
                         THEN [s EXCEPT ![Len(s)] = @ + d] ELSE Append(s, d), <<>>, signal)

\* Up to the first gap.
Burst(signal) ==
  LET joined == Joined(signal)
  IN SubSeq(joined, 1, Min({k \in 1 .. Len(joined) + 1 : k > Len(joined) \/ joined[k] < -Gap
                                                          \/ (k = Len(joined) /\ joined[k] < 0)}) - 1)

\* A receiver shows marks excess longer and spaces shorter; a duration that is no multiple
\* of a tick is counted up or, if not late, down.
Ticks(duration, excess, late) ==
  ((IF duration > 0 THEN duration + excess ELSE -duration - excess)
     + (IF late THEN USECPERTICK - 1 ELSE 0)) \div USECPERTICK

\* rawbuf, with the gap before the code at 0 and an earlier code behind it; and rawlen.
Recorded(burst, gap, excess, late, buffer) ==
  [k \in 0 .. RAWBUF - 1 |->
     IF k = 0 THEN gap ELSE IF k <= Len(burst) THEN Ticks(burst[k], excess, late) ELSE buffer[k]]

-----------------------------------------------------------------------------
(* MATCH, MATCH_MARK, MATCH_SPACE: a tolerance of 25 % *)

MARK_EXCESS == 100
MATCH(measured, desired) ==
  measured >= (3 * desired) \div 200 /\ measured <= (5 * desired) \div 200 + 1
MATCH_MARK(measured, desired) == MATCH(measured, desired + MARK_EXCESS)
MATCH_SPACE_AS_MARK(measured, desired) == MATCH(measured, desired + MARK_EXCESS)
MATCH_SPACE(measured, desired) == MATCH(measured, desired - MARK_EXCESS)

REPEAT == <<"repeat">>
Nothing == [type |-> "none", value |-> <<>>, bits |-> 0]
Result(type, value) == [type |-> type, value |-> value, bits |-> Len(value)]
Repeated(type) == [type |-> type, value |-> REPEAT, bits |-> 0]
If(condition, result) == IF condition THEN result ELSE Nothing

\* n bits from an offset on, told apart by their spaces.
SpacesFit(raw, from, n, mark, one, zero) ==
  \A i \in 0 .. n - 1 :
    /\ MATCH_MARK(raw[from + 2 * i], mark)
    /\ MATCH_SPACE(raw[from + 2 * i + 1], one) \/ MATCH_SPACE(raw[from + 2 * i + 1], zero)
SpaceBits(raw, from, n, one) ==
  [i \in 1 .. n |-> IF MATCH_SPACE(raw[from + 2 * i - 1], one) THEN 1 ELSE 0]

\* Bits that are told apart by their marks, at the offsets from, from + 2, ... below last.
MarksFit(raw, from, last, one, zero) ==
  \A k \in from .. last : (k - from) % 2 = 0 => MATCH_MARK(raw[k], one) \/ MATCH_MARK(raw[k], zero)
MarkBits(raw, from, last, one) ==
  [i \in 1 .. (last - from) \div 2 + 1 |-> IF MATCH_MARK(raw[from + 2 * i - 2], one) THEN 1 ELSE 0]

\* The first offset, in steps of two, of a space that does not fit, or the end.
SpacesEnd(raw, from, end, space) ==
  Min({k \in from .. end + 1 : (k - from) % 2 = 0 /\ (k >= end \/ ~MATCH_SPACE(raw[k], space))})

-----------------------------------------------------------------------------
(* The decoders *)

DecodeNEC(raw, len) ==
  IF ~MATCH_MARK(raw[1], 9000) THEN Nothing
  ELSE IF len = 4 /\ MATCH_SPACE(raw[2], 2250) /\ MATCH_MARK(raw[3], 560) THEN Repeated("NEC")
  ELSE If(len >= 68 /\ MATCH_SPACE(raw[2], 4500) /\ SpacesFit(raw, 3, 32, 560, 1690, 560),
          Result("NEC", SpaceBits(raw, 3, 32, 1690)))

\* The gap is taken for microseconds, although it is in ticks: a code that follows within
\* 25 ms is a repetition, as a rule of another protocol.
DecodeSony(raw, len) ==
  LET end == SpacesEnd(raw, 2, len - 1, 600)
      bits == IF end < len - 1 THEN end \div 2 ELSE (end - 1) \div 2
  IN IF len < 26 THEN Nothing
     ELSE IF raw[0] < 500 THEN Repeated("SANYO")
     ELSE If(MATCH_MARK(raw[1], 2400) /\ MarksFit(raw, 3, end - 1, 1200, 600) /\ bits >= 12,
             [type |-> "SONY", value |-> MarkBits(raw, 3, end - 1, 1200), bits |-> bits])

DecodeSanyo(raw, len) ==
  LET end == SpacesEnd(raw, 3, len - 1, 950)
      bits == IF end < len - 1 THEN end \div 2 ELSE (end - 1) \div 2
  IN IF len < 26 THEN Nothing
     ELSE IF raw[0] < 800 THEN Repeated("SANYO")
     ELSE If(/\ MATCH_MARK(raw[1], 3500) /\ MATCH_MARK(raw[2], 3500)
             /\ MarksFit(raw, 4, end - 1, 2400, 700) /\ bits >= 12,
             [type |-> "SANYO", value |-> MarkBits(raw, 4, end - 1, 2400), bits |-> bits])

DecodeMitsubishi(raw, len) ==
  LET end == SpacesEnd(raw, 3, len, 350)
      last == IF end < len THEN end - 1 ELSE end - 3
      bits == (last - 2) \div 2 + 1
  IN If(/\ len >= 34 /\ MATCH_MARK(raw[1], 350)
        /\ MarksFit(raw, 2, last, 1950, 750) /\ bits >= 16,
        Result("MITSUBISHI", MarkBits(raw, 2, last, 1950)))

\* getRClevel: how often t1 fits into a duration gives as many levels.
RCLevels(raw, from, len, t1) ==
  FlattenSeq([i \in 1 .. len - from |->
    LET k == from + i - 1
        correction == IF k % 2 = 1 THEN MARK_EXCESS ELSE -MARK_EXCESS
        level == IF k % 2 = 1 THEN "MARK" ELSE "SPACE"
        fits == {n \in 1 .. 3 : MATCH(raw[k], n * t1 + correction)}
    IN IF fits = {} THEN <<"none">> ELSE [j \in 1 .. Min(fits) |-> level]])

Level(levels, i) == IF i > Len(levels) THEN "SPACE" ELSE levels[i]

DecodeRC5(raw, len) ==
  LET levels == RCLevels(raw, 1, len, 889)
      nbits == (Len(levels) - 2) \div 2
      pair(i) == <<Level(levels, 2 * i + 2), Level(levels, 2 * i + 3)>>
  IN If(/\ len >= 13
        /\ Level(levels, 1) = "MARK" /\ Level(levels, 2) = "SPACE" /\ Level(levels, 3) = "MARK"
        /\ \A i \in 1 .. nbits : pair(i) \in {<<"SPACE", "MARK">>, <<"MARK", "SPACE">>},
        Result("RC5", [i \in 1 .. nbits |-> IF pair(i) = <<"SPACE", "MARK">> THEN 1 ELSE 0]))

DecodeRC6(raw, len) ==
  LET levels == RCLevels(raw, 3, len, 444)
      \* the levels before bit i, with the double trailer
      before(i) == 2 + 2 * (i - 1) + IF i > 4 THEN 2 ELSE 0
      nbits == Min({n \in 0 .. Len(levels) : before(n + 1) >= Len(levels)})
      width(i) == IF i = 4 THEN 2 ELSE 1
      half(i, h) == {Level(levels, before(i) + h * width(i) + j) : j \in 1 .. width(i)}
  IN If(/\ len >= 1 /\ MATCH_MARK(raw[1], 2666) /\ MATCH_SPACE(raw[2], 889)
        /\ Level(levels, 1) = "MARK" /\ Level(levels, 2) = "SPACE"
        /\ \A i \in 1 .. nbits :
             <<half(i, 0), half(i, 1)>> \in {<<{"MARK"}, {"SPACE"}>>, <<{"SPACE"}, {"MARK"}>>},
        Result("RC6", [i \in 1 .. nbits |-> IF half(i, 0) = {"MARK"} THEN 1 ELSE 0]))

\* Without a look at rawlen; the address is in the first 16 bits.
DecodePanasonic(raw, len) ==
  If(/\ MATCH_MARK(raw[1], 3502) /\ MATCH_MARK(raw[2], 1750)
     /\ SpacesFit(raw, 3, 48, 502, 1244, 400),
     Result("PANASONIC", SpaceBits(raw, 3, 48, 1244)))

DecodeLG(raw, len) ==
  If(/\ len >= 57 /\ MATCH_MARK(raw[1], 8000) /\ MATCH_SPACE(raw[2], 4000)
     /\ SpacesFit(raw, 3, 28, 600, 1600, 550) /\ MATCH_MARK(raw[59], 600),
     Result("LG", SpaceBits(raw, 3, 28, 1600)))

DecodeJVC(raw, len) ==
  IF len = 34 /\ MATCH_MARK(raw[1], 600) /\ MATCH_MARK(raw[len - 1], 600) THEN Repeated("JVC")
  ELSE If(/\ MATCH_MARK(raw[1], 8000) /\ len >= 33 /\ MATCH_SPACE(raw[2], 4000)
          /\ SpacesFit(raw, 3, 16, 600, 1600, 550) /\ MATCH_MARK(raw[35], 600),
          Result("JVC", SpaceBits(raw, 3, 16, 1600)))

DecodeSAMSUNG(raw, len) ==
  IF ~MATCH_MARK(raw[1], 5000) THEN Nothing
  ELSE IF len = 4 /\ MATCH_SPACE(raw[2], 2250) /\ MATCH_MARK(raw[3], 560) THEN Repeated("SAMSUNG")
  ELSE If(len >= 68 /\ MATCH_SPACE(raw[2], 5000) /\ SpacesFit(raw, 3, 32, 560, 1600, 560),
          Result("SAMSUNG", SpaceBits(raw, 3, 32, 1600)))

DecodeWhynter(raw, len) ==
  If(/\ len >= 70 /\ MATCH_MARK(raw[1], 750) /\ MATCH_SPACE(raw[2], 750)
     /\ MATCH_MARK(raw[3], 2850) /\ MATCH_SPACE(raw[4], 2850)
     /\ SpacesFit(raw, 5, 32, 750, 2150, 750) /\ MATCH_MARK(raw[69], 750),
     Result("WHYNTER", SpaceBits(raw, 5, 32, 2150)))

\* The loop ends four entries early or at a space that is no bit.
DecodeAiwaRCT501(raw, len) ==
  LET isBit(k) == MATCH_SPACE(raw[k], 600) \/ MATCH_SPACE(raw[k], 1700)
      end == Min({k \in 29 .. len + 1 : k % 2 = 1 /\ (k >= len - 4 \/ ~isBit(k + 1))})
      offset == IF end < len - 4 THEN end + 1 ELSE end
  IN If(/\ len >= 88 /\ MATCH_MARK(raw[1], 8800) /\ MATCH_SPACE(raw[2], 4500)
        /\ \A k \in 29 .. offset - 1 : k % 2 = 1 => MATCH_MARK(raw[k], 500)
        /\ (offset - 1) \div 2 >= 42,
        [type |-> "AIWA_RC_T501", bits |-> (offset - 1) \div 2,
         value |-> [i \in 1 .. (end - 29) \div 2 |-> IF MATCH_SPACE(raw[28 + 2 * i], 600) THEN 1 ELSE 0]])

DecodeDenon(raw, len) ==
  If(/\ len = 32 /\ MATCH_MARK(raw[1], 300) /\ MATCH_SPACE(raw[2], 750)
     /\ SpacesFit(raw, 3, 14, 300, 1800, 750),
     Result("DENON", SpaceBits(raw, 3, 14, 1800)))

\* decodeHash: equal comparisons give equal hashes.
Compare(old, new) == IF 10 * new < 8 * old THEN 0 ELSE IF 10 * old < 8 * new THEN 2 ELSE 1
DecodeHash(raw, len) ==
  If(len >= 6, [type |-> "UNKNOWN", value |-> [i \in 1 .. len - 3 |-> Compare(raw[i], raw[i + 2])],
                bits |-> 32])

\* decode: the first that recognizes the code.
Decode(raw, len) ==
  SelectSeq(<<DecodeNEC(raw, len), DecodeSony(raw, len), DecodeSanyo(raw, len),
              DecodeMitsubishi(raw, len), DecodeRC5(raw, len), DecodeRC6(raw, len),
              DecodePanasonic(raw, len), DecodeLG(raw, len), DecodeJVC(raw, len),
              DecodeSAMSUNG(raw, len), DecodeWhynter(raw, len), DecodeAiwaRCT501(raw, len),
              DecodeDenon(raw, len), DecodeHash(raw, len)>>, LAMBDA r : r # Nothing)

-----------------------------------------------------------------------------
Signal(protocol, bits) ==
  CASE protocol = "NEC" -> SendNEC(bits)
    [] protocol = "SONY" -> SendSony(bits)
    [] protocol = "RC5" -> SendRC5(bits)
    [] protocol = "RC6" -> SendRC6(bits)
    [] protocol = "PANASONIC" -> SendPanasonic(bits)
    [] protocol = "LG" -> SendLG(bits)
    [] protocol = "JVC" -> SendJVC(bits, FALSE)
    [] protocol = "JVC again" -> SendJVC(bits, TRUE)
    [] protocol = "SAMSUNG" -> SendSAMSUNG(bits)
    [] protocol = "WHYNTER" -> SendWhynter(bits)
    [] protocol = "AIWA_RC_T501" -> SendAiwaRCT501(bits)
    [] protocol = "DENON" -> SendDenon(bits)
    [] protocol = "DISH" -> SendDISH(bits)
    [] protocol = "SHARP" -> SendSharp(bits)
    [] protocol = "LEGO_PF" -> SendLegoPowerFunctions(bits, FALSE)
    [] protocol = "LEGO_PF again" -> SendLegoPowerFunctions(bits, TRUE)

SendOnly == {"AIWA_RC_T501", "DISH", "SHARP", "LEGO_PF", "LEGO_PF again"}

Empty == [k \in 0 .. RAWBUF - 1 |-> 0]
Heard(sample) ==
  LET burst == Burst(Signal(sample.protocol, sample.bits))
      before == Burst(Signal(sample.previous.protocol, sample.previous.bits))
      buffer == Recorded(before, 2000, sample.excess, sample.late, Empty)
  IN Decode(Recorded(burst, sample.gap, sample.excess, sample.late, buffer), Len(burst) + 1)

\* Every code of a protocol that is sent and decoded is decoded as what it is, with all
\* its bits, however the receiver distorts it within MARK_EXCESS and whatever code was in
\* the buffer before: no decoder that is tried earlier claims it.
SentIsDecoded ==
  ir.protocol \notin SendOnly /\ ir.gap >= 800 =>
    Heard(ir)[1] = IF ir.protocol = "JVC again" THEN Repeated("JVC") ELSE Result(ir.protocol, ir.bits)

\* The spaces of a message of a protocol that is only sent tell its bits, in each of its
\* repetitions, and each fits the record of a receiver.
SentIsDistinct ==
  ir.protocol \in SendOnly =>
    LET signal == Signal(ir.protocol, ir.bits)
        shape == CASE ir.protocol = "AIWA_RC_T501" -> [first |-> 54, one |-> 600, messages |-> 1, length |-> 88]
                   [] ir.protocol = "DISH" -> [first |-> 2, one |-> 1700, messages |-> 1, length |-> 35]
                   [] ir.protocol = "SHARP" -> [first |-> 0, one |-> 1805, messages |-> 3, length |-> 32]
                   [] ir.protocol = "LEGO_PF" -> [first |-> 2, one |-> 553, messages |-> 1, length |-> 36]
                   [] OTHER -> [first |-> 2, one |-> 553, messages |-> 5, length |-> 36]
        size == Len(signal) \div shape.messages
    IN /\ size <= shape.length /\ shape.length < RAWBUF
       /\ \A n \in 0 .. shape.messages - 1, i \in DOMAIN ir.bits :
            LET space == -signal[n * size + shape.first + 2 * i]
            IN (space = shape.one) =
                 (ir.bits[i] = (IF ir.protocol = "SHARP" /\ n = 1 /\ i > Len(ir.bits) - 10 THEN 0 ELSE 1))

\* What the code says of SONY_DOUBLE_SPACE_USECS: the gap before a repetition is one of
\* less than 500 microseconds, which no gap the receiver accepts is.
NoGapIsRepetition ==
  ir.protocol \notin SendOnly \cup {"JVC again"} => Heard(ir)[1].value # REPEAT
=============================================================================
