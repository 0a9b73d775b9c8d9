---------------------------- MODULE TextStreams ----------------------------
(***************************************************************************)
(* Reading and writing text over a stream, Reader and Writer of AVRTools:  *)
(* numbers, lines, and the search for a string.  A stream is a sequence of *)
(* characters; Silence stands for no character until the timeout.  What a  *)
(* function leaves is the stream from its position on.  Pure functions,    *)
(* each state a sample.                                                    *)
(***************************************************************************)
EXTENDS Integers, Sequences, SequencesExt, FiniteSetsExt

CONSTANTS Values, Junks, Streams, Targets, Terminators \* what is tried

VARIABLE text

Digits == [d \in 0 .. 15 |->
  <<"0", "1", "2", "3", "4", "5", "6", "7", "8", "9", "A", "B", "C", "D", "E", "F">>[d + 1]]
Decimal == {Digits[d] : d \in 0 .. 9}
DigitOf(c) == CHOOSE d \in 0 .. 15 : Digits[d] = c
EOL == "EOL"
Silence == "silence"
NO_SKIP_CHAR == "no skip"

TextInit == text \in
  [value : Values, junk : Junks, base : {2, 8, 10, 16}, decimals : 0 .. 2]
    \cup [stream : Streams, target : Targets, terminator : Terminators]

-----------------------------------------------------------------------------
(* Reader: timedRead and timedPeek *)

At(s, i) == IF i > Len(s) THEN Silence ELSE s[i]

\* The first place from i on that holds one of the characters, or a silence.
Until(s, i, chars) == Min({k \in i .. Len(s) + 1 : At(s, k) \in chars \cup {Silence}})

\* peekNextDigit skips everything else.
PeekNextDigit(s) == Until(s, 1, Decimal \cup {"-"})

\* The end of a number that starts at i.
NumberEnd(s, i, others) ==
  Min({k \in i + 1 .. Len(s) + 1 : At(s, k) \notin Decimal \cup others})

NumberWithoutFirst(field) ==
  FoldLeft(LAMBDA value, c : IF c \in Decimal THEN 10 * value + DigitOf(c) ELSE value, 0, Tail(field))

Number(field) ==
  FoldLeft(LAMBDA value, c : IF c \in Decimal THEN 10 * value + DigitOf(c) ELSE value, 0, field)

\* readLong.  If the stream falls silent behind a digit, it returns true, but *result was
\* not set; a minus sign without digits is read as 0.
ReadLong(s, skipChar) ==
  LET i == PeekNextDigit(s)
      e == NumberEnd(s, i, {skipChar})
      field == SubSeq(s, i, e - 1)
      value == Number(field)
  IN IF At(s, i) = Silence THEN [ok |-> FALSE, set |-> FALSE, value |-> 0, next |-> i]
     ELSE IF At(s, e) = Silence
          THEN [ok |-> \E k \in DOMAIN field : field[k] \in Decimal, set |-> FALSE, value |-> 0, next |-> e]
          ELSE [ok |-> TRUE, set |-> TRUE, value |-> IF s[i] = "-" THEN -value ELSE value,
                next |-> IF s[e] = EOL THEN e + 1 ELSE e]

\* readFloat: the digits behind a point scale the value, here as places.
ReadFloat(s, skipChar) ==
  LET i == PeekNextDigit(s)
      e == NumberEnd(s, i, {skipChar, "."})
      field == SubSeq(s, i, e - 1)
      point == Min({k \in 1 .. Len(field) + 1 : k > Len(field) \/ field[k] = "."})
      value == Number(field)
  IN IF At(s, i) = Silence \/ At(s, e) = Silence
     THEN [set |-> FALSE, value |-> 0, places |-> 0, next |-> e]
     ELSE [set |-> TRUE, value |-> IF s[i] = "-" THEN -value ELSE value,
           places |-> Len(SelectSeq(SubSeq(field, point, Len(field)), LAMBDA c : c \in Decimal)),
           next |-> IF s[e] = EOL THEN e + 1 ELSE e]

IndexWithoutSecondTry(target, index, c) == IF c = target[index + 1] THEN index + 1 ELSE 0

\* findUntil: a character that does not fit is compared with the first of the target
\* again, but not with the first of the terminator.
Index(target, index, c) ==
  IF c = target[index + 1] THEN index + 1 ELSE IF c = target[1] THEN 1 ELSE 0

FindStep(target, terminator, search, c) ==
  LET index == Index(target, search.index, c)
      termIndex == IF terminator # <<>> /\ c = terminator[search.termIndex + 1]
                   THEN search.termIndex + 1 ELSE 0
  IN IF search.result # "searching" THEN search
     ELSE [index |-> index, termIndex |-> termIndex, next |-> search.next + 1,
           result |-> CASE index = Len(target) -> "found"
                        [] index # Len(target) /\ terminator # <<>> /\ termIndex = Len(terminator) -> "terminated"
                        [] OTHER -> "searching"]

FindUntil(s, target, terminator) ==
  FoldLeft(LAMBDA search, c : FindStep(target, terminator, search, c),
           [index |-> 0, termIndex |-> 0, next |-> 1, result |-> "searching"],
           SubSeq(s, 1, Until(s, 1, {}) - 1))

\* readBytesUntil takes the terminator away, readLine its EOL, unless the buffer is full.
ReadBytesUntil(s, terminator, length) ==
  LET count == Min({Until(s, 1, {terminator}) - 1, length})
  IN [bytes |-> SubSeq(s, 1, count),
      next |-> IF count < length /\ At(s, count + 1) # Silence THEN count + 2 ELSE count + 1]

ReadBytes(s, length) == ReadBytesUntil(s, Silence, length)
ReadLine(s, length) == ReadBytesUntil(s, EOL, length - 1)
ConsumeWhiteSpace(s) == Min({k \in 1 .. Len(s) + 1 : At(s, k) \notin {" ", EOL}})

-----------------------------------------------------------------------------
(* Writer: printNumber, print of a long, printFloat of a number of thousandths *)

Abs(n) == IF n < 0 THEN -n ELSE n

PrintNumber(n, base) ==
  LET count == CHOOSE c \in 1 .. 32 : n < base ^ c /\ (c = 1 \/ n >= base ^ (c - 1))
  IN [k \in 1 .. count |-> Digits[(n \div base ^ (count - k)) % base]]

Prefix(base) ==
  CASE base = 16 -> <<"0", "x">> [] base = 8 -> <<"0">> [] base = 2 -> <<"0", "b">> [] OTHER -> <<>>

\* Only in base 10 a negative number gets a sign; else its 32 bits are printed: here 8.
PrintLong(n, base) ==
  IF base = 10 THEN (IF n < 0 THEN <<"-">> ELSE <<>>) \o PrintNumber(Abs(n), 10)
  ELSE Prefix(base) \o PrintNumber(n % 256, base)

Println(s) == Append(s, EOL)

\* Half of the last place is added before the digits are cut off, once the sign is gone.
PrintFloat(thousandths, digits) ==
  LET rounded == Abs(thousandths) + 500 \div 10 ^ digits
      remainder == rounded % 1000
  IN (IF thousandths < 0 THEN <<"-">> ELSE <<>>) \o PrintNumber(rounded \div 1000, 10)
       \o (IF digits > 0 THEN <<".">> ELSE <<>>)
       \o [k \in 1 .. digits |-> Digits[(remainder \div 10 ^ (3 - k)) % 10]]

-----------------------------------------------------------------------------
(* What they should yield *)

IsNumber == "value" \in DOMAIN text

\* What Writer prints in base 10 Reader reads back: a whole number, also behind characters
\* that belong to none and with thousands set off by a character to skip, and a fraction,
\* to half of its last place; each with its end of line and no more.  In the other bases
\* the digits stand for the number's bits.
NumberReadBack ==
  IsNumber =>
    LET n == text.value
        line == text.junk \o Println(PrintLong(n, 10)) \o <<"7">>
        spaced == text.junk \o Println(FlattenSeq([k \in DOMAIN PrintLong(n, 10) |-> <<PrintLong(n, 10)[k], ",">>])) \o <<"7">>
        fraction == text.junk \o Println(PrintFloat(n, text.decimals)) \o <<"7">>
        digits == SubSeq(PrintLong(n, text.base), Len(Prefix(text.base)) + 1, Len(PrintLong(n, text.base)))
    IN /\ ReadLong(line, NO_SKIP_CHAR) = [ok |-> TRUE, set |-> TRUE, value |-> n, next |-> Len(line)]
       /\ ReadLong(spaced, ",") = [ok |-> TRUE, set |-> TRUE, value |-> n, next |-> Len(spaced)]
       /\ LET read == ReadFloat(fraction, NO_SKIP_CHAR)
              error == n - read.value * 10 ^ (3 - text.decimals)
          IN /\ read.set /\ read.places = text.decimals /\ read.next = Len(fraction)
             /\ 2 * Abs(error) <= 10 ^ (3 - text.decimals)
       /\ text.base # 10 =>
            FoldLeft(LAMBDA value, c : text.base * value + DigitOf(c), 0, digits) = n % 256
       /\ ReadLine(line, Len(line)) = [bytes |-> SubSeq(line, 1, Len(line) - 2), next |-> Len(line)]
       /\ ReadBytes(line, 2).next = Min({3, Len(line) + 1})

OccursAt(s, k, part) == k + Len(part) - 1 <= Len(s) /\ SubSeq(s, k, k + Len(part) - 1) = part

\* find ends behind the first occurrence of its target, if no terminator and no silence
\* comes first, for every target whose first character does not occur in it again and
\* every terminator of one character or none.
FindExact ==
  ~IsNumber /\ text.target[1] \notin ToSet(Tail(text.target)) =>
    LET heard == SubSeq(text.stream, 1, Until(text.stream, 1, {}) - 1)
        ends == {k + Len(text.target) : k \in {i \in DOMAIN heard : OccursAt(heard, i, text.target)}}
        stops == {k + 1 : k \in {i \in DOMAIN heard : <<heard[i]>> = text.terminator}}
        search == FindUntil(text.stream, text.target, text.terminator)
        first == Min(ends \cup stops)
    IN IF ends \cup stops = {} THEN search.result = "searching" /\ search.next = Len(heard) + 1
       ELSE search.next = first /\ (search.result = "found" <=> first \in ends)
=============================================================================
