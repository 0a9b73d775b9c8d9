-------------------------- MODULE PeripheralProofs --------------------------
(***************************************************************************)
(* Proofs about the drivers of MCPeripherals, for every value of its       *)
(* constants: the serial port, the thermometers and their search, the      *)
(* conversion of temperatures, the converter, the clock of the SPI bus,    *)
(* and the types of all of them.  Each driver has an inductive invariant   *)
(* of its own, a conjunction of named parts; a step of MCNext is a step of *)
(* one driver and leaves the variables of the others alone, so what the    *)
(* others keep is kept.                                                    *)
(***************************************************************************)
EXTENDS MCPeripherals, SequenceTheorems, FiniteSetTheorems, TLAPS

-----------------------------------------------------------------------------
(* The serial port of AVRTools *)

\* What is left when the end is cut off is still in order, and holds the rest.
LEMMA OrderedPrefix ==
  ASSUME NEW s \in Seq(Nat), NEW t \in Seq(Nat), NEW N,
         Serial!InOrder(s \o t, N)
  PROVE  Serial!InOrder(s, N \ Serial!ToSet(t))
<1>1. /\ s \o t \in Seq(Nat) /\ Len(s \o t) = Len(s) + Len(t)
      /\ \A i \in 1 .. Len(s) + Len(t) : (s \o t)[i] = IF i <= Len(s) THEN s[i] ELSE t[i - Len(s)]
  BY ConcatProperties
<1>2. /\ DOMAIN s = 1 .. Len(s) /\ DOMAIN t = 1 .. Len(t) /\ Len(s) \in Nat /\ Len(t) \in Nat
      /\ DOMAIN (s \o t) = 1 .. Len(s) + Len(t)
  BY <1>1
<1>3. \A i \in 1 .. Len(s) : (s \o t)[i] = s[i] /\ i \in 1 .. Len(s) + Len(t)
  BY <1>1, <1>2
<1>4. ASSUME NEW j \in 1 .. Len(t)
      PROVE  (s \o t)[Len(s) + j] = t[j] /\ Len(s) + j \in 1 .. Len(s) + Len(t)
  <2>1. Len(s) + j \in 1 .. Len(s) + Len(t) /\ ~(Len(s) + j <= Len(s))
        /\ (Len(s) + j) - Len(s) = j
    BY <1>2
  <2> QED BY <2>1, <1>1
<1>5. \A i \in 1 .. Len(s) : s[i] \in Nat
  BY ElementOfSeq
<1>6. /\ N = Serial!ToSet(s \o t)
      /\ \A i, j \in 1 .. Len(s) + Len(t) : i < j => (s \o t)[i] < (s \o t)[j]
  BY <1>2 DEF Serial!InOrder
<1>7. \A i, j \in DOMAIN s : i < j => s[i] < s[j]
  BY <1>2, <1>3, <1>6
<1>8. ASSUME NEW x \in Serial!ToSet(s)
      PROVE  x \in N /\ x \notin Serial!ToSet(t)
  <2>1. PICK i \in 1 .. Len(s) : x = s[i]
    BY <1>2 DEF Serial!ToSet
  <2>2. x = (s \o t)[i] /\ i \in 1 .. Len(s) + Len(t)
    BY <2>1, <1>3
  <2>3. x \in N
    BY <2>2, <1>2, <1>6 DEF Serial!ToSet
  <2>4. ASSUME NEW j \in 1 .. Len(t), x = t[j] PROVE FALSE
    <3>1. i < Len(s) + j
      BY <1>2
    <3>2. (s \o t)[i] < (s \o t)[Len(s) + j]
      BY <3>1, <2>2, <1>4, <1>6
    <3>3. x < x /\ x \in Nat
      BY <3>2, <2>2, <1>4, <2>4, <2>1, <1>5
    <3> QED BY <3>3
  <2> QED BY <2>3, <2>4, <1>2 DEF Serial!ToSet
<1>9. ASSUME NEW x \in N, x \notin Serial!ToSet(t)
      PROVE  x \in Serial!ToSet(s)
  <2>1. PICK i \in 1 .. Len(s) + Len(t) : x = (s \o t)[i]
    BY <1>2, <1>6 DEF Serial!ToSet
  <2>2. CASE i <= Len(s)
    <3>1. i \in 1 .. Len(s)
      BY <2>2, <1>2
    <3> QED BY <3>1, <2>1, <1>2, <1>3 DEF Serial!ToSet
  <2>3. CASE ~(i <= Len(s))
    <3>1. i - Len(s) \in 1 .. Len(t)
      BY <2>3, <1>2
    <3>2. x = t[i - Len(s)]
      BY <2>3, <2>1, <1>1
    <3> QED BY <3>1, <3>2, <1>9, <1>2 DEF Serial!ToSet
  <2> QED BY <2>2, <2>3
<1>10. Serial!ToSet(s) = N \ Serial!ToSet(t)
  BY <1>8, <1>9
<1> QED BY <1>7, <1>10 DEF Serial!InOrder

\* A number larger than all others follows in order.
LEMMA OrderedNext ==
  ASSUME NEW s \in Seq(Nat), NEW N, NEW x \in Nat,
         Serial!InOrder(s, N), \A n \in N : n < x
  PROVE  Serial!InOrder(s \o <<x>>, N \cup {x})
<1>1. <<x>> \in Seq(Nat) /\ Len(<<x>>) = 1 /\ <<x>>[1] = x
  OBVIOUS
<1>2. /\ s \o <<x>> \in Seq(Nat) /\ Len(s \o <<x>>) = Len(s) + 1
      /\ \A i \in 1 .. Len(s) + 1 : (s \o <<x>>)[i] = IF i <= Len(s) THEN s[i] ELSE <<x>>[i - Len(s)]
  BY <1>1, ConcatProperties
<1>3. /\ DOMAIN s = 1 .. Len(s) /\ Len(s) \in Nat
      /\ DOMAIN (s \o <<x>>) = 1 .. Len(s) + 1
  BY <1>2
<1>4. \A i \in 1 .. Len(s) : (s \o <<x>>)[i] = s[i] /\ i \in 1 .. Len(s) + 1
  BY <1>2, <1>3
<1>5. (s \o <<x>>)[Len(s) + 1] = x /\ Len(s) + 1 \in 1 .. Len(s) + 1
  <2>1. Len(s) + 1 \in 1 .. Len(s) + 1 /\ ~(Len(s) + 1 <= Len(s)) /\ (Len(s) + 1) - Len(s) = 1
    BY <1>3
  <2> QED BY <2>1, <1>2, <1>1
<1>6. \A i \in 1 .. Len(s) + 1 : i \in 1 .. Len(s) \/ i = Len(s) + 1
  BY <1>3
<1>7. N = Serial!ToSet(s) /\ \A i, j \in 1 .. Len(s) : i < j => s[i] < s[j]
  BY <1>3 DEF Serial!InOrder
<1>8. Serial!ToSet(s \o <<x>>) = N \cup {x}
  BY <1>3, <1>4, <1>5, <1>6, <1>7 DEF Serial!ToSet
<1>9. ASSUME NEW i \in 1 .. Len(s) + 1, NEW j \in 1 .. Len(s) + 1, i < j
      PROVE  (s \o <<x>>)[i] < (s \o <<x>>)[j]
  <2>1. i \in 1 .. Len(s)
    BY <1>3, <1>9
  <2>2. CASE j \in 1 .. Len(s)
    BY <2>1, <2>2, <1>4, <1>7, <1>9
  <2>3. CASE j = Len(s) + 1
    <3>1. s[i] \in N
      BY <2>1, <1>7, <1>3 DEF Serial!ToSet
    <3> QED BY <3>1, <2>1, <2>3, <1>4, <1>5
  <2> QED BY <2>2, <2>3, <1>6
<1> QED BY <1>3, <1>8, <1>9 DEF Serial!InOrder

\* The numbers up to n, and the next one.
LEMMA NumbersGrow ==
  ASSUME NEW n \in Nat
  PROVE  /\ Serial!Numbers(n) \in Seq(Nat)
         /\ Append(Serial!Numbers(n), n + 1) = Serial!Numbers(n + 1)
<1>1. Serial!Numbers(n) \in Seq(Nat) /\ Len(Serial!Numbers(n)) = n
      /\ \A k \in 1 .. n : Serial!Numbers(n)[k] = k
  BY DEF Serial!Numbers
<1>2. Serial!Numbers(n + 1) \in Seq(Nat) /\ Len(Serial!Numbers(n + 1)) = n + 1
      /\ \A k \in 1 .. n + 1 : Serial!Numbers(n + 1)[k] = k
  BY DEF Serial!Numbers
<1>3. /\ Append(Serial!Numbers(n), n + 1) \in Seq(Nat)
      /\ Len(Append(Serial!Numbers(n), n + 1)) = n + 1
      /\ \A k \in 1 .. n + 1 : Append(Serial!Numbers(n), n + 1)[k] = k
  BY <1>1
<1>4. Append(Serial!Numbers(n), n + 1) = Serial!Numbers(n + 1)
  BY <1>2, <1>3, SeqEqual
<1> QED BY <1>1, <1>4

\* What the variables of the serial port are.
SerialTypes ==
  /\ shifted \in Seq(Nat) /\ shifting \in Seq(Nat) /\ udr \in Seq(Nat) /\ txBuffer \in Seq(Nat)
  /\ taken \in Seq(Nat) /\ rxBuffer \in Seq(Nat)
  /\ rxData = <<>> \/ \E n \in Nat : rxData = <<n>>
  /\ written \in Nat /\ arrivals \in Nat
  /\ dropped \subseteq 1 .. arrivals

Sent == shifted \o shifting \o udr \o txBuffer = Serial!Numbers(written)
Awake == running /\ txBuffer # <<>> => UDRIE \/ serialPc = "enable"
Got == Serial!InOrder(taken \o rxBuffer \o rxData, (1 .. arrivals) \ dropped)

SerialIInv == SerialTypes /\ Sent /\ Awake /\ Got

\* The port begins with nothing written and nothing come.
LEMMA SerialInitially ==
  ASSUME Serial!UsartInit
  PROVE  SerialIInv
<1>1. SerialTypes
  BY DEF Serial!UsartInit, SerialTypes
<1>2. <<>> \o <<>> \o <<>> \o <<>> = <<>> /\ <<>> \o <<>> \o <<>> = <<>>
  OBVIOUS
<1>3. Serial!Numbers(0) = <<>>
  BY DEF Serial!Numbers
<1>4. Sent
  BY <1>2, <1>3 DEF Sent, Serial!UsartInit
<1>5. Got
  BY <1>2 DEF Got, Serial!InOrder, Serial!ToSet, Serial!UsartInit
<1>6. Awake
  BY DEF Awake, Serial!UsartInit
<1> QED BY <1>1, <1>4, <1>5, <1>6 DEF SerialIInv

\* The sequences of bytes, as the lemmas about concatenation need them; what waits to be
\* read has a number that came and was not dropped.
LEMMA SerialSequences ==
  ASSUME SerialTypes
  PROVE  /\ rxData \in Seq(Nat)
         /\ taken \o rxBuffer \in Seq(Nat)
         /\ taken \o rxBuffer \o rxData \in Seq(Nat)
         /\ shifted \o shifting \in Seq(Nat) /\ shifted \o shifting \o udr \in Seq(Nat)
         /\ shifted \o shifting \o udr \o txBuffer \in Seq(Nat)
<1>1. rxData \in Seq(Nat)
  <2>1. \A n \in Nat : <<n>> \in Seq(Nat)
    OBVIOUS
  <2>2. <<>> \in Seq(Nat)
    OBVIOUS
  <2> QED BY <2>1, <2>2, Zenon DEF SerialTypes
<1> QED BY <1>1, ConcatProperties DEF SerialTypes

\* Whatever is in a part of a sequence is in the whole.
LEMMA PartInWhole ==
  ASSUME NEW s \in Seq(Nat), NEW t \in Seq(Nat)
  PROVE  Serial!ToSet(s \o t) = Serial!ToSet(s) \cup Serial!ToSet(t)
<1>1. /\ Len(s \o t) = Len(s) + Len(t) /\ DOMAIN (s \o t) = 1 .. Len(s) + Len(t)
      /\ DOMAIN s = 1 .. Len(s) /\ DOMAIN t = 1 .. Len(t) /\ Len(s) \in Nat /\ Len(t) \in Nat
      /\ \A i \in 1 .. Len(s) + Len(t) : (s \o t)[i] = IF i <= Len(s) THEN s[i] ELSE t[i - Len(s)]
  BY ConcatProperties, LenProperties
<1>2. ASSUME NEW x \in Serial!ToSet(s \o t) PROVE x \in Serial!ToSet(s) \cup Serial!ToSet(t)
  <2>1. PICK i \in 1 .. Len(s) + Len(t) : x = (s \o t)[i]
    BY <1>1 DEF Serial!ToSet
  <2>2. CASE i <= Len(s)
    <3>1. x = s[i] /\ i \in 1 .. Len(s)
      BY <1>1, <2>1, <2>2
    <3> QED BY <3>1, <1>1 DEF Serial!ToSet
  <2>3. CASE ~(i <= Len(s))
    <3>1. x = t[i - Len(s)] /\ i - Len(s) \in 1 .. Len(t)
      BY <1>1, <2>1, <2>3
    <3> QED BY <3>1, <1>1 DEF Serial!ToSet
  <2> QED BY <2>2, <2>3
<1>3. ASSUME NEW x \in Serial!ToSet(s) PROVE x \in Serial!ToSet(s \o t)
  <2>1. PICK i \in 1 .. Len(s) : x = s[i]
    BY <1>1 DEF Serial!ToSet
  <2>2. x = (s \o t)[i] /\ i \in 1 .. Len(s) + Len(t)
    BY <2>1, <1>1
  <2> QED BY <2>2, <1>1 DEF Serial!ToSet
<1>4. ASSUME NEW x \in Serial!ToSet(t) PROVE x \in Serial!ToSet(s \o t)
  <2>1. PICK j \in 1 .. Len(t) : x = t[j]
    BY <1>1 DEF Serial!ToSet
  <2>2. Len(s) + j \in 1 .. Len(s) + Len(t) /\ ~(Len(s) + j <= Len(s)) /\ (Len(s) + j) - Len(s) = j
    BY <1>1
  <2>3. x = (s \o t)[Len(s) + j]
    BY <2>1, <2>2, <1>1
  <2> QED BY <2>2, <2>3, <1>1 DEF Serial!ToSet
<1> QED BY <1>2, <1>3, <1>4

\* What stop discards has come before.
LEMMA DroppedCame ==
  ASSUME SerialTypes, Got
  PROVE  Serial!ToSet(rxBuffer) \cup Serial!ToSet(rxData) \subseteq 1 .. arrivals
<1>1. Serial!ToSet(taken \o rxBuffer \o rxData)
        = Serial!ToSet(taken) \cup Serial!ToSet(rxBuffer) \cup Serial!ToSet(rxData)
  <2>1. taken \in Seq(Nat) /\ rxBuffer \in Seq(Nat)
    BY DEF SerialTypes
  <2>2. taken \o rxBuffer \in Seq(Nat) /\ rxData \in Seq(Nat)
    BY SerialSequences
  <2>3. Serial!ToSet(taken \o rxBuffer) = Serial!ToSet(taken) \cup Serial!ToSet(rxBuffer)
    BY <2>1, PartInWhole
  <2>4. Serial!ToSet(taken \o rxBuffer \o rxData)
          = Serial!ToSet(taken \o rxBuffer) \cup Serial!ToSet(rxData)
    BY <2>2, PartInWhole
  <2> QED BY <2>3, <2>4
<1>2. Serial!ToSet(taken \o rxBuffer \o rxData) = (1 .. arrivals) \ dropped
  BY DEF Got, Serial!InOrder
<1> QED BY <1>1, <1>2

\* A byte nobody has read is one that came.
LEMMA WaitingCame ==
  ASSUME SerialTypes, Got, rxData # <<>>
  PROVE  rxData = <<rxData[1]>> /\ rxData[1] \in 1 .. arrivals
<1>1. rxData = <<rxData[1]>> /\ rxData[1] \in Nat
  BY DEF SerialTypes
<1> DEFINE s == taken \o rxBuffer
<1>2. s \in Seq(Nat) /\ rxData \in Seq(Nat) /\ Len(rxData) = 1
  BY <1>1, SerialSequences
<1> HIDE DEF s
<1>3. Len(s \o rxData) = Len(s) + 1 /\ Len(s) \in Nat /\ (s \o rxData)[Len(s) + 1] = rxData[1]
  BY <1>2, ConcatProperties
<1>4. s \o rxData \in Seq(Nat)
  BY <1>2, ConcatProperties
<1>5. Len(s) + 1 \in DOMAIN (s \o rxData)
  BY <1>3, <1>4
<1>6. rxData[1] \in Serial!ToSet(s \o rxData)
  BY <1>3, <1>5 DEF Serial!ToSet
<1>7. Serial!ToSet(s \o rxData) = (1 .. arrivals) \ dropped
  BY DEF s, Got, Serial!InOrder
<1> QED BY <1>1, <1>6, <1>7

\* One step of the serial port keeps the types.
LEMMA SerialTypesKept ==
  ASSUME SerialIInv, Serial!UsartNext
  PROVE  SerialTypes'
<1> USE DEF Serial!Receiver, Serial!Program, Serial!Sending
<1>0. SerialTypes /\ Got
  BY DEF SerialIInv
<1>1. CASE Serial!ShiftOut
  BY <1>0, <1>1 DEF SerialTypes, Serial!ShiftOut
<1>2. CASE Serial!Shifted
  BY <1>0, <1>2, SerialSequences DEF SerialTypes, Serial!Shifted
<1>3. CASE Serial!Arrives
  <2>1. arrivals \in Nat /\ arrivals' = arrivals + 1 /\ rxData' = <<arrivals'>>
    BY <1>0, <1>3 DEF SerialTypes, Serial!Arrives
  <2>2. dropped \subseteq 1 .. arrivals
    BY <1>0 DEF SerialTypes
  <2>3. dropped' \subseteq 1 .. arrivals
    BY <2>2, <1>0, <1>3, WaitingCame DEF Serial!Arrives
  <2>4. dropped' \subseteq 1 .. arrivals'
    BY <2>1, <2>3
  <2> QED BY <2>1, <2>4, <1>0, <1>3 DEF SerialTypes, Serial!Arrives
<1>4. CASE Serial!ReceiveComplete
  <2>1. rxData[1] \in 1 .. arrivals
    BY <1>0, <1>4, WaitingCame DEF Serial!ReceiveComplete
  <2>2. dropped' \subseteq 1 .. arrivals
    BY <1>0, <1>4, <2>1 DEF SerialTypes, Serial!ReceiveComplete
  <2>3. rxBuffer' \in Seq(Nat)
    BY <1>0, <1>4, <2>1 DEF SerialTypes, Serial!ReceiveComplete, Serial!Push
  <2> QED BY <2>2, <2>3, <1>0, <1>4 DEF SerialTypes, Serial!ReceiveComplete
<1>5. CASE Serial!RegisterEmpty
  <2>1. CASE txBuffer # <<>>
    <3>1. Head(txBuffer) \in Nat /\ Tail(txBuffer) \in Seq(Nat)
      BY <1>0, <2>1, HeadTailProperties DEF SerialTypes
    <3>2. udr' = <<Head(txBuffer)>> /\ txBuffer' = Tail(txBuffer)
      BY <1>5, <2>1 DEF Serial!RegisterEmpty
    <3>3. udr' \in Seq(Nat) /\ txBuffer' \in Seq(Nat)
      BY <3>1, <3>2
    <3> QED BY <3>3, <1>0, <1>5 DEF SerialTypes, Serial!RegisterEmpty
  <2>2. CASE txBuffer = <<>>
    BY <2>2, <1>0, <1>5 DEF SerialTypes, Serial!RegisterEmpty
  <2> QED BY <2>1, <2>2
<1>6. CASE Serial!Start
  BY <1>0, <1>6 DEF SerialTypes, Serial!Start
<1>7. CASE Serial!WritePush
  <2>1. written' \in Nat /\ txBuffer' \in Seq(Nat)
    BY <1>0, <1>7 DEF SerialTypes, Serial!WritePush, Serial!Push
  <2> QED BY <2>1, <1>0, <1>7 DEF SerialTypes, Serial!WritePush
<1>8. CASE Serial!WriteEnable
  BY <1>0, <1>8 DEF SerialTypes, Serial!WriteEnable
<1>9. CASE Serial!ClearTXC
  BY <1>0, <1>9 DEF SerialTypes, Serial!ClearTXC
<1>10. CASE Serial!CallFlush
  BY <1>0, <1>10 DEF SerialTypes, Serial!CallFlush
<1>11. CASE Serial!Flushed
  BY <1>0, <1>11 DEF SerialTypes, Serial!Flushed
<1>12. CASE Serial!FlushReturns
  BY <1>0, <1>12 DEF SerialTypes, Serial!FlushReturns
<1>13. CASE Serial!Stop
  <2>1. Serial!InOrder(taken \o rxBuffer \o rxData, (1 .. arrivals) \ dropped)
    BY <1>0 DEF Got
  <2>2. Serial!ToSet(rxBuffer) \cup Serial!ToSet(rxData) \subseteq 1 .. arrivals
    BY <1>0, DroppedCame
  <2>3. dropped' \subseteq 1 .. arrivals
    BY <1>0, <1>13, <2>2 DEF SerialTypes, Serial!Stop
  <2> QED BY <2>3, <1>0, <1>13 DEF SerialTypes, Serial!Stop
<1>14. CASE Serial!Read
  <2>1. taken' \in Seq(Nat) /\ rxBuffer' \in Seq(Nat)
    BY <1>0, <1>14, HeadTailProperties DEF SerialTypes, Serial!Read
  <2> QED BY <2>1, <1>0, <1>14 DEF SerialTypes, Serial!Read
<1>15. CASE \E n \in 1 .. 3 : Serial!CallWrite(n)
  BY <1>0, <1>15 DEF SerialTypes, Serial!CallWrite
<1> QED BY <1>1, <1>2, <1>3, <1>4, <1>5, <1>6, <1>7, <1>8, <1>9, <1>10, <1>11, <1>12, <1>13,
          <1>14, <1>15 DEF Serial!UsartNext

\* Three sequences of numbers in a row, however they are grouped.
LEMMA Regroup ==
  ASSUME NEW s \in Seq(Nat), NEW t \in Seq(Nat), NEW u \in Seq(Nat)
  PROVE  (s \o t) \o u = s \o (t \o u)
BY ConcatAssociative

\* Appending to the end of a sequence appends to the whole.
LEMMA AppendToEnd ==
  ASSUME NEW s \in Seq(Nat), NEW t \in Seq(Nat), NEW x \in Nat
  PROVE  s \o Append(t, x) = Append(s \o t, x)
<1>1. <<x>> \in Seq(Nat) /\ Append(t, x) = t \o <<x>>
  BY AppendIsConcat
<1>2. s \o t \in Seq(Nat)
  BY ConcatProperties
<1>3. Append(s \o t, x) = (s \o t) \o <<x>>
  BY <1>2, AppendIsConcat
<1>4. (s \o t) \o <<x>> = s \o (t \o <<x>>)
  BY <1>1, ConcatAssociative
<1> QED BY <1>1, <1>3, <1>4

\* A step moves a byte one place towards the line, or adds the next number at the end.
LEMMA SentKept ==
  ASSUME SerialIInv, Serial!UsartNext
  PROVE  Sent'
<1> USE DEF Serial!Receiver, Serial!Program, Serial!Sending
<1>0. SerialTypes /\ Sent
  BY DEF SerialIInv
<1> DEFINE before == shifted \o shifting
<1>a. /\ shifted \in Seq(Nat) /\ shifting \in Seq(Nat) /\ udr \in Seq(Nat) /\ txBuffer \in Seq(Nat)
      /\ written \in Nat /\ before \in Seq(Nat) /\ before \o udr \in Seq(Nat)
      /\ before \o udr \o txBuffer \in Seq(Nat)
      /\ before \o udr \o txBuffer = Serial!Numbers(written)
  BY <1>0, SerialSequences DEF SerialTypes, Sent
<1>same. ASSUME UNCHANGED <<shifted, shifting, udr, txBuffer, written>> PROVE Sent'
  BY <1>0, <1>same DEF Sent
<1>1. CASE Serial!ShiftOut
  <2>1. shifting = <<>> /\ shifting' = udr /\ udr' = <<>> /\ UNCHANGED <<shifted, txBuffer, written>>
    BY <1>1 DEF Serial!ShiftOut
  <2>2. shifted \o shifting = shifted /\ (shifted \o udr) \o <<>> = shifted \o udr
    BY <2>1, <1>a, ConcatEmptySeq, ConcatProperties
  <2> QED BY <2>1, <2>2, <1>a DEF Sent
<1>2. CASE Serial!Shifted
  <2>1. shifted' = shifted \o shifting /\ shifting' = <<>> /\ UNCHANGED <<udr, txBuffer, written>>
    BY <1>2 DEF Serial!Shifted
  <2>2. (shifted \o shifting) \o <<>> = shifted \o shifting
    BY <1>a, ConcatEmptySeq
  <2> QED BY <2>1, <2>2, <1>a DEF Sent
<1>3. CASE Serial!RegisterEmpty
  <2>1. CASE txBuffer = <<>>
    BY <2>1, <1>3, <1>same DEF Serial!RegisterEmpty
  <2>2. CASE txBuffer # <<>>
    <3>1. /\ udr = <<>> /\ udr' = <<Head(txBuffer)>> /\ txBuffer' = Tail(txBuffer)
          /\ UNCHANGED <<shifted, shifting, written>>
      BY <2>2, <1>3 DEF Serial!RegisterEmpty
    <3>2. Head(txBuffer) \in Nat /\ Tail(txBuffer) \in Seq(Nat)
      BY <2>2, <1>a, HeadTailProperties
    <3>3. <<Head(txBuffer)>> \o Tail(txBuffer) = txBuffer /\ <<Head(txBuffer)>> \in Seq(Nat)
      BY <2>2, <1>a, <3>2
    <3> HIDE DEF before
    <3>4. (before \o <<Head(txBuffer)>>) \o Tail(txBuffer) = before \o txBuffer
      <4>1. before \in Seq(Nat)
        BY <1>a
      <4>2. (before \o <<Head(txBuffer)>>) \o Tail(txBuffer) = before \o (<<Head(txBuffer)>> \o Tail(txBuffer))
        BY <4>1, <3>2, <3>3, Regroup
      <4> QED BY <4>2, <3>3
    <3>5. before \o udr = before
      BY <3>1, <1>a, ConcatEmptySeq
    <3> QED BY <3>1, <3>4, <3>5, <1>a DEF Sent, before
  <2> QED BY <2>1, <2>2
<1>4. CASE Serial!WritePush
  <2>1. /\ txBuffer' = Append(txBuffer, written + 1) /\ written' = written + 1
        /\ UNCHANGED <<shifted, shifting, udr>>
    <3>1. Len(txBuffer) \in Nat /\ TxBuffer \in Nat
      BY <1>a, SerialAssumption DEF Serial!UsartAssumption
    <3>2. Len(txBuffer) < TxBuffer
      BY <3>1, <1>4 DEF Serial!WritePush, Serial!IsFull
    <3> QED BY <3>2, <1>4 DEF Serial!WritePush, Serial!Push
  <2> HIDE DEF before
  <2>2. before \o udr \o Append(txBuffer, written + 1) = Append(before \o udr \o txBuffer, written + 1)
    <3>1. written + 1 \in Nat /\ before \o udr \in Seq(Nat) /\ txBuffer \in Seq(Nat)
      BY <1>a
    <3> QED BY <3>1, AppendToEnd
  <2>3. before \o udr \o Append(txBuffer, written + 1) = Serial!Numbers(written + 1)
    BY <2>2, <1>a, NumbersGrow
  <2> QED BY <2>1, <2>3 DEF Sent, before
<1>5. CASE Serial!Arrives
  BY <1>5, <1>same DEF Serial!Arrives
<1>6. CASE Serial!ReceiveComplete
  BY <1>6, <1>same DEF Serial!ReceiveComplete
<1>7. CASE Serial!Start
  BY <1>7, <1>same DEF Serial!Start
<1>8. CASE Serial!WriteEnable
  BY <1>8, <1>same DEF Serial!WriteEnable
<1>9. CASE Serial!ClearTXC
  BY <1>9, <1>same DEF Serial!ClearTXC
<1>10. CASE Serial!CallFlush
  BY <1>10, <1>same DEF Serial!CallFlush
<1>11. CASE Serial!Flushed
  BY <1>11, <1>same DEF Serial!Flushed
<1>12. CASE Serial!FlushReturns
  BY <1>12, <1>same DEF Serial!FlushReturns
<1>13. CASE Serial!Stop
  BY <1>13, <1>same DEF Serial!Stop
<1>14. CASE Serial!Read
  BY <1>14, <1>same DEF Serial!Read
<1>15. CASE \E n \in 1 .. 3 : Serial!CallWrite(n)
  BY <1>15, <1>same DEF Serial!CallWrite
<1> QED BY <1>1, <1>2, <1>3, <1>4, <1>5, <1>6, <1>7, <1>8, <1>9, <1>10, <1>11, <1>12, <1>13,
          <1>14, <1>15 DEF Serial!UsartNext

\* The interrupt is switched off only when the ring is empty, and on after every push.
LEMMA AwakeKept ==
  ASSUME SerialIInv, Serial!UsartNext
  PROVE  Awake'
<1> USE DEF Serial!Receiver, Serial!Program, Serial!Sending
<1>0. Awake
  BY DEF SerialIInv
<1>same. ASSUME UNCHANGED <<running, txBuffer, UDRIE>>, serialPc # "enable" PROVE Awake'
  BY <1>0, <1>same DEF Awake
<1>keep. ASSUME UNCHANGED <<running, txBuffer, UDRIE, serialPc>> PROVE Awake'
  BY <1>0, <1>keep DEF Awake
<1>1. CASE Serial!ShiftOut
  BY <1>1, <1>keep DEF Serial!ShiftOut
<1>2. CASE Serial!Shifted
  BY <1>2, <1>keep DEF Serial!Shifted
<1>3. CASE Serial!RegisterEmpty
  BY <1>3, <1>0 DEF Serial!RegisterEmpty, Awake
<1>4. CASE Serial!WritePush
  BY <1>4 DEF Serial!WritePush, Awake
<1>5. CASE Serial!Arrives
  BY <1>5, <1>keep DEF Serial!Arrives
<1>6. CASE Serial!ReceiveComplete
  BY <1>6, <1>keep DEF Serial!ReceiveComplete
<1>7. CASE Serial!Start
  BY <1>7 DEF Serial!Start, Awake
<1>8. CASE Serial!WriteEnable
  BY <1>8 DEF Serial!WriteEnable, Awake
<1>9. CASE Serial!ClearTXC
  BY <1>9, <1>same DEF Serial!ClearTXC
<1>10. CASE Serial!CallFlush
  BY <1>10, <1>same DEF Serial!CallFlush
<1>11. CASE Serial!Flushed
  BY <1>11, <1>same DEF Serial!Flushed
<1>12. CASE Serial!FlushReturns
  BY <1>12, <1>same DEF Serial!FlushReturns
<1>13. CASE Serial!Stop
  BY <1>13 DEF Serial!Stop, Awake
<1>14. CASE Serial!Read
  BY <1>14, <1>keep DEF Serial!Read
<1>15. CASE \E n \in 1 .. 3 : Serial!CallWrite(n)
  BY <1>15, <1>same DEF Serial!CallWrite
<1> QED BY <1>1, <1>2, <1>3, <1>4, <1>5, <1>6, <1>7, <1>8, <1>9, <1>10, <1>11, <1>12, <1>13,
          <1>14, <1>15 DEF Serial!UsartNext

\* Every behaviour, also of another driver, begins with the port stopped.
LEMMA SerialStarts == MCInit => Serial!UsartInit
  BY DEF MCInit, PeripheralsInit

\* A step is one of the port or leaves the port alone.
LEMMA SerialSteps ==
  ASSUME [MCNext]_allVars
  PROVE  Serial!UsartNext \/ UNCHANGED ofSerial
<1>1. CASE UNCHANGED allVars
  BY <1>1 DEF allVars
<1>2. CASE MCNext
  BY <1>2 DEF MCNext, ExceptSearch, ExceptSensor, ExceptSpi, ExceptAdc
<1> QED BY <1>1, <1>2

\* A step reads the oldest byte, adds the newest, or gives up bytes that came.
LEMMA GotKept ==
  ASSUME SerialIInv, Serial!UsartNext
  PROVE  Got'
<1> USE DEF Serial!Receiver, Serial!Program, Serial!Sending
<1>0. SerialTypes /\ Got
  BY DEF SerialIInv
<1> DEFINE before == taken \o rxBuffer
           Kept == (1 .. arrivals) \ dropped
<1>a. /\ taken \in Seq(Nat) /\ rxBuffer \in Seq(Nat) /\ rxData \in Seq(Nat)
      /\ arrivals \in Nat /\ dropped \subseteq 1 .. arrivals
      /\ before \in Seq(Nat) /\ before \o rxData \in Seq(Nat)
      /\ Serial!InOrder(before \o rxData, Kept)
  BY <1>0, SerialSequences DEF SerialTypes, Got
<1>same. ASSUME UNCHANGED <<taken, rxBuffer, rxData, arrivals, dropped>> PROVE Got'
  BY <1>0, <1>same DEF Got
\* What was received and is not kept: the one byte that waits is left out.
<1>lost. ASSUME rxData # <<>>
         PROVE  Serial!InOrder(before, Kept \ {rxData[1]}) /\ rxData = <<rxData[1]>>
  <2>1. rxData = <<rxData[1]>>
    BY <1>0, <1>lost, WaitingCame
  <2>2. Serial!ToSet(rxData) = {rxData[1]}
    BY <2>1 DEF Serial!ToSet
  <2> HIDE DEF before, Kept
  <2>3. Serial!InOrder(before, Kept \ Serial!ToSet(rxData))
    BY <1>a, OrderedPrefix
  <2> QED BY <2>1, <2>2, <2>3
<1>1. CASE Serial!Arrives
  <2>1. /\ arrivals' = arrivals + 1 /\ rxData' = <<arrivals + 1>> /\ UNCHANGED <<taken, rxBuffer>>
        /\ dropped' = IF rxData = <<>> THEN dropped ELSE dropped \cup {rxData[1]}
    BY <1>1 DEF Serial!Arrives
  <2>2. Serial!InOrder(before, (1 .. arrivals) \ dropped')
    <3>1. CASE rxData = <<>>
      <4>1. before \o rxData = before
        BY <3>1, <1>a, ConcatEmptySeq
      <4> QED BY <4>1, <3>1, <2>1, <1>a
    <3>2. CASE rxData # <<>>
      <4>1. (1 .. arrivals) \ dropped' = Kept \ {rxData[1]}
        BY <3>2, <2>1
      <4> QED BY <4>1, <3>2, <1>lost
    <3> QED BY <3>1, <3>2
  <2>3. \A n \in (1 .. arrivals) \ dropped' : n < arrivals + 1
    BY <1>a
  <2>4. arrivals + 1 \notin dropped'
    <3>1. dropped' \subseteq 1 .. arrivals
      BY <2>1, <1>0, <1>a, WaitingCame
    <3> QED BY <3>1, <1>a
  <2>5. Serial!InOrder(before \o <<arrivals + 1>>, ((1 .. arrivals) \ dropped') \cup {arrivals + 1})
    <3> HIDE DEF before, Kept
    <3>1. arrivals + 1 \in Nat
      BY <1>a
    <3> QED BY <3>1, <2>2, <2>3, <1>a, OrderedNext
  <2>6. ((1 .. arrivals) \ dropped') \cup {arrivals + 1} = (1 .. arrivals') \ dropped'
    BY <2>1, <2>4, <1>a
  <2> QED BY <2>1, <2>5, <2>6 DEF Got
<1>2. CASE Serial!ReceiveComplete
  <2>1. /\ rxData # <<>> /\ rxData' = <<>> /\ UNCHANGED <<taken, arrivals>>
        /\ rxBuffer' = IF UPE THEN rxBuffer ELSE Serial!Push(rxBuffer, RxBuffer, rxData[1])
        /\ dropped' = IF rxBuffer' = rxBuffer THEN dropped \cup {rxData[1]} ELSE dropped
    BY <1>2 DEF Serial!ReceiveComplete
  <2>2. CASE rxBuffer' = rxBuffer
    <3>1. Serial!InOrder(before, Kept \ {rxData[1]})
      BY <2>1, <1>lost
    <3>2. before \o <<>> = before
      BY <1>a, ConcatEmptySeq
    <3>3. Kept \ {rxData[1]} = (1 .. arrivals') \ dropped'
      BY <2>1, <2>2
    <3> QED BY <2>1, <2>2, <3>1, <3>2, <3>3 DEF Got
  <2>3. CASE rxBuffer' # rxBuffer
    <3>1. rxBuffer' = Append(rxBuffer, rxData[1]) /\ dropped' = dropped
      BY <2>1, <2>3 DEF Serial!Push
    <3>2. rxData = <<rxData[1]>> /\ rxData[1] \in Nat
      BY <2>1, <1>0, <1>a, WaitingCame
    <3>3. Append(rxBuffer, rxData[1]) = rxBuffer \o rxData
      BY <3>2, <1>a, AppendIsConcat
    <3>4. taken \o (rxBuffer \o rxData) = before \o rxData
      <4>1. taken \in Seq(Nat) /\ rxBuffer \in Seq(Nat) /\ rxData \in Seq(Nat)
        BY <1>a
      <4>2. (taken \o rxBuffer) \o rxData = taken \o (rxBuffer \o rxData)
        BY <4>1, Regroup
      <4> QED BY <4>2
    <3>5. (before \o rxData) \o <<>> = before \o rxData
      BY <1>a, ConcatEmptySeq
    <3> QED BY <2>1, <3>1, <3>3, <3>4, <3>5, <1>a DEF Got
  <2> QED BY <2>2, <2>3
<1>3. CASE Serial!Stop
  <2>1. /\ dropped' = dropped \cup Serial!ToSet(rxBuffer) \cup Serial!ToSet(rxData)
        /\ rxBuffer' = <<>> /\ rxData' = <<>> /\ UNCHANGED <<taken, arrivals>>
    BY <1>3 DEF Serial!Stop
  <2>2. Serial!InOrder(before, Kept \ Serial!ToSet(rxData))
    <3> HIDE DEF before, Kept
    <3> QED BY <1>a, OrderedPrefix
  <2>3. Serial!InOrder(taken, (Kept \ Serial!ToSet(rxData)) \ Serial!ToSet(rxBuffer))
    <3> HIDE DEF Kept
    <3> QED BY <2>2, <1>a, OrderedPrefix
  <2>4. (Kept \ Serial!ToSet(rxData)) \ Serial!ToSet(rxBuffer) = (1 .. arrivals') \ dropped'
    BY <2>1
  <2>5. taken \o <<>> \o <<>> = taken
    BY <1>a, ConcatEmptySeq
  <2> QED BY <2>1, <2>3, <2>4, <2>5 DEF Got
<1>4. CASE Serial!Read
  <2>1. /\ rxBuffer # <<>> /\ taken' = Append(taken, Head(rxBuffer)) /\ rxBuffer' = Tail(rxBuffer)
        /\ UNCHANGED <<rxData, arrivals, dropped>>
    BY <1>4 DEF Serial!Read
  <2>2. Head(rxBuffer) \in Nat /\ Tail(rxBuffer) \in Seq(Nat) /\ <<Head(rxBuffer)>> \in Seq(Nat)
    BY <2>1, <1>a, HeadTailProperties
  <2>3. <<Head(rxBuffer)>> \o Tail(rxBuffer) = rxBuffer
    BY <2>1, <2>2, <1>a
  <2>4. Append(taken, Head(rxBuffer)) = taken \o <<Head(rxBuffer)>>
    BY <2>2, <1>a, AppendIsConcat
  <2>5. (taken \o <<Head(rxBuffer)>>) \o Tail(rxBuffer) = before
    <3>1. (taken \o <<Head(rxBuffer)>>) \o Tail(rxBuffer) = taken \o (<<Head(rxBuffer)>> \o Tail(rxBuffer))
      <4>1. taken \in Seq(Nat)
        BY <1>a
      <4> QED BY <4>1, <2>2, Regroup
    <3> QED BY <3>1, <2>3
  <2> QED BY <2>1, <2>4, <2>5, <1>a DEF Got
<1>5. CASE Serial!ShiftOut
  BY <1>5, <1>same DEF Serial!ShiftOut
<1>6. CASE Serial!Shifted
  BY <1>6, <1>same DEF Serial!Shifted
<1>7. CASE Serial!Start
  BY <1>7, <1>same DEF Serial!Start
<1>8. CASE Serial!WriteEnable
  BY <1>8, <1>same DEF Serial!WriteEnable
<1>9. CASE Serial!ClearTXC
  BY <1>9, <1>same DEF Serial!ClearTXC
<1>10. CASE Serial!CallFlush
  BY <1>10, <1>same DEF Serial!CallFlush
<1>11. CASE Serial!Flushed
  BY <1>11, <1>same DEF Serial!Flushed
<1>12. CASE Serial!FlushReturns
  BY <1>12, <1>same DEF Serial!FlushReturns
<1>13. CASE Serial!RegisterEmpty
  BY <1>13, <1>same DEF Serial!RegisterEmpty
<1>14. CASE Serial!WritePush
  BY <1>14, <1>same DEF Serial!WritePush
<1>15. CASE \E n \in 1 .. 3 : Serial!CallWrite(n)
  BY <1>15, <1>same DEF Serial!CallWrite
<1> QED BY <1>1, <1>2, <1>3, <1>4, <1>5, <1>6, <1>7, <1>8, <1>9, <1>10, <1>11, <1>12, <1>13,
          <1>14, <1>15 DEF Serial!UsartNext

\* Every byte written leaves once and in order, every byte that came is read once and in
\* order or was given up: the serial ports of AVRTools (USART0 to USART3), for rings of
\* any size.
THEOREM SerialKept == MCSpec => []SerialInOrder
<1>1. MCInit => SerialIInv
  BY SerialInitially DEF MCInit, PeripheralsInit
<1>2. SerialIInv /\ [MCNext]_allVars => SerialIInv'
  <2>1. ASSUME SerialIInv, UNCHANGED ofSerial PROVE SerialIInv'
    BY <2>1 DEF ofSerial, SerialIInv, SerialTypes, Sent, Awake, Got
  <2>2. ASSUME SerialIInv, Serial!UsartNext PROVE SerialIInv'
    BY <2>2, SerialTypesKept, SentKept, AwakeKept, GotKept DEF SerialIInv
  <2> QED BY <2>1, <2>2, SerialSteps
<1>3. SerialIInv => SerialInOrder
  BY DEF SerialIInv, Sent, Awake, Got, SerialInOrder, Serial!SerialInOrder
<1> QED BY <1>1, <1>2, <1>3, PTL DEF MCSpec

-----------------------------------------------------------------------------
(* Thermometers *)

SensorIds == Sensors \cup {Sensor!All}
Pads == [reading : Sensor!Readings \ {"zero"}, setting : Settings]
SensorCommands == {"none", "ask", "convert", "write", "copy", "recall", "query", "answer", "recalling"}

SensorTypes ==
  /\ present \subseteq Sensors /\ measuring \subseteq Sensors /\ recalling \subseteq Sensors
  /\ pad \in [Sensors -> Pads] /\ eeprom \in [Sensors -> Settings]
  /\ command \in [name : SensorCommands, id : SensorIds]
  /\ retryCount \in 0 .. Retries

\* Conversions are over when the answer is read; a bus held low has been noted.
Noted ==
  /\ command.name = "answer" => measuring = {}
  /\ heldLow => ~fed
  /\ command.name \in {"ask", "query", "answer"} /\ shorted => ~fed

\* A command that was not begun on a busy bus gets through, unless the bus was shorted
\* since; what it is for is reported when it is over.
Tested ==
  /\ command.name \in Sensor!Starts \cup Sensor!Settling /\ heldLow => shorted
  /\ command.name # "none" => outcome = "none"

\* The sensor a query is about, if it is there, is measuring, or has measured in this
\* query, or was without power since the query began, or the command was lost.
Fresh(id) ==
  id \in present =>
    \/ id \in measuring
    \/ pad[id].reading = "now"
    \/ pad[id].reading = "reset" /\ ~fed
    \/ shorted
Asking ==
  /\ command.name \in {"ask", "query", "answer"} => command.id \in Sensors
  /\ command.name \in {"query", "answer"} => Fresh(command.id)

\* The sensor of a recall, if it is there, is at it or has its settings back.
Back(id) ==
  id \in present => id \in recalling \/ pad[id].setting = eeprom[id] \/ shorted
Recalling ==
  /\ command.name \in {"recall", "recalling"} => command.id \in Sensors
  /\ command.name = "recalling" => Back(command.id)

SensorIInv == SensorTypes /\ Noted /\ Tested /\ Asking /\ Recalling /\ Sensor!ReportsTrue

\* A sensor without power has its settings from its EEPROM, the others have what they had.
LEMMA RestartTyped ==
  ASSUME NEW S, SensorTypes, Sensor!Restart(S)
  PROVE  /\ pad' \in [Sensors -> Pads]
         /\ \A s \in Sensors \ S : pad'[s] = pad[s]
         /\ \A s \in Sensors \cap S : pad'[s].reading = "reset" /\ pad'[s].setting = eeprom[s]
<1>1. pad' = [s \in Sensors |-> IF s \in S THEN [reading |-> "reset", setting |-> eeprom[s]]
                                ELSE pad[s]]
  BY DEF Sensor!Restart
<1>2. \A s \in Sensors : eeprom[s] \in Settings /\ pad[s] \in Pads
  BY DEF SensorTypes
<1>3. \A s \in Sensors : [reading |-> "reset", setting |-> eeprom[s]] \in Pads
  BY <1>2 DEF Pads, Sensor!Readings
<1> QED BY <1>1, <1>2, <1>3

\* A command is over, or at its next stage.
LEMMA StageTyped ==
  ASSUME SensorTypes, NEW name \in SensorCommands, command' = [command EXCEPT !.name = name]
  PROVE  /\ command' \in [name : SensorCommands, id : SensorIds]
         /\ command'.name = name /\ command'.id = command.id
BY DEF SensorTypes

\* Those that hear a command are the sensor it is for, or all of them.
LEMMA HearingIs ==
  ASSUME SensorTypes
  PROVE  /\ Sensor!Hearing \subseteq present
         /\ command.id \in present /\ ~heldLow => command.id \in Sensor!Hearing
BY DEF Sensor!Hearing, Sensor!Addressed, SensorTypes

\* What a conversion that ends does.
LEMMA MeasuredDoes ==
  ASSUME SensorTypes, Sensor!Measured
  PROVE  \E s \in Sensors :
           /\ measuring' = measuring \ {s}
           /\ \A t \in Sensors \ {s} : pad'[t] = pad[t]
           /\ pad' \in [Sensors -> Pads]
           /\ \/ pad'[s].reading = "now" /\ pad'[s].setting = pad[s].setting /\ fed' = fed
              \/ pad'[s].reading = "reset" /\ pad'[s].setting = eeprom[s] /\ fed' = FALSE
<1>1. PICK s \in measuring :
        /\ measuring' = measuring \ {s}
        /\ IF s \in Parasites /\ ~strongPullUp THEN Sensor!Restart({s}) /\ fed' = FALSE
           ELSE pad' = [pad EXCEPT ![s].reading = "now"] /\ UNCHANGED fed
  BY DEF Sensor!Measured
<1>2. s \in Sensors /\ pad \in [Sensors -> Pads] /\ pad[s] \in Pads
  BY DEF SensorTypes
<1>3. CASE Sensor!Restart({s}) /\ fed' = FALSE
  <2>1. /\ pad' \in [Sensors -> Pads] /\ \A t \in Sensors \ {s} : pad'[t] = pad[t]
        /\ pad'[s].reading = "reset" /\ pad'[s].setting = eeprom[s]
    BY <1>2, <1>3, RestartTyped
  <2> QED BY <1>1, <1>2, <1>3, <2>1
<1>4. CASE pad' = [pad EXCEPT ![s].reading = "now"] /\ UNCHANGED fed
  <2>1. pad' = [pad EXCEPT ![s] = [pad[s] EXCEPT !.reading = "now"]]
    BY <1>4
  <2>2. /\ [pad[s] EXCEPT !.reading = "now"] \in Pads
        /\ [pad[s] EXCEPT !.reading = "now"].reading = "now"
        /\ [pad[s] EXCEPT !.reading = "now"].setting = pad[s].setting
    BY <1>2 DEF Pads, Sensor!Readings
  <2>3. /\ pad' \in [Sensors -> Pads] /\ \A t \in Sensors \ {s} : pad'[t] = pad[t]
        /\ pad'[s].reading = "now" /\ pad'[s].setting = pad[s].setting
    BY <1>2, <2>1, <2>2
  <2> QED BY <1>1, <1>2, <1>4, <2>3
<1> QED BY <1>1, <1>3, <1>4

\* What the end of a sensor's recall does.
LEMMA RecalledDoes ==
  ASSUME SensorTypes, Sensor!Recalled
  PROVE  \E s \in Sensors :
           /\ recalling' = recalling \ {s}
           /\ \A t \in Sensors \ {s} : pad'[t] = pad[t]
           /\ pad' \in [Sensors -> Pads]
           /\ pad'[s].reading = pad[s].reading /\ pad'[s].setting = eeprom[s]
<1>1. PICK s \in recalling :
        recalling' = recalling \ {s} /\ pad' = [pad EXCEPT ![s].setting = eeprom[s]]
  BY DEF Sensor!Recalled
<1>2. s \in Sensors /\ pad \in [Sensors -> Pads] /\ pad[s] \in Pads /\ eeprom[s] \in Settings
  BY DEF SensorTypes
<1>3. pad' = [pad EXCEPT ![s] = [pad[s] EXCEPT !.setting = eeprom[s]]]
  BY <1>1
<1>4. /\ [pad[s] EXCEPT !.setting = eeprom[s]] \in Pads
      /\ [pad[s] EXCEPT !.setting = eeprom[s]].setting = eeprom[s]
      /\ [pad[s] EXCEPT !.setting = eeprom[s]].reading = pad[s].reading
  BY <1>2 DEF Pads
<1>5. /\ pad' \in [Sensors -> Pads] /\ \A t \in Sensors \ {s} : pad'[t] = pad[t]
      /\ pad'[s].reading = pad[s].reading /\ pad'[s].setting = eeprom[s]
  BY <1>2, <1>3, <1>4
<1> QED BY <1>1, <1>2, <1>5

\* A sensor that lost its power, or was plugged in.
Restarted(s) ==
  /\ \A t \in Sensors \ {s} : pad'[t] = pad[t]
  /\ pad' \in [Sensors -> Pads]
  /\ pad'[s].reading = "reset" /\ pad'[s].setting = eeprom[s]
  /\ measuring' = measuring \ {s} /\ recalling' = recalling \ {s} /\ fed' = FALSE
  /\ present' \subseteq present \cup {s}
  /\ UNCHANGED <<heldLow, eeprom, command, retryCount, outcome, shorted>>

LEMMA RestartedBy ==
  ASSUME SensorTypes, Sensor!PowerFails \/ Sensor!PlugOrUnplug
  PROVE  \E s \in Sensors : Restarted(s)
<1>1. CASE Sensor!PowerFails
  <2>1. PICK s \in present :
          Sensor!Restart({s}) /\ measuring' = measuring \ {s} /\ recalling' = recalling \ {s}
    BY <1>1 DEF Sensor!PowerFails
  <2>2. s \in Sensors
    BY DEF SensorTypes
  <2> QED BY <1>1, <2>1, <2>2, RestartTyped DEF Restarted, Sensor!PowerFails
<1>2. CASE Sensor!PlugOrUnplug
  <2>1. PICK s \in Sensors :
          /\ present' = present \ {s} \/ present' = present \cup {s}
          /\ Sensor!Restart({s}) /\ measuring' = measuring \ {s} /\ recalling' = recalling \ {s}
    BY <1>2 DEF Sensor!PlugOrUnplug
  <2> QED BY <1>2, <2>1, RestartTyped DEF Restarted, Sensor!PlugOrUnplug
<1> QED BY <1>1, <1>2

\* Every command and every trouble keeps the types of the sensors and of the driver.
LEMMA SensorTypesKept ==
  ASSUME SensorTypes, Sensor!ThermometerNext
  PROVE  SensorTypes'
<1>0. SensorTypes
  OBVIOUS
<1>p. \A s \in Sensors : pad[s] \in Pads /\ eeprom[s] \in Settings /\ pad[s].setting \in Settings
  BY <1>0 DEF SensorTypes, Pads
<1>begin. \A name, id : Sensor!Begin(name, id) => command' = [name |-> name, id |-> id]
  BY DEF Sensor!Begin
<1>over. \A result : Sensor!Over(result) => command' \in [name : SensorCommands, id : SensorIds]
  BY <1>0, StageTyped DEF Sensor!Over, SensorCommands
<1>h. Sensor!Hearing \subseteq Sensors
  BY <1>0, HearingIs DEF SensorTypes
<1>1. ASSUME NEW name \in SensorCommands, NEW id \in SensorIds, Sensor!TestBus(name, id)
      PROVE  SensorTypes'
  <2>0. Sensor!TestBusUnchecked(name, id)
    BY <1>1 DEF Sensor!TestBus
  <2>1. pad' \in [Sensors -> Pads]
    <3>1. \A s \in Sensors : [pad[s] EXCEPT !.reading = "before"] \in Pads
      BY <1>p DEF Pads, Sensor!Readings
    <3>2. CASE UNCHANGED pad
      BY <3>2, <1>0 DEF SensorTypes
    <3>3. CASE pad' = [s \in Sensors |-> IF pad[s].reading = "now" THEN [pad[s] EXCEPT !.reading = "before"]
                                       ELSE pad[s]]
      BY <3>1, <3>3, <1>p
    <3> QED BY <2>0, <3>2, <3>3 DEF Sensor!TestBusUnchecked
  <2>2. command' \in [name : SensorCommands, id : SensorIds]
    BY <2>0, <1>begin DEF Sensor!TestBusUnchecked
  <2> QED BY <1>0, <2>0, <2>1, <2>2 DEF SensorTypes, Sensor!TestBusUnchecked
<1>2. CASE Sensor!StartFail
  <2>1. command' \in [name : SensorCommands, id : SensorIds]
    BY <1>2, <1>begin DEF Sensor!StartFail, SensorIds, SensorCommands
  <2> QED BY <2>1, <1>0, <1>2 DEF SensorTypes, Sensor!StartFail, Sensor!sensorVars
<1>3. ASSUME NEW parasite \in BOOLEAN, Sensor!SendConvert(parasite) PROVE SensorTypes'
  <2>1. command' \in [name : SensorCommands, id : SensorIds]
    <3>1. Sensor!Over("ok") \/ command' = [command EXCEPT !.name = "query"]
      BY <1>3 DEF Sensor!SendConvert
    <3> QED BY <3>1, <1>0, <1>over, StageTyped DEF SensorCommands
  <2> QED BY <2>1, <1>0, <1>3, <1>h DEF SensorTypes, Sensor!SendConvert
<1>4. ASSUME NEW parasite \in BOOLEAN, Sensor!SendCopy(parasite) PROVE SensorTypes'
  <2>1. PICK powered, lost :
          /\ eeprom' = [s \in Sensors |-> IF s \in powered THEN pad[s].setting ELSE eeprom[s]]
          /\ Sensor!Restart(lost) /\ recalling' = recalling \ lost
    BY <1>4 DEF Sensor!SendCopy
  <2>2. pad' \in [Sensors -> Pads]
    BY <1>0, <2>1, RestartTyped
  <2>3. eeprom' \in [Sensors -> Settings]
    BY <1>p, <2>1
  <2>4. command' \in [name : SensorCommands, id : SensorIds]
    BY <1>4, <1>over DEF Sensor!SendCopy
  <2> QED BY <2>1, <2>2, <2>3, <2>4, <1>0, <1>4 DEF SensorTypes, Sensor!SendCopy
<1>5. ASSUME NEW setting \in Settings, Sensor!SendWrite(setting) PROVE SensorTypes'
  <2>1. \A s \in Sensors : [pad[s] EXCEPT !.setting = setting] \in Pads
    BY <1>p DEF Pads
  <2>2. pad' \in [Sensors -> Pads]
    BY <2>1, <1>p, <1>5 DEF Sensor!SendWrite
  <2>3. command' \in [name : SensorCommands, id : SensorIds]
    BY <1>5, <1>over DEF Sensor!SendWrite
  <2> QED BY <2>2, <2>3, <1>0, <1>5 DEF SensorTypes, Sensor!SendWrite
<1>6. CASE Sensor!SendRecall
  <2>1. command' \in [name : SensorCommands, id : SensorIds]
    BY <1>6, <1>0, StageTyped DEF Sensor!SendRecall, SensorCommands
  <2>2. Retries \in 0 .. Retries
    BY SensorAssumption DEF Sensor!ThermometerAssumption
  <2> QED BY <2>1, <2>2, <1>0, <1>6, <1>h DEF SensorTypes, Sensor!SendRecall
<1>7. CASE Sensor!Recalled
  <2>1. PICK s \in Sensors : recalling' = recalling \ {s} /\ pad' \in [Sensors -> Pads]
    BY <1>0, <1>7, RecalledDoes
  <2> QED BY <2>1, <1>0, <1>7 DEF SensorTypes, Sensor!Recalled
<1>8. CASE Sensor!RecallBit
  <2>1. retryCount' \in 0 .. Retries
    <3>1. retryCount \in 0 .. Retries /\ Retries \in Nat
      BY <1>0, SensorAssumption DEF SensorTypes, Sensor!ThermometerAssumption
    <3> QED BY <3>1, <1>8 DEF Sensor!RecallBit
  <2>2. command' \in [name : SensorCommands, id : SensorIds]
    <3>1. command' = command \/ \E result : Sensor!Over(result)
      BY <1>8 DEF Sensor!RecallBit
    <3> QED BY <3>1, <1>0, <1>over DEF SensorTypes
  <2> QED BY <2>1, <2>2, <1>0, <1>8 DEF SensorTypes, Sensor!RecallBit, Sensor!sensorVars
<1>9. CASE Sensor!Measured
  <2>1. PICK s \in Sensors : measuring' = measuring \ {s} /\ pad' \in [Sensors -> Pads]
    BY <1>0, <1>9, MeasuredDoes
  <2> QED BY <2>1, <1>0, <1>9 DEF SensorTypes, Sensor!Measured
<1>10. CASE Sensor!Delay
  <2>1. command' \in [name : SensorCommands, id : SensorIds]
    BY <1>10, <1>0, StageTyped DEF Sensor!Delay, SensorCommands
  <2> QED BY <2>1, <1>0, <1>10 DEF SensorTypes, Sensor!Delay, Sensor!sensorVars
<1>11. CASE Sensor!ReadTemperature
  <2>1. command' \in [name : SensorCommands, id : SensorIds]
    BY <1>11, <1>over DEF Sensor!ReadTemperature
  <2> QED BY <2>1, <1>0, <1>11 DEF SensorTypes, Sensor!ReadTemperature, Sensor!sensorVars
<1>12. ASSUME NEW id \in SensorIds, Sensor!Read(id) \/ Sensor!GetPowerStatus(id)
       PROVE  SensorTypes'
  <2>1. command' \in [name : SensorCommands, id : SensorIds]
    BY <1>12, <1>begin DEF Sensor!Read, Sensor!GetPowerStatus, SensorIds, SensorCommands
  <2> QED BY <2>1, <1>0, <1>12 DEF SensorTypes, Sensor!Read, Sensor!GetPowerStatus, Sensor!sensorVars
<1>13. CASE Sensor!PowerFails \/ Sensor!PlugOrUnplug
  <2>1. PICK s \in Sensors : Restarted(s)
    BY <1>0, <1>13, RestartedBy
  <2> QED BY <2>1, <1>0 DEF SensorTypes, Restarted
<1>14. CASE Sensor!ShortCircuit
  BY <1>0, <1>14 DEF SensorTypes, Sensor!ShortCircuit, Sensor!sensorVars
<1>15. /\ Sensors \subseteq SensorIds /\ Sensor!Ids = SensorIds
       /\ Sensor!Settling \subseteq SensorCommands /\ {"ask", "convert"} \subseteq SensorCommands
  BY DEF SensorIds, Sensor!Ids, Sensor!Settling, SensorCommands
<1> QED BY <1>1, <1>2, <1>3, <1>4, <1>5, <1>6, <1>7, <1>8, <1>9, <1>10, <1>11, <1>12, <1>13,
          <1>14, <1>15 DEF Sensor!ThermometerNext

\* Nothing has been asked or answered at the start.
LEMMA SensorInitially ==
  ASSUME Sensor!ThermometerInit
  PROVE  SensorIInv
<1>0. FactorySetting \in Settings /\ Retries \in Nat /\ Sensor!All \notin Sensors
  BY SensorAssumption DEF Sensor!ThermometerAssumption
<1>1. SensorTypes
  <2>1. [reading |-> "reset", setting |-> FactorySetting] \in Pads
    BY <1>0 DEF Pads, Sensor!Readings
  <2>2. command \in [name : SensorCommands, id : SensorIds]
    BY DEF Sensor!ThermometerInit, SensorIds, SensorCommands
  <2>3. retryCount \in 0 .. Retries
    BY <1>0 DEF Sensor!ThermometerInit
  <2> QED BY <1>0, <2>1, <2>2, <2>3 DEF SensorTypes, Sensor!ThermometerInit
<1>2. Noted /\ Tested /\ Asking /\ Recalling
  BY DEF Sensor!ThermometerInit, Noted, Tested, Asking, Recalling, Sensor!Starts, Sensor!Settling
<1>3. Sensor!ReportsTrue
  BY DEF Sensor!ReportsTrue, Sensor!ThermometerInit
<1> QED BY <1>1, <1>2, <1>3 DEF SensorIInv

\* Where a step leaves the command: it begins one, is over with it, takes it to the next
\* stage, or leaves it where it is.
LEMMA CommandGoes ==
  ASSUME SensorTypes, Sensor!ThermometerNext
  PROVE  \/ \E name \in Sensor!Starts \cup Sensor!Settling, id \in SensorIds :
              /\ Sensor!TestBus(name, id) /\ command'.name = name /\ command'.id = id
              /\ name \in {"ask", "recall"} => id \in Sensors
         \/ command'.name = "none" /\ UNCHANGED <<heldLow, fed, shorted>>
         \/ /\ Sensor!SendConvert(FALSE) /\ command.name = "ask" /\ command'.name = "query"
            /\ command'.id = command.id /\ UNCHANGED outcome
         \/ Sensor!SendRecall /\ command.name = "recall" /\ command'.name = "recalling"
            /\ command'.id = command.id
         \/ Sensor!Delay /\ command.name = "query" /\ command'.name = "answer"
            /\ command'.id = command.id
         \/ Sensor!RecallBit /\ command.name = "recalling" /\ UNCHANGED <<command, outcome>>
         \/ Sensor!Measured \/ Sensor!Recalled \/ Sensor!ShortCircuit
         \/ \E s \in Sensors : Restarted(s)
<1>begin. \A name, id : Sensor!Begin(name, id) => command'.name = name /\ command'.id = id
  BY DEF Sensor!Begin
<1>over. \A result : Sensor!Over(result) => command'.name = "none"
  BY StageTyped DEF Sensor!Over, SensorCommands
<1>1. ASSUME NEW name \in Sensor!Starts \cup Sensor!Settling, NEW id \in SensorIds,
             Sensor!TestBus(name, id)
      PROVE  command'.name = name /\ command'.id = id
  BY <1>1, <1>begin DEF Sensor!TestBus, Sensor!TestBusUnchecked
<1>2. CASE Sensor!StartFail
  BY <1>2, <1>begin DEF Sensor!StartFail
<1>3. ASSUME NEW parasite \in BOOLEAN, Sensor!SendConvert(parasite)
      PROVE  \/ command'.name = "none" /\ UNCHANGED <<heldLow, fed, shorted>>
             \/ /\ Sensor!SendConvert(FALSE) /\ command.name = "ask" /\ command'.name = "query"
                /\ command'.id = command.id /\ UNCHANGED outcome
  <2>1. CASE command.name = "convert"
    BY <1>3, <2>1, <1>over DEF Sensor!SendConvert
  <2>2. CASE command.name # "convert"
    <3>1. parasite = FALSE
      BY <1>3, <2>2 DEF Sensor!SendConvert
    <3>2. /\ command.name = "ask" /\ command' = [command EXCEPT !.name = "query"] /\ UNCHANGED outcome
          /\ strongPullUp' = parasite
      BY <1>3, <2>2 DEF Sensor!SendConvert, Sensor!Starts
    <3>3. command'.name = "query" /\ command'.id = command.id
      BY <3>2, StageTyped DEF SensorCommands
    <3> QED BY <1>3, <3>1, <3>2, <3>3
  <2> QED BY <2>1, <2>2
<1>4. ASSUME NEW parasite, Sensor!SendCopy(parasite)
      PROVE  command'.name = "none" /\ UNCHANGED <<heldLow, fed, shorted>>
  BY <1>4, <1>over DEF Sensor!SendCopy
<1>5. ASSUME NEW setting, Sensor!SendWrite(setting)
      PROVE  command'.name = "none" /\ UNCHANGED <<heldLow, fed, shorted>>
  BY <1>5, <1>over DEF Sensor!SendWrite
<1>6. CASE Sensor!SendRecall
  <2>1. command.name = "recall" /\ command' = [command EXCEPT !.name = "recalling"]
    BY <1>6 DEF Sensor!SendRecall
  <2> QED BY <1>6, <2>1, StageTyped DEF SensorCommands
<1>7. CASE Sensor!RecallBit
  <2>1. /\ command.name = "recalling" /\ UNCHANGED <<heldLow, fed, shorted>>
        /\ UNCHANGED <<command, outcome>> \/ \E result : Sensor!Over(result)
    BY <1>7 DEF Sensor!RecallBit
  <2> QED BY <1>7, <2>1, <1>over
<1>8. CASE Sensor!Delay
  <2>1. command.name = "query" /\ command' = [command EXCEPT !.name = "answer"]
    BY <1>8 DEF Sensor!Delay
  <2> QED BY <1>8, <2>1, StageTyped DEF SensorCommands
<1>9. CASE Sensor!ReadTemperature
  BY <1>9, <1>over DEF Sensor!ReadTemperature
<1>10. ASSUME NEW id, Sensor!Read(id) \/ Sensor!GetPowerStatus(id)
       PROVE  command'.name = "none" /\ UNCHANGED <<heldLow, fed, shorted>>
  BY <1>10, <1>begin DEF Sensor!Read, Sensor!GetPowerStatus
<1>11. CASE Sensor!PowerFails \/ Sensor!PlugOrUnplug
  BY <1>11, RestartedBy
<1>12. /\ Sensors \subseteq SensorIds /\ Sensor!Ids = SensorIds
       /\ "ask" \in Sensor!Starts /\ "convert" \in Sensor!Starts
       /\ "ask" \notin Sensor!Settling
  BY DEF SensorIds, Sensor!Ids, Sensor!Settling, Sensor!Starts
<1>13. ASSUME NEW id \in Sensor!Ids, Sensor!TestBus("convert", id)
       PROVE  \E name \in Sensor!Starts \cup Sensor!Settling, other \in SensorIds :
              /\ Sensor!TestBus(name, other) /\ command'.name = name /\ command'.id = other
              /\ name \in {"ask", "recall"} => other \in Sensors
  BY <1>1, <1>12, <1>13
<1>14. ASSUME NEW name \in {"ask"} \cup Sensor!Settling, NEW id \in Sensors, Sensor!TestBus(name, id)
       PROVE  \E other \in Sensor!Starts \cup Sensor!Settling, whom \in SensorIds :
              /\ Sensor!TestBus(other, whom) /\ command'.name = other /\ command'.id = whom
              /\ other \in {"ask", "recall"} => whom \in Sensors
  BY <1>1, <1>12, <1>14
<1> QED BY <1>2, <1>3, <1>4, <1>5, <1>6, <1>7, <1>8, <1>9, <1>10, <1>11, <1>13, <1>14
        DEF Sensor!ThermometerNext

\* A query waits for the conversions; a short circuit is noted, when a command begins and
\* before it is sent.
LEMMA NotedKept ==
  ASSUME SensorTypes, Noted, Sensor!ThermometerNext
  PROVE  Noted'
<1>0. Noted /\ SensorTypes
  OBVIOUS
<1>1. ASSUME NEW name \in Sensor!Starts \cup Sensor!Settling, NEW id, Sensor!TestBus(name, id),
             command'.name = name
      PROVE  Noted'
  <2>1. ~heldLow' /\ name # "answer" /\ ~shorted'
    BY <1>1 DEF Sensor!TestBus, Sensor!TestBusUnchecked, Sensor!Starts, Sensor!Settling
  <2> QED BY <1>1, <2>1 DEF Noted
<1>2. CASE command'.name = "none" /\ UNCHANGED <<heldLow, fed, shorted>>
  BY <1>0, <1>2 DEF Noted
<1>3. CASE Sensor!SendConvert(FALSE) /\ command.name = "ask" /\ command'.name = "query"
  BY <1>0, <1>3 DEF Noted, Sensor!SendConvert
<1>4. CASE Sensor!SendRecall /\ command'.name = "recalling"
  BY <1>0, <1>4 DEF Noted, Sensor!SendRecall
<1>5. CASE Sensor!Delay
  BY <1>0, <1>5 DEF Noted, Sensor!Delay, Sensor!sensorVars
<1>6. CASE Sensor!RecallBit /\ UNCHANGED <<command, outcome>>
  BY <1>0, <1>6 DEF Noted, Sensor!RecallBit, Sensor!sensorVars
<1>7. CASE Sensor!Measured
  <2>1. PICK s : measuring' = measuring \ {s} /\ (fed' = fed \/ fed' = FALSE)
    BY <1>0, <1>7, MeasuredDoes
  <2>2. UNCHANGED <<command, heldLow, shorted>>
    BY <1>7 DEF Sensor!Measured
  <2> QED BY <1>0, <2>1, <2>2 DEF Noted
<1>8. CASE Sensor!Recalled
  BY <1>0, <1>8 DEF Noted, Sensor!Recalled
<1>9. CASE Sensor!ShortCircuit
  BY <1>0, <1>9 DEF Noted, Sensor!ShortCircuit, Sensor!sensorVars
<1>10. ASSUME NEW s, Restarted(s) PROVE Noted'
  BY <1>0, <1>10 DEF Noted, Restarted
<1> QED BY <1>0, <1>1, <1>2, <1>3, <1>4, <1>5, <1>6, <1>7, <1>8, <1>9, <1>10, CommandGoes

LEMMA TestedKept ==
  ASSUME SensorTypes, Tested, Sensor!ThermometerNext
  PROVE  Tested'
<1>0. Tested /\ SensorTypes
  OBVIOUS
<1>1. ASSUME NEW name, NEW id, Sensor!TestBus(name, id)
      PROVE  Tested'
  BY <1>1 DEF Tested, Sensor!TestBus, Sensor!TestBusUnchecked
<1>2. CASE command'.name = "none"
  BY <1>2 DEF Tested, Sensor!Starts, Sensor!Settling
<1>3. CASE command.name = "ask" /\ command'.name = "query" /\ UNCHANGED outcome
  BY <1>0, <1>3 DEF Tested, Sensor!Starts, Sensor!Settling
<1>4. CASE Sensor!SendRecall /\ command.name = "recall" /\ command'.name = "recalling"
  BY <1>0, <1>4 DEF Tested, Sensor!SendRecall, Sensor!Starts, Sensor!Settling
<1>5. CASE Sensor!Delay /\ command.name = "query" /\ command'.name = "answer"
  BY <1>0, <1>5 DEF Tested, Sensor!Delay, Sensor!Starts, Sensor!Settling
<1>6. CASE Sensor!RecallBit /\ UNCHANGED <<command, outcome>>
  BY <1>0, <1>6 DEF Tested, Sensor!RecallBit
<1>7. CASE Sensor!Measured
  BY <1>0, <1>7 DEF Tested, Sensor!Measured
<1>8. CASE Sensor!Recalled
  BY <1>0, <1>8 DEF Tested, Sensor!Recalled
<1>9. CASE Sensor!ShortCircuit
  BY <1>0, <1>9 DEF Tested, Sensor!ShortCircuit
<1>10. ASSUME NEW s, Restarted(s) PROVE Tested'
  BY <1>0, <1>10 DEF Tested, Restarted
<1> QED BY <1>0, <1>1, <1>2, <1>3, <1>4, <1>5, <1>6, <1>7, <1>8, <1>9, <1>10, CommandGoes

\* From the query to its answer its sensor measures or has measured, or lost its power.
LEMMA AskingKept ==
  ASSUME SensorIInv, Sensor!ThermometerNext
  PROVE  Asking'
<1>0. Asking /\ Tested /\ SensorTypes
  BY DEF SensorIInv
<1>1. ASSUME NEW name \in Sensor!Starts \cup Sensor!Settling, NEW id,
             command'.name = name, command'.id = id, name \in {"ask", "recall"} => id \in Sensors
      PROVE  Asking'
  BY <1>1 DEF Asking, Sensor!Starts, Sensor!Settling
<1>2. CASE command'.name = "none"
  BY <1>2 DEF Asking
<1>3. CASE Sensor!SendConvert(FALSE) /\ command.name = "ask" /\ command'.name = "query"
           /\ command'.id = command.id
  <2>1. command.id \in Sensors /\ (heldLow => shorted)
    BY <1>0, <1>3 DEF Asking, Tested, Sensor!Starts
  <2>2. measuring' = measuring \cup Sensor!Hearing /\ UNCHANGED <<present, shorted, pad, fed>>
    BY <1>3 DEF Sensor!SendConvert
  <2>3. Fresh(command.id)'
    BY <1>0, <1>3, <2>1, <2>2, HearingIs DEF Fresh
  <2> QED BY <1>3, <2>1, <2>3 DEF Asking, Fresh
<1>4. CASE command'.name = "recalling"
  BY <1>4 DEF Asking
<1>5. CASE Sensor!Delay /\ command.name = "query" /\ command'.name = "answer"
           /\ command'.id = command.id
  <2>1. command.id \in Sensors /\ Fresh(command.id)
    BY <1>0, <1>5 DEF Asking
  <2>2. UNCHANGED <<present, measuring, pad, fed, shorted>>
    BY <1>5 DEF Sensor!Delay, Sensor!sensorVars
  <2> QED BY <1>5, <2>1, <2>2 DEF Asking, Fresh
<1>6. CASE Sensor!RecallBit /\ command.name = "recalling" /\ UNCHANGED <<command, outcome>>
  BY <1>6 DEF Asking
<1>same. ASSUME UNCHANGED command, Fresh(command.id) => Fresh(command.id)' PROVE Asking'
  BY <1>0, <1>same DEF Asking, Fresh
<1>7. CASE Sensor!Measured
  <2>1. PICK s \in Sensors :
           /\ measuring' = measuring \ {s}
           /\ \A t \in Sensors \ {s} : pad'[t] = pad[t]
           /\ \/ pad'[s].reading = "now" /\ fed' = fed
              \/ pad'[s].reading = "reset" /\ fed' = FALSE
    BY <1>0, <1>7, MeasuredDoes
  <2>2. UNCHANGED <<command, present, shorted>>
    BY <1>7 DEF Sensor!Measured
  <2>3. ASSUME Fresh(command.id), command.id \in present PROVE Fresh(command.id)'
    <3>1. command.id \in Sensors
      BY <1>0, <2>3 DEF SensorTypes
    <3> QED BY <2>1, <2>2, <2>3, <3>1 DEF Fresh
  <2>4. command.id \notin present => Fresh(command.id)'
    BY <2>2 DEF Fresh
  <2> QED BY <2>2, <2>3, <2>4, <1>same
<1>8. CASE Sensor!Recalled
  <2>1. PICK s \in Sensors :
          (\A t \in Sensors \ {s} : pad'[t] = pad[t]) /\ pad'[s].reading = pad[s].reading
    BY <1>0, <1>8, RecalledDoes
  <2>2. UNCHANGED <<command, present, shorted, measuring, fed>>
    BY <1>8 DEF Sensor!Recalled
  <2>3. command.id \in present => command.id \in Sensors
    BY <1>0 DEF SensorTypes
  <2>4. Fresh(command.id) => Fresh(command.id)'
    BY <2>1, <2>2, <2>3 DEF Fresh
  <2> QED BY <2>2, <2>4, <1>same
<1>9. CASE Sensor!ShortCircuit
  <2>1. /\ UNCHANGED <<command, present, measuring, pad>> /\ fed' = FALSE
        /\ shorted => shorted'
    BY <1>9 DEF Sensor!ShortCircuit, Sensor!sensorVars
  <2>2. Fresh(command.id) => Fresh(command.id)'
    BY <2>1 DEF Fresh
  <2> QED BY <2>1, <2>2, <1>same
<1>10. ASSUME NEW s \in Sensors, Restarted(s) PROVE Asking'
  <2>1. ASSUME Fresh(command.id), command.id \in present' PROVE Fresh(command.id)'
    <3>1. CASE command.id = s
      BY <3>1, <1>10 DEF Fresh, Restarted
    <3>2. CASE command.id # s
      <4>1. command.id \in present /\ command.id \in Sensors
        BY <1>0, <1>10, <2>1, <3>2 DEF Restarted, SensorTypes
      <4> QED BY <1>10, <2>1, <3>2, <4>1 DEF Fresh, Restarted
    <3> QED BY <3>1, <3>2
  <2>2. command.id \notin present' => Fresh(command.id)'
    BY <1>10 DEF Fresh, Restarted
  <2> QED BY <1>10, <2>1, <2>2, <1>same DEF Restarted
<1> QED BY <1>0, <1>1, <1>2, <1>3, <1>4, <1>5, <1>6, <1>7, <1>8, <1>9, <1>10, CommandGoes

\* From the command to its end, the sensor of a recall is at it or has its settings.
LEMMA RecallingKept ==
  ASSUME SensorIInv, Sensor!ThermometerNext
  PROVE  Recalling'
<1>0. Recalling /\ Tested /\ SensorTypes
  BY DEF SensorIInv
<1>1. ASSUME NEW name \in Sensor!Starts \cup Sensor!Settling, NEW id,
             command'.name = name, command'.id = id, name \in {"ask", "recall"} => id \in Sensors
      PROVE  Recalling'
  BY <1>1 DEF Recalling, Sensor!Starts, Sensor!Settling
<1>2. CASE command'.name \in {"none", "query", "answer"}
  BY <1>2 DEF Recalling
<1>3. CASE Sensor!SendRecall /\ command.name = "recall" /\ command'.name = "recalling"
           /\ command'.id = command.id
  <2>1. command.id \in Sensors /\ (heldLow => shorted)
    BY <1>0, <1>3 DEF Recalling, Tested, Sensor!Settling
  <2>2. recalling' = recalling \cup Sensor!Hearing /\ UNCHANGED <<present, shorted, pad, eeprom>>
    BY <1>3 DEF Sensor!SendRecall
  <2>3. Back(command.id)'
    BY <1>0, <1>3, <2>1, <2>2, HearingIs DEF Back
  <2> QED BY <1>3, <2>1, <2>3 DEF Recalling, Back
<1>same. ASSUME UNCHANGED command, Back(command.id) => Back(command.id)' PROVE Recalling'
  BY <1>0, <1>same DEF Recalling, Back
<1>4. CASE Sensor!RecallBit /\ UNCHANGED <<command, outcome>>
  <2>1. UNCHANGED <<command, present, recalling, pad, eeprom, shorted>>
    BY <1>4 DEF Sensor!RecallBit, Sensor!sensorVars
  <2> QED BY <2>1, <1>same DEF Back
<1>5. CASE Sensor!Measured
  <2>1. PICK s \in Sensors :
           /\ \A t \in Sensors \ {s} : pad'[t] = pad[t]
           /\ pad'[s].setting = pad[s].setting \/ pad'[s].setting = eeprom[s]
    BY <1>0, <1>5, MeasuredDoes
  <2>2. UNCHANGED <<command, present, shorted, recalling, eeprom>>
    BY <1>5 DEF Sensor!Measured
  <2>3. command.id \in present => command.id \in Sensors
    BY <1>0 DEF SensorTypes
  <2>4. Back(command.id) => Back(command.id)'
    BY <2>1, <2>2, <2>3 DEF Back
  <2> QED BY <2>2, <2>4, <1>same
<1>6. CASE Sensor!Recalled
  <2>1. PICK s \in Sensors :
          /\ recalling' = recalling \ {s}
          /\ \A t \in Sensors \ {s} : pad'[t] = pad[t]
          /\ pad'[s].setting = eeprom[s]
    BY <1>0, <1>6, RecalledDoes
  <2>2. UNCHANGED <<command, present, shorted, eeprom>>
    BY <1>6 DEF Sensor!Recalled
  <2>3. command.id \in present => command.id \in Sensors
    BY <1>0 DEF SensorTypes
  <2>4. Back(command.id) => Back(command.id)'
    BY <2>1, <2>2, <2>3 DEF Back
  <2> QED BY <2>2, <2>4, <1>same
<1>7. CASE Sensor!ShortCircuit
  <2>1. UNCHANGED <<command, present, recalling, pad, eeprom>> /\ (shorted => shorted')
    BY <1>7 DEF Sensor!ShortCircuit, Sensor!sensorVars
  <2>2. Back(command.id) => Back(command.id)'
    BY <2>1 DEF Back
  <2> QED BY <2>1, <2>2, <1>same
<1>8. ASSUME NEW s \in Sensors, Restarted(s) PROVE Recalling'
  <2>1. ASSUME Back(command.id), command.id \in present' PROVE Back(command.id)'
    <3>1. CASE command.id = s
      BY <3>1, <1>8 DEF Back, Restarted
    <3>2. CASE command.id # s
      <4>1. command.id \in present /\ command.id \in Sensors
        BY <1>0, <1>8, <2>1, <3>2 DEF Restarted, SensorTypes
      <4> QED BY <1>8, <2>1, <3>2, <4>1 DEF Back, Restarted
    <3> QED BY <3>1, <3>2
  <2>2. command.id \notin present' => Back(command.id)'
    BY <1>8 DEF Back, Restarted
  <2> QED BY <1>8, <2>1, <2>2, <1>same DEF Restarted
<1> QED BY <1>0, <1>1, <1>2, <1>3, <1>4, <1>5, <1>6, <1>7, <1>8, CommandGoes

\* What the end of a query and the end of a recall report.
LEMMA AnswerTrue ==
  ASSUME SensorIInv, Sensor!ReadTemperature
  PROVE  Sensor!ReportsTrue'
<1>0. SensorTypes /\ Noted /\ Asking
  BY DEF SensorIInv
<1>1. /\ command.name = "answer" /\ UNCHANGED <<fed, shorted>>
      /\ \/ outcome' = "ERROR_CRC"
         \/ outcome' \in Sensor!Scratchpad(command.id)
  BY DEF Sensor!ReadTemperature, Sensor!Over
<1>2. command.id \in Sensors /\ Fresh(command.id) /\ measuring = {}
  BY <1>0, <1>1 DEF Asking, Noted
<1>3. CASE outcome' = "ERROR_CRC"
  BY <1>3 DEF Sensor!ReportsTrue
<1>4. CASE heldLow /\ outcome' \in Sensor!Scratchpad(command.id)
  <2>1. outcome' = "zero" /\ ~fed
    BY <1>4, <1>0 DEF Sensor!Scratchpad, Noted
  <2> QED BY <1>1, <2>1 DEF Sensor!ReportsTrue
<1>5. CASE ~heldLow /\ outcome' \in Sensor!Scratchpad(command.id)
  <2>1. outcome' \in {pad[s].reading : s \in Sensor!Addressed(command.id)}
    BY <1>5 DEF Sensor!Scratchpad
  <2>2. PICK s \in Sensor!Addressed(command.id) : outcome' = pad[s].reading
    BY <2>1
  <2>3. s = command.id /\ command.id \in present
    BY <1>2, <2>2, SensorAssumption DEF Sensor!Addressed, Sensor!ThermometerAssumption
  <2>4. \/ pad[command.id].reading = "now"
        \/ pad[command.id].reading = "reset" /\ ~fed
        \/ shorted
    BY <1>2, <2>3 DEF Fresh
  <2>5. (outcome' = "reset" => ~fed) /\ outcome' # "zero" /\ outcome' # "recalled"
        /\ (outcome' = "before" => shorted)
    <3>1. pad[command.id].reading \in Sensor!Readings \ {"zero"}
      BY <1>0, <1>2 DEF SensorTypes, Pads
    <3>2. shorted => ~fed
      BY <1>0, <1>1 DEF Noted
    <3>3. outcome' = pad[command.id].reading /\ UNCHANGED <<fed, shorted>>
      BY <1>1, <2>2, <2>3
    <3>4. outcome' # "zero" /\ outcome' # "recalled"
      BY <2>4, <3>1, <3>3 DEF Sensor!Readings
    <3> QED BY <2>4, <3>2, <3>3, <3>4
  <2> QED BY <1>1, <2>5 DEF Sensor!ReportsTrue
<1> QED BY <1>1, <1>3, <1>4, <1>5

LEMMA RecallTrue ==
  ASSUME SensorIInv, Sensor!RecallBit
  PROVE  Sensor!ReportsTrue'
<1>0. SensorTypes /\ Tested /\ Recalling
  BY DEF SensorIInv
<1> DEFINE left == (retryCount - 1) % (Retries + 1)
           bit == ~heldLow /\ recalling \cap Sensor!Addressed(command.id) = {}
<1>1. /\ command.name = "recalling" /\ retryCount' = left
      /\ IF retryCount # 0 /\ ~bit THEN UNCHANGED <<command, outcome>>
         ELSE Sensor!Over(IF left # 0 THEN "recalled" ELSE "ERROR")
      /\ UNCHANGED <<present, pad, eeprom, recalling, shorted, fed>>
  BY DEF Sensor!RecallBit, Sensor!sensorVars
<1>2. command.id \in Sensors /\ Back(command.id) /\ outcome = "none"
  BY <1>0, <1>1 DEF Recalling, Tested
<1>3. CASE retryCount # 0 /\ ~bit
  <2>1. outcome' = "none"
    BY <1>1, <1>2, <1>3
  <2> QED BY <2>1 DEF Sensor!ReportsTrue
<1>4. CASE ~(retryCount # 0 /\ ~bit)
  <2>1. command' = [command EXCEPT !.name = "none"] /\ outcome' \in {"recalled", "ERROR"}
    BY <1>1, <1>4 DEF Sensor!Over
  <2>2. command'.id = command.id
    BY <2>1, <1>0, StageTyped DEF SensorCommands
  <2>3. CASE bit
    <3>1. command.id \in present => command.id \in Sensor!Addressed(command.id)
      BY DEF Sensor!Addressed
    <3>2. command.id \in present => pad[command.id].setting = eeprom[command.id] \/ shorted
      BY <1>2, <2>3, <3>1 DEF Back
    <3> QED BY <1>1, <2>1, <2>2, <3>2 DEF Sensor!ReportsTrue
  <2>4. CASE retryCount = 0
    <3>1. Retries \in Nat
      BY SensorAssumption DEF Sensor!ThermometerAssumption
    <3>2. retryCount' = Retries
      BY <1>1, <2>4, <3>1
    <3> QED BY <2>1, <3>2 DEF Sensor!ReportsTrue
  <2> QED BY <1>4, <2>3, <2>4
<1> QED BY <1>3, <1>4

\* What a step reports: ReportsTrue of the steps that are no answer and no recall.
LEMMA ReportsKept ==
  ASSUME SensorIInv, Sensor!ThermometerNext
  PROVE  Sensor!ReportsTrue'
<1>0. SensorTypes /\ Tested /\ Sensor!ReportsTrue
  BY DEF SensorIInv
\* Nothing that is reported.
<1>other. ASSUME outcome' \notin {"before", "reset", "zero", "recalled"} PROVE Sensor!ReportsTrue'
  BY <1>other DEF Sensor!ReportsTrue
<1>1. ASSUME NEW name, NEW id, Sensor!TestBus(name, id) PROVE Sensor!ReportsTrue'
  BY <1>1, <1>other DEF Sensor!TestBus, Sensor!TestBusUnchecked
<1>2. CASE Sensor!StartFail
  BY <1>2, <1>other DEF Sensor!StartFail
<1>3. ASSUME NEW parasite, Sensor!SendConvert(parasite) PROVE Sensor!ReportsTrue'
  <2>1. outcome' = "ok" \/ outcome' = outcome
    BY <1>3 DEF Sensor!SendConvert, Sensor!Over
  <2>2. outcome = "none"
    BY <1>0, <1>3 DEF Tested, Sensor!SendConvert, Sensor!Starts
  <2> QED BY <2>1, <2>2, <1>other
<1>4. ASSUME NEW parasite, Sensor!SendCopy(parasite) PROVE Sensor!ReportsTrue'
  BY <1>4, <1>other DEF Sensor!SendCopy, Sensor!Over
<1>5. ASSUME NEW setting, Sensor!SendWrite(setting) PROVE Sensor!ReportsTrue'
  BY <1>5, <1>other DEF Sensor!SendWrite, Sensor!Over
<1>6. CASE Sensor!SendRecall \/ Sensor!Delay
  <2>1. outcome' = outcome /\ command.name # "none"
    BY <1>6 DEF Sensor!SendRecall, Sensor!Delay
  <2> QED BY <2>1, <1>0, <1>other DEF Tested
<1>7. ASSUME NEW id, Sensor!Read(id) PROVE Sensor!ReportsTrue'
  BY <1>7, <1>other DEF Sensor!Read
<1>8. ASSUME NEW id, Sensor!GetPowerStatus(id) PROVE Sensor!ReportsTrue'
  BY <1>8, <1>other DEF Sensor!GetPowerStatus
<1>9. CASE Sensor!Measured
  <2>1. PICK s \in Sensors :
           /\ \A t \in Sensors \ {s} : pad'[t] = pad[t]
           /\ pad'[s].setting = pad[s].setting \/ pad'[s].setting = eeprom[s]
           /\ fed' = fed \/ fed' = FALSE
    BY <1>0, <1>9, MeasuredDoes
  <2>2. UNCHANGED <<present, command, outcome, eeprom, retryCount, shorted>>
    BY <1>9 DEF Sensor!Measured
  <2>3. command.id \in present => command.id \in Sensors
    BY <1>0 DEF SensorTypes
  <2>4. command.id \in present /\ pad[command.id].setting = eeprom[command.id]
          => pad'[command.id].setting = eeprom[command.id]
    BY <2>1, <2>3
  <2> QED BY <2>1, <2>2, <2>4, <1>0 DEF Sensor!ReportsTrue
<1>10. CASE Sensor!Recalled
  <2>1. PICK s \in Sensors :
          (\A t \in Sensors \ {s} : pad'[t] = pad[t]) /\ pad'[s].setting = eeprom[s]
    BY <1>0, <1>10, RecalledDoes
  <2>2. UNCHANGED <<present, command, outcome, eeprom, retryCount, shorted, fed>>
    BY <1>10 DEF Sensor!Recalled
  <2>3. command.id \in present => command.id \in Sensors
    BY <1>0 DEF SensorTypes
  <2>4. command.id \in present /\ pad[command.id].setting = eeprom[command.id]
          => pad'[command.id].setting = eeprom[command.id]
    BY <2>1, <2>3
  <2> QED BY <2>2, <2>4, <1>0 DEF Sensor!ReportsTrue
<1>11. CASE Sensor!PowerFails \/ Sensor!PlugOrUnplug
  <2>1. PICK s \in Sensors : Restarted(s)
    BY <1>0, <1>11, RestartedBy
  <2>2. command.id \in present' /\ (command.id \in present => pad[command.id].setting = eeprom[command.id])
          => pad'[command.id].setting = eeprom[command.id]
    <3>1. command.id \in present => command.id \in Sensors
      BY <1>0 DEF SensorTypes
    <3> QED BY <2>1, <3>1 DEF Restarted
  <2>3. command.id \in present' => command.id = s \/ command.id \in present
    BY <2>1 DEF Restarted
  <2>4. command.id = s => pad'[command.id].setting = eeprom[command.id]
    BY <2>1 DEF Restarted
  <2>5. fed' = FALSE /\ UNCHANGED <<command, outcome, eeprom, retryCount, shorted>>
    BY <2>1 DEF Restarted
  <2> QED BY <2>2, <2>3, <2>4, <2>5, <1>0 DEF Sensor!ReportsTrue
<1>12. CASE Sensor!ShortCircuit
  <2>1. /\ UNCHANGED <<present, pad, eeprom, command, outcome, retryCount>> /\ fed' = FALSE
        /\ shorted => shorted'
    BY <1>12 DEF Sensor!ShortCircuit, Sensor!sensorVars
  <2> QED BY <2>1, <1>0 DEF Sensor!ReportsTrue
<1> QED BY <1>1, <1>2, <1>3, <1>4, <1>5, <1>6, <1>7, <1>8, <1>9, <1>10, <1>11, <1>12, AnswerTrue,
          RecallTrue DEF Sensor!ThermometerNext

\* A step is one of the thermometers or leaves them alone.
LEMMA SensorSteps ==
  ASSUME [MCNext]_allVars
  PROVE  Sensor!ThermometerNext \/ UNCHANGED ofSensor
BY DEF allVars, MCNext, ExceptSearch, ExceptSerial, ExceptSpi, ExceptAdc

\* A temperature query is answered with what its sensor measured in it, with what it
\* measured earlier only if the bus was shorted between the test of it and the command,
\* and with 85 or 0 degrees only after trouble; a recall that reports success brought the
\* settings back, unless its command was lost likewise or retry_count ran out
\* (ds18x20.cpp): for any number of sensors, commands and troubles.
THEOREM AnswersTrue == MCSpec => []ReportsTrue
<1>1. MCInit => SensorIInv
  BY SensorInitially DEF MCInit, PeripheralsInit
<1>2. SensorIInv /\ [MCNext]_allVars => SensorIInv'
  <2>1. ASSUME SensorIInv, UNCHANGED ofSensor PROVE SensorIInv'
    BY <2>1 DEF ofSensor, SensorIInv, SensorTypes, Noted, Tested, Asking, Fresh, Recalling, Back,
      Sensor!ReportsTrue
  <2>2. ASSUME SensorIInv, Sensor!ThermometerNext PROVE SensorIInv'
    BY <2>2, SensorTypesKept, NotedKept, TestedKept, AskingKept, RecallingKept, ReportsKept
       DEF SensorIInv
  <2> QED BY <2>1, <2>2, SensorSteps
<1>3. SensorIInv => ReportsTrue
  BY DEF SensorIInv, ReportsTrue
<1> QED BY <1>1, <1>2, <1>3, PTL DEF MCSpec

-----------------------------------------------------------------------------
(* The search for thermometers *)

\* r and s have the same first bits, up to before bit b; s is above r, because of bit b.
Agree(s, r, b) == \A i \in 1 .. b - 1 : s[i] = r[i]
Above(s, r, b) == s[b] = 1 /\ r[b] = 0 /\ Agree(s, r, b)

\* The bit that stands at a place, counted by bitsLeft.
Pos(place) == RomBits - place + 1

\* The program was given a code, or it is none of a thermometer.
Seen(s) == s \notin Thermometers \/ \E k \in DOMAIN found : found[k] = s

SearchTypes ==
  /\ sensors \subseteq Search!Codes /\ selected \subseteq sensors /\ romId \in Search!Codes
  /\ bitsLeft \in 0 .. RomBits /\ nextDiff \in 0 .. RomBits
  /\ diff \in 0 .. RomBits \cup {254, 255}
  /\ found \in Seq(Search!Codes) /\ faults \in 0 .. 1
  /\ searchPc \in {"reset", "bit", "passed", "over"}

\* When a pass is over: all sensors above the code it found have been seen.
Behind == \A s \in sensors : \A b \in 1 .. RomBits : Above(s, romId, b) => Seen(s)

\* No sensor turns off below the place where the next pass is to turn.
Ahead ==
  \A s \in sensors : \A b \in 1 .. RomBits :
    Above(romId, s, b) => diff \in 1 .. RomBits /\ b <= Pos(diff)

\* Every sensor is above the code found or below it.
Compared ==
  \A s \in sensors :
    s = romId \/ \E b \in 1 .. RomBits : Above(s, romId, b) \/ Above(romId, s, b)

\* The turn is at a place where two sensors parted, of which one is still there.
Turning ==
  diff \in 1 .. RomBits =>
    \E w \in Search!Codes :
      /\ Above(romId, w, Pos(diff))
      /\ faults = 0 => romId \in sensors /\ w \in sensors
      /\ romId \in sensors \/ w \in sensors

Boundary == Behind /\ Ahead /\ Compared /\ Turning

\* As long as nobody unplugs a sensor, the codes found descend.
FoundAbove ==
  faults = 0 => \A k \in DOMAIN found : \E b \in 1 .. RomBits : Above(found[k], romId, b)
FoundFrom ==
  faults = 0 => \A k \in DOMAIN found :
                  found[k] = romId \/ \E b \in 1 .. RomBits : Above(found[k], romId, b)
Distinct == faults = 0 => \A k, l \in DOMAIN found : found[k] = found[l] => k = l

Before == 1 .. Search!Bit - 1 \* the bits the pass has been through

\* In the middle of a pass: who takes part; the others turned off at one of the bits, those
\* that are below at the place of nextDiff or above it.
InPass ==
  /\ selected = {s \in sensors : Agree(s, romId, Search!Bit)}
  /\ \A s \in sensors \ selected : \E b \in Before : Above(s, romId, b) \/ Above(romId, s, b)
  /\ \A s \in sensors : \A b \in Before :
       Above(romId, s, b) => nextDiff \in 1 .. RomBits /\ b <= Pos(nextDiff)
  /\ nextDiff # 0 =>
       /\ Pos(nextDiff) \in Before
       /\ \E w \in Search!Codes :
            Above(romId, w, Pos(nextDiff)) /\ (faults = 0 => w \in sensors)

\* Below the turn: who is above has been seen.
SeenBefore == \A s \in sensors : \A b \in Before : Above(s, romId, b) => Seen(s)
FoundBefore ==
  faults = 0 => \A k \in DOMAIN found : \E b \in Before : Above(found[k], romId, b)

SearchIInv ==
  /\ SearchTypes /\ Distinct
  /\ searchPc = "passed" /\ diff \in 0 .. RomBits => Boundary /\ FoundAbove
  /\ searchPc = "reset" =>
       \/ diff = 255 /\ found = <<>>
       \/ diff \in 1 .. RomBits /\ Boundary /\ Seen(romId) /\ FoundFrom
  /\ searchPc = "bit" =>
       /\ bitsLeft \in 1 .. RomBits /\ diff \in 1 .. RomBits \cup {255}
       /\ InPass
       /\ diff <= bitsLeft => Boundary /\ Seen(romId) /\ FoundFrom
       /\ diff > bitsLeft => SeenBefore /\ FoundBefore
  /\ searchPc = "over" /\ diff = 0 => \A s \in sensors : Seen(s)

-----------------------------------------------------------------------------
(* Codes, and one with another bit at place b *)

\* Up to b nothing changes.
LEMMA SameBefore ==
  ASSUME NEW r \in Search!Codes, NEW b \in 1 .. RomBits, NEW v \in {0, 1},
         NEW r2 \in Search!Codes, r2[b] = v, \A i \in 1 .. RomBits : i # b => r2[i] = r[i]
  PROVE  \A s :
           /\ \A c \in 1 .. b : Agree(s, r2, c) <=> Agree(s, r, c)
           /\ \A c \in 1 .. b - 1 : Above(s, r2, c) <=> Above(s, r, c)
           /\ \A c \in 1 .. b - 1 : Above(r2, s, c) <=> Above(r, s, c)
           /\ Agree(s, r2, b + 1) <=> Agree(s, r, b) /\ s[b] = v
           /\ Above(s, r2, b) <=> Agree(s, r, b) /\ s[b] = 1 /\ v = 0
           /\ Above(r2, s, b) <=> Agree(s, r, b) /\ s[b] = 0 /\ v = 1
<1> TAKE s
<1>0. RomBits \in Nat
  BY SearchAssumption DEF Search!OneWireAssumption
<1>1. r2[b] = v
  OBVIOUS
<1>2. \A i \in 1 .. b - 1 : r2[i] = r[i]
  BY <1>0
<1>3. \A c \in 1 .. b : Agree(s, r2, c) <=> Agree(s, r, c)
  BY <1>0, <1>2 DEF Agree
<1>4. \A c \in 1 .. b : Agree(r2, s, c) <=> Agree(r, s, c)
  BY <1>0, <1>2 DEF Agree
<1>5. Agree(s, r2, b) <=> Agree(r2, s, b)
  BY DEF Agree
<1>6. b \in 1 .. b /\ \A i \in 1 .. (b + 1) - 1 : i \in 1 .. b - 1 \/ i = b
  BY <1>0
<1>7. b \in 1 .. (b + 1) - 1 /\ \A i \in 1 .. b - 1 : i \in 1 .. (b + 1) - 1
  BY <1>0
<1>8. Agree(s, r2, b + 1) <=> Agree(s, r2, b) /\ s[b] = r2[b]
  BY <1>6, <1>7 DEF Agree
<1>9. \A c \in 1 .. b - 1 : c \in 1 .. b
  BY <1>0
<1> QED BY <1>1, <1>2, <1>3, <1>4, <1>5, <1>6, <1>8, <1>9 DEF Above

\* Who agrees with r before a place agrees with it before an earlier one.
LEMMA AgreeEarlier ==
  ASSUME NEW b \in 1 .. RomBits, NEW c \in 1 .. b, NEW s, NEW r, Agree(s, r, b)
  PROVE  Agree(s, r, c) /\ (c # b => s[c] = r[c])
<1>0. RomBits \in Nat
  BY SearchAssumption DEF Search!OneWireAssumption
<1>1. \A i \in 1 .. c - 1 : i \in 1 .. b - 1
  BY <1>0
<1>2. c # b => c \in 1 .. b - 1
  BY <1>0
<1> QED BY <1>1, <1>2 DEF Agree

\* Who agrees with r in all bits is r.
LEMMA AgreeInAll ==
  ASSUME NEW r \in Search!Codes, NEW s \in Search!Codes, Agree(s, r, RomBits + 1)
  PROVE  s = r
<1>0. RomBits \in Nat
  BY SearchAssumption DEF Search!OneWireAssumption
<1>1. (RomBits + 1) - 1 = RomBits
  BY <1>0
<1>2. \A i \in 1 .. RomBits : s[i] = r[i]
  BY <1>1 DEF Agree
<1>3. r = [i \in 1 .. RomBits |-> r[i]] /\ s = [i \in 1 .. RomBits |-> s[i]]
  BY DEF Search!Codes
<1> QED BY <1>2, <1>3

-----------------------------------------------------------------------------
(* One bit of a pass *)

\* What the pass does with the bit v, whether all sensors have it or not: some go on; if
\* others part from them the turn of the pass before decided, and where they are left below
\* is remembered.
Walk(v) ==
  /\ romId' = [romId EXCEPT ![Search!Bit] = v]
  /\ selected' = {s \in selected : s[Search!Bit] = v}
  /\ \E s \in selected : s[Search!Bit] = v
  /\ v = 0 /\ (\E s \in selected : s[Search!Bit] = 1) => ~Search!Turn
  /\ v = 1 /\ (\E s \in selected : s[Search!Bit] = 0) => Search!Turn /\ nextDiff' = bitsLeft
  /\ ~(v = 1 /\ \E s \in selected : s[Search!Bit] = 0) => nextDiff' = nextDiff
  /\ bitsLeft' = bitsLeft - 1
  /\ diff' = IF bitsLeft = 1 THEN nextDiff' ELSE diff
  /\ searchPc' = IF bitsLeft = 1 THEN "passed" ELSE "bit"
  /\ UNCHANGED <<sensors, found, faults>>

\* The bits of those that take part.
LEMMA InTheMiddle ==
  ASSUME SearchIInv, searchPc = "bit"
  PROVE  /\ Search!Bit \in 1 .. RomBits /\ Search!Bit = Pos(bitsLeft)
         /\ bitsLeft \in 1 .. RomBits
         /\ romId \in Search!Codes /\ romId[Search!Bit] \in {0, 1}
         /\ sensors \subseteq Search!Codes
         /\ \A s \in sensors : s[Search!Bit] \in {0, 1}
         /\ RomBits \in 1 .. 253
<1>1. RomBits \in 1 .. 253
  BY SearchAssumption DEF Search!OneWireAssumption
<1>2. bitsLeft \in 1 .. RomBits /\ SearchTypes
  BY DEF SearchIInv
<1>3. Search!Bit \in 1 .. RomBits /\ Search!Bit = Pos(bitsLeft)
  BY <1>1, <1>2 DEF Search!Bit, Pos
<1> QED BY <1>1, <1>2, <1>3 DEF SearchTypes, Search!Codes

\* Both kinds of bits that are read, one value or two, are steps down the tree.
LEMMA WalkSteps ==
  ASSUME SearchIInv, Search!SameBit \/ Search!Branch
  PROVE  searchPc = "bit" /\ \E v \in {0, 1} : Walk(v)
<1>1. searchPc = "bit"
  BY DEF Search!SameBit, Search!Branch
<1>2. /\ \A s \in selected : s[Search!Bit] \in {0, 1}
      /\ bitsLeft \in 1 .. RomBits /\ RomBits \in 1 .. 253
  BY <1>1, InTheMiddle DEF SearchIInv, SearchTypes
<1>3. (bitsLeft - 1 = 0) <=> (bitsLeft = 1)
  BY <1>2
<1>4. CASE Search!SameBit
  <2>1. PICK v \in {0, 1} : Search!ReadsHigh(v) /\ Search!Follow(v)
    BY <1>4 DEF Search!SameBit
  <2>2. /\ selected # {} /\ \A s \in selected : s[Search!Bit] = v
        /\ nextDiff' = nextDiff /\ diff' = IF bitsLeft = 1 THEN nextDiff ELSE diff
    BY <1>4, <2>1 DEF Search!SameBit, Search!ReadsHigh
  <2>3. Walk(v)
    BY <1>2, <1>3, <2>1, <2>2 DEF Walk, Search!Follow
  <2> QED BY <1>1, <2>3
<1>5. CASE Search!Branch
  <2>1. PICK v \in {0, 1} :
          v = (IF Search!Turn THEN 1 ELSE 0) /\ Search!Follow(v)
    BY <1>5 DEF Search!Branch
  <2>2. /\ \E s \in selected : s[Search!Bit] = 0
        /\ \E s \in selected : s[Search!Bit] = 1
    BY <1>2, <1>5 DEF Search!Branch, Search!ReadsHigh
  <2>3. /\ nextDiff' = IF Search!Turn THEN bitsLeft ELSE nextDiff
        /\ diff' = IF bitsLeft = 1 THEN nextDiff' ELSE diff
    BY <1>5 DEF Search!Branch
  <2>4. Walk(v)
    BY <1>3, <2>1, <2>2, <2>3 DEF Walk, Search!Follow
  <2> QED BY <1>1, <2>4
<1> QED BY <1>4, <1>5

\* What a step of the pass leaves to show, with the bit it stands at before and after.
LEMMA WalkTyped ==
  ASSUME SearchIInv, searchPc = "bit", NEW v \in {0, 1}, Walk(v)
  PROVE  /\ SearchTypes' /\ Distinct'
         /\ Search!Bit' = Search!Bit + 1
         /\ Before' = 1 .. Search!Bit
         /\ romId'[Search!Bit] = v /\ romId' \in Search!Codes
<1> DEFINE B == Search!Bit
<1>0. /\ B \in 1 .. RomBits /\ bitsLeft \in 1 .. RomBits /\ RomBits \in 1 .. 253
      /\ SearchTypes /\ Distinct /\ B = RomBits - bitsLeft + 1
  BY InTheMiddle DEF SearchIInv, Search!Bit
<1>1. romId' \in Search!Codes /\ romId'[B] = v
  <2>1. romId \in Search!Codes /\ romId' = [romId EXCEPT ![B] = v]
    BY <1>0 DEF Walk, SearchTypes
  <2> HIDE DEF B
  <2> QED BY <2>1, <1>0 DEF Search!Codes
<1>2. Search!Bit' = B + 1
  BY <1>0 DEF Walk, Search!Bit
<1>3. Before' = 1 .. B
  <2>1. (B + 1) - 1 = B
    BY <1>0
  <2> QED BY <1>2, <2>1 DEF Before
<1>4. nextDiff' \in 0 .. RomBits
  BY <1>0 DEF Walk, SearchTypes
<1>5. bitsLeft' \in 0 .. RomBits
  BY <1>0 DEF Walk
<1>6. diff' \in 0 .. RomBits \cup {254, 255} /\ searchPc' \in {"reset", "bit", "passed", "over"}
  BY <1>0, <1>4 DEF Walk, SearchTypes
<1>7. selected' \subseteq sensors' /\ sensors' \subseteq Search!Codes
  BY <1>0 DEF Walk, SearchTypes
<1>8. SearchTypes'
  BY <1>0, <1>1, <1>4, <1>5, <1>6, <1>7 DEF Walk, SearchTypes
<1>9. Distinct'
  BY <1>0 DEF Walk, Distinct
<1> QED BY <1>1, <1>2, <1>3, <1>8, <1>9

\* The codes that are compared with the one found so far, before and after the step.
LEMMA BitTaken ==
  ASSUME SearchIInv, searchPc = "bit", NEW v \in {0, 1}, Walk(v)
  PROVE  \A s :
           /\ \A c \in 1 .. Search!Bit - 1 : Above(s, romId', c) <=> Above(s, romId, c)
           /\ \A c \in 1 .. Search!Bit - 1 : Above(romId', s, c) <=> Above(romId, s, c)
           /\ Agree(s, romId', Search!Bit + 1) <=> Agree(s, romId, Search!Bit) /\ s[Search!Bit] = v
           /\ Above(s, romId', Search!Bit)
                <=> Agree(s, romId, Search!Bit) /\ s[Search!Bit] = 1 /\ v = 0
           /\ Above(romId', s, Search!Bit)
                <=> Agree(s, romId, Search!Bit) /\ s[Search!Bit] = 0 /\ v = 1
<1> DEFINE B == Search!Bit
           r2 == romId'
<1>1. B \in 1 .. RomBits /\ romId \in Search!Codes
  BY InTheMiddle
<1>2. r2 \in Search!Codes /\ r2[B] = v
  BY WalkTyped
<1>3. \A i \in 1 .. RomBits : i # B => r2[i] = romId[i]
  BY <1>1 DEF Search!Codes, Walk
<1> HIDE DEF B, r2
<1>4. \A s : /\ \A c \in 1 .. B - 1 : Above(s, r2, c) <=> Above(s, romId, c)
             /\ \A c \in 1 .. B - 1 : Above(r2, s, c) <=> Above(romId, s, c)
             /\ Agree(s, r2, B + 1) <=> Agree(s, romId, B) /\ s[B] = v
             /\ Above(s, r2, B) <=> Agree(s, romId, B) /\ s[B] = 1 /\ v = 0
             /\ Above(r2, s, B) <=> Agree(s, romId, B) /\ s[B] = 0 /\ v = 1
  <2>1. romId \in Search!Codes /\ B \in 1 .. RomBits /\ r2 \in Search!Codes /\ r2[B] = v
    BY <1>1, <1>2
  <2> QED BY <2>1, <1>3, SameBefore
<1> QED BY <1>4 DEF B, r2

\* A step down: who has another bit here turns off, above or below the path.
LEMMA InPassKept ==
  ASSUME SearchIInv, searchPc = "bit", NEW v \in {0, 1}, Walk(v)
  PROVE  InPass'
<1> DEFINE B == Search!Bit
           r2 == romId'
<1>0. /\ B \in 1 .. RomBits /\ bitsLeft \in 1 .. RomBits /\ RomBits \in 1 .. 253
      /\ B = Pos(bitsLeft) /\ sensors \subseteq Search!Codes /\ romId \in Search!Codes
      /\ \A s \in sensors : s[B] \in {0, 1}
  BY InTheMiddle
<1>1. /\ Search!Bit' = B + 1 /\ Before' = 1 .. B /\ r2[B] = v /\ r2 \in Search!Codes
  BY WalkTyped
<1>2. InPass /\ Before = 1 .. B - 1
  BY DEF SearchIInv, Before
<1>3. /\ r2 = [romId EXCEPT ![B] = v] /\ selected' = {s \in selected : s[B] = v}
      /\ v = 1 /\ (\E s \in selected : s[B] = 0) => nextDiff' = bitsLeft
      /\ ~(v = 1 /\ \E s \in selected : s[B] = 0) => nextDiff' = nextDiff
      /\ UNCHANGED <<sensors, found, faults>>
  BY DEF Walk
<1>4. /\ selected = {s \in sensors : Agree(s, romId, B)}
      /\ \A s \in sensors \ selected : \E b \in 1 .. B - 1 : Above(s, romId, b) \/ Above(romId, s, b)
      /\ \A s \in sensors : \A b \in 1 .. B - 1 :
           Above(romId, s, b) => nextDiff \in 1 .. RomBits /\ b <= Pos(nextDiff)
      /\ nextDiff # 0 =>
           /\ Pos(nextDiff) \in 1 .. B - 1
           /\ \E w \in Search!Codes :
                Above(romId, w, Pos(nextDiff)) /\ (faults = 0 => w \in sensors)
  BY <1>2 DEF InPass
<1> HIDE DEF B, r2
<1>5. \A s : /\ \A c \in 1 .. B - 1 : Above(s, r2, c) <=> Above(s, romId, c)
             /\ \A c \in 1 .. B - 1 : Above(r2, s, c) <=> Above(romId, s, c)
             /\ Agree(s, r2, B + 1) <=> Agree(s, romId, B) /\ s[B] = v
             /\ Above(s, r2, B) <=> Agree(s, romId, B) /\ s[B] = 1 /\ v = 0
             /\ Above(r2, s, B) <=> Agree(s, romId, B) /\ s[B] = 0 /\ v = 1
  BY BitTaken DEF B, r2
<1>6. /\ \A c \in 1 .. B - 1 : c \in 1 .. B
      /\ \A c \in 1 .. B : c \in 1 .. B - 1 \/ c = B
      /\ B \in 1 .. B
  BY <1>0
<1>7. selected' = {s \in sensors' : Agree(s, r2, B + 1)}
  BY <1>3, <1>4, <1>5
<1>8. ASSUME NEW s \in sensors', s \notin selected'
      PROVE  \E b \in 1 .. B : Above(s, r2, b) \/ Above(r2, s, b)
  <2>1. CASE s \in selected
    <3>1. Agree(s, romId, B) /\ s[B] \in {0, 1} /\ s[B] # v
      BY <2>1, <1>8, <1>0, <1>3, <1>4
    <3>2. Above(s, r2, B) \/ Above(r2, s, B)
      BY <3>1, <1>5
    <3> QED BY <3>2, <1>6
  <2>2. CASE s \notin selected
    <3>1. PICK b \in 1 .. B - 1 : Above(s, romId, b) \/ Above(romId, s, b)
      BY <2>2, <1>8, <1>3, <1>4
    <3> QED BY <3>1, <1>5, <1>6
  <2> QED BY <2>1, <2>2
<1>9. v = 1 /\ (\E s \in selected : s[B] = 0) => nextDiff' = bitsLeft /\ Pos(nextDiff') = B
  BY <1>0, <1>3 DEF Pos
<1>10. ASSUME NEW s \in sensors', NEW b \in 1 .. B, Above(r2, s, b)
       PROVE  nextDiff' \in 1 .. RomBits /\ b <= Pos(nextDiff')
  <2>1. CASE v = 1 /\ \E t \in selected : t[B] = 0
    <3>1. nextDiff' \in 1 .. RomBits /\ Pos(nextDiff') = B
      BY <2>1, <1>9, <1>0
    <3> QED BY <3>1, <1>0
  <2>2. CASE ~(v = 1 /\ \E t \in selected : t[B] = 0)
    <3>1. b # B
      BY <2>2, <1>10, <1>3, <1>4, <1>5
    <3>2. b \in 1 .. B - 1 /\ Above(romId, s, b)
      BY <3>1, <1>10, <1>5, <1>6
    <3> QED BY <3>2, <2>2, <1>3, <1>4
  <2> QED BY <2>1, <2>2
<1>11. ASSUME nextDiff' # 0
       PROVE  /\ Pos(nextDiff') \in 1 .. B
              /\ \E w \in Search!Codes : Above(r2, w, Pos(nextDiff')) /\ (faults' = 0 => w \in sensors')
  <2>1. CASE v = 1 /\ \E t \in selected : t[B] = 0
    <3>1. PICK w \in selected : w[B] = 0
      BY <2>1
    <3>2. w \in sensors /\ w \in Search!Codes /\ Above(r2, w, B)
      BY <3>1, <2>1, <1>0, <1>4, <1>5
    <3> QED BY <3>2, <2>1, <1>3, <1>6, <1>9
  <2>2. CASE ~(v = 1 /\ \E t \in selected : t[B] = 0)
    <3>1. nextDiff' = nextDiff /\ Pos(nextDiff') = Pos(nextDiff)
      BY <2>2, <1>3
    <3> QED BY <3>1, <1>3, <1>4, <1>5, <1>6, <1>11
  <2> QED BY <2>1, <2>2
<1> QED BY <1>1, <1>7, <1>8, <1>10, <1>11 DEF InPass, r2, Pos

\* Above the turn the pass follows the code of the pass before.
LEMMA AboveTheTurn ==
  ASSUME SearchIInv, searchPc = "bit", NEW v \in {0, 1}, Walk(v), diff < bitsLeft
  PROVE  /\ UNCHANGED <<romId, diff>> /\ searchPc' = "bit"
         /\ Boundary' /\ Seen(romId)' /\ FoundFrom'
<1> DEFINE B == Search!Bit
<1>0. /\ B \in 1 .. RomBits /\ bitsLeft \in 1 .. RomBits /\ RomBits \in 1 .. 253
      /\ B = Pos(bitsLeft) /\ romId \in Search!Codes /\ romId[B] \in {0, 1}
  BY InTheMiddle
<1>1. diff \in 1 .. RomBits /\ Boundary /\ Seen(romId) /\ FoundFrom /\ InPass
  BY <1>0 DEF SearchIInv
<1>2. bitsLeft # 1 /\ diff' = diff /\ searchPc' = "bit" /\ UNCHANGED <<sensors, found, faults>>
  BY <1>0, <1>1 DEF Walk
<1>3. v = romId[B]
  <2>1. PICK w \in Search!Codes :
          Above(romId, w, Pos(diff)) /\ (romId \in sensors \/ w \in sensors)
    BY <1>1 DEF Boundary, Turning
  <2>2. Pos(diff) \in 1 .. RomBits /\ B \in 1 .. Pos(diff) /\ B # Pos(diff)
    BY <1>0, <1>1 DEF Pos
  <2>3. Agree(w, romId, Pos(diff))
    BY <2>1 DEF Above, Agree
  <2>4. Agree(w, romId, B) /\ w[B] = romId[B]
    <3> HIDE DEF B
    <3> QED BY <2>2, <2>3, AgreeEarlier
  <2>5. Agree(romId, romId, B)
    BY DEF Agree
  <2>6. PICK t \in selected : t[B] = romId[B]
    BY <2>1, <2>4, <2>5, <1>1 DEF InPass
  <2>7. ~(diff > bitsLeft) /\ diff # bitsLeft
    BY <1>0, <1>1
  <2>8. Search!Turn <=> romId[B] = 1
    BY <2>7 DEF Search!Turn
  <2>9. CASE v = 1
    BY <2>6, <2>8, <2>9, <1>0 DEF Walk
  <2>10. CASE v = 0
    BY <2>6, <2>8, <2>10, <1>0 DEF Walk
  <2> QED BY <2>9, <2>10
<1>4. romId' = romId
  <2>1. romId' = [romId EXCEPT ![B] = romId[B]]
    BY <1>3 DEF Walk
  <2> HIDE DEF B
  <2> QED BY <2>1, <1>0 DEF Search!Codes
<1>5. Boundary'
  BY <1>1, <1>2, <1>4 DEF Boundary, Behind, Ahead, Compared, Turning, Seen
<1>6. Seen(romId)' /\ FoundFrom'
  BY <1>1, <1>2, <1>4 DEF Seen, FoundFrom
<1> QED BY <1>2, <1>4, <1>5, <1>6

\* At the turn it leaves the code of the pass before, for those below: all that are above
\* have been seen.
LEMMA AtTheTurn ==
  ASSUME SearchIInv, searchPc = "bit", NEW v \in {0, 1}, Walk(v), diff = bitsLeft
  PROVE  SeenBefore' /\ FoundBefore'
<1> DEFINE B == Search!Bit
           r2 == romId'
<1>0. /\ B \in 1 .. RomBits /\ bitsLeft \in 1 .. RomBits /\ RomBits \in 1 .. 253
      /\ B = Pos(bitsLeft) /\ romId \in Search!Codes /\ romId[B] \in {0, 1}
      /\ sensors \subseteq Search!Codes
  BY InTheMiddle
<1>1. diff \in 1 .. RomBits /\ Boundary /\ Seen(romId) /\ FoundFrom /\ InPass
  BY <1>0 DEF SearchIInv
<1>2. /\ UNCHANGED <<sensors, found, faults>> /\ Before' = 1 .. B /\ r2 \in Search!Codes
      /\ r2[B] = v
  BY WalkTyped DEF Walk
<1>3. PICK w \in Search!Codes :
        /\ Above(romId, w, B)
        /\ faults = 0 => romId \in sensors /\ w \in sensors
  BY <1>0, <1>1 DEF Boundary, Turning
<1>4. romId[B] = 1 /\ w[B] = 0 /\ Agree(w, romId, B) /\ Agree(romId, romId, B)
  BY <1>3 DEF Above, Agree
<1>5. faults = 0 => v = 0
  <2>1. ~Search!Turn
    BY <1>0 DEF Search!Turn
  <2>2. SUFFICES ASSUME faults = 0, v = 1 PROVE FALSE
    OBVIOUS
  <2>3. w \in selected /\ romId \in selected
    BY <2>2, <1>1, <1>3, <1>4 DEF InPass
  <2> QED BY <2>1, <2>2, <2>3, <1>4 DEF Walk
<1>6. \A s : /\ \A c \in 1 .. B - 1 : Above(s, r2, c) <=> Above(s, romId, c)
             /\ Above(s, r2, B) <=> Agree(s, romId, B) /\ s[B] = 1 /\ v = 0
  BY BitTaken
<1> HIDE DEF B, r2
<1>7. /\ \A c \in 1 .. B : c \in 1 .. B - 1 \/ c = B
      /\ \A c \in 1 .. B : c \in 1 .. RomBits
      /\ B \in 1 .. B
  BY <1>0
<1>8. ASSUME NEW s \in sensors, NEW b \in 1 .. B, Above(s, r2, b)
      PROVE  Seen(s)
  <2>1. CASE b \in 1 .. B - 1
    <3>1. Above(s, romId, b)
      BY <2>1, <1>6, <1>8
    <3> QED BY <3>1, <1>1, <1>7 DEF Boundary, Behind
  <2>2. CASE b = B
    <3>1. Agree(s, romId, B) /\ s[B] = 1
      BY <2>2, <1>6, <1>8
    <3>2. CASE s = romId
      BY <3>2, <1>1
    <3>3. ASSUME NEW c \in 1 .. RomBits, Above(s, romId, c) PROVE Seen(s)
      BY <3>3, <1>1 DEF Boundary, Behind
    <3>4. ASSUME NEW c \in 1 .. RomBits, Above(romId, s, c) PROVE FALSE
      <4>1. c <= Pos(diff) /\ Pos(diff) = B
        BY <3>4, <1>0, <1>1 DEF Boundary, Ahead
      <4>2. c \in 1 .. B
        BY <4>1, <1>0
      <4>3. romId[c] = 1 /\ s[c] = 0
        BY <3>4 DEF Above
      <4>4. c = B
        BY <4>2, <4>3, <3>1, <1>0, AgreeEarlier
      <4> QED BY <4>3, <4>4, <3>1
    <3> QED BY <3>2, <3>3, <3>4, <1>1 DEF Boundary, Compared
  <2> QED BY <2>1, <2>2, <1>7
<1>9. ASSUME faults = 0, NEW k \in DOMAIN found
      PROVE  \E b \in 1 .. B : Above(found[k], r2, b)
  <2>0. v = 0
    BY <1>5, <1>9
  <2>1. CASE found[k] = romId
    <3>1. Above(found[k], r2, B)
      BY <2>0, <2>1, <1>4, <1>6
    <3> QED BY <3>1, <1>7
  <2>2. ASSUME NEW c \in 1 .. RomBits, Above(found[k], romId, c)
        PROVE  \E b \in 1 .. B : Above(found[k], r2, b)
    <3>1. CASE c \in 1 .. B - 1
      BY <3>1, <2>2, <1>0, <1>6
    <3>2. CASE c \notin 1 .. B - 1
      <4>1. B \in 1 .. c
        BY <3>2, <1>0
      <4>2. Agree(found[k], romId, c) /\ romId[c] = 0
        BY <2>2 DEF Above
      <4>3. c # B
        BY <4>2, <1>4
      <4>4. Agree(found[k], romId, B) /\ found[k][B] = 1
        BY <4>1, <4>2, <4>3, <1>4, AgreeEarlier
      <4>5. Above(found[k], r2, B)
        BY <4>4, <2>0, <1>6
      <4> QED BY <4>5, <1>7
    <3> QED BY <3>1, <3>2
  <2> QED BY <2>1, <2>2, <1>1, <1>9 DEF FoundFrom
<1> QED BY <1>2, <1>8, <1>9 DEF SeenBefore, FoundBefore, Seen, r2

\* Below the turn, or in the first pass, it goes where the bit is 1 when sensors part:
\* nobody is left above.
LEMMA BelowTheTurn ==
  ASSUME SearchIInv, searchPc = "bit", NEW v \in {0, 1}, Walk(v), diff > bitsLeft
  PROVE  SeenBefore' /\ FoundBefore'
<1> DEFINE B == Search!Bit
           r2 == romId'
<1>0. /\ B \in 1 .. RomBits /\ sensors \subseteq Search!Codes /\ RomBits \in 1 .. 253
      /\ Before = 1 .. B - 1
  BY InTheMiddle DEF Before
<1>1. SeenBefore /\ FoundBefore /\ InPass
  BY DEF SearchIInv
<1>2. UNCHANGED <<sensors, found, faults>> /\ Before' = 1 .. B
  BY WalkTyped DEF Walk
<1>3. \A s : /\ \A c \in 1 .. B - 1 : Above(s, r2, c) <=> Above(s, romId, c)
             /\ Above(s, r2, B) <=> Agree(s, romId, B) /\ s[B] = 1 /\ v = 0
  BY BitTaken
<1>4. ASSUME NEW s \in sensors PROVE ~Above(s, r2, B)
  <2>1. SUFFICES ASSUME Agree(s, romId, B), s[B] = 1, v = 0 PROVE FALSE
    BY <1>3
  <2>2. s \in selected
    BY <2>1, <1>1 DEF InPass
  <2>3. Search!Turn
    BY DEF Search!Turn
  <2> QED BY <2>1, <2>2, <2>3 DEF Walk
<1> HIDE DEF B, r2
<1>5. /\ \A c \in 1 .. B : c \in 1 .. B - 1 \/ c = B
      /\ \A c \in 1 .. B - 1 : c \in 1 .. B
  BY <1>0
<1>6. ASSUME NEW s \in sensors, NEW b \in 1 .. B, Above(s, r2, b)
      PROVE  Seen(s)
  <2>1. b \in 1 .. B - 1 /\ Above(s, romId, b)
    BY <1>3, <1>4, <1>5, <1>6
  <2> QED BY <2>1, <1>0, <1>1 DEF SeenBefore
<1>7. ASSUME faults = 0, NEW k \in DOMAIN found
      PROVE  \E b \in 1 .. B : Above(found[k], r2, b)
  <2>1. PICK b \in 1 .. B - 1 : Above(found[k], romId, b)
    BY <1>0, <1>1, <1>7 DEF FoundBefore
  <2> QED BY <2>1, <1>3, <1>5
<1> QED BY <1>2, <1>6, <1>7 DEF SeenBefore, FoundBefore, Seen, r2

\* With its last bit the pass has a code of which all sensors above have been seen, and
\* the place to turn the next time.
LEMMA PassOver ==
  ASSUME SearchIInv, searchPc = "bit", NEW v \in {0, 1}, Walk(v), bitsLeft = 1,
         InPass', SeenBefore', FoundBefore'
  PROVE  Boundary' /\ FoundAbove'
<1>0. RomBits \in 1 .. 253 /\ Search!Bit \in 1 .. RomBits
  BY InTheMiddle
<1>1. /\ Search!Bit' = RomBits + 1 /\ Before' = 1 .. RomBits
      /\ romId' \in Search!Codes /\ SearchTypes'
  <2>1. Search!Bit = RomBits
    BY <1>0 DEF Search!Bit
  <2> QED BY <2>1, WalkTyped
<1>2. diff' = nextDiff' /\ sensors' = sensors /\ sensors' \subseteq Search!Codes
  BY <1>1 DEF Walk, SearchTypes
<1>3. ASSUME NEW s \in selected' PROVE s = romId' /\ s \in sensors'
  <2>1. s \in sensors' /\ Agree(s, romId', RomBits + 1)
    BY <1>1 DEF InPass
  <2> QED BY <2>1, <1>1, <1>2, AgreeInAll
<1>4. romId' \in sensors'
  <2>1. PICK s \in selected' : TRUE
    BY DEF Walk
  <2> QED BY <2>1, <1>3
<1>5. Behind'
  BY <1>1 DEF SeenBefore, Behind
<1>6. Ahead'
  BY <1>1, <1>2 DEF InPass, Ahead
<1>7. Compared'
  BY <1>1, <1>3 DEF InPass, Compared
<1>8. Turning'
  BY <1>0, <1>1, <1>2, <1>4 DEF InPass, Turning
<1>9. FoundAbove'
  BY <1>1 DEF FoundBefore, FoundAbove
<1> QED BY <1>5, <1>6, <1>7, <1>8, <1>9 DEF Boundary

\* A step down, in the part that repeats the last pass, at its turn, or below it.
LEMMA WalkKept ==
  ASSUME SearchIInv, Search!SameBit \/ Search!Branch
  PROVE  SearchIInv'
<1>0. searchPc = "bit" /\ \E v \in {0, 1} : Walk(v)
  BY WalkSteps
<1>1. PICK v \in {0, 1} : Walk(v)
  BY <1>0
<1>2. /\ bitsLeft \in 1 .. RomBits /\ RomBits \in 1 .. 253 /\ diff \in 1 .. RomBits \cup {255}
  BY <1>0, InTheMiddle DEF SearchIInv
<1>3. SearchTypes' /\ Distinct' /\ InPass'
  BY <1>0, <1>1, WalkTyped, InPassKept
<1>4. CASE diff < bitsLeft
  <2>1. /\ UNCHANGED <<romId, diff>> /\ searchPc' = "bit"
        /\ Boundary' /\ Seen(romId)' /\ FoundFrom'
    BY <1>0, <1>1, <1>4, AboveTheTurn
  <2>2. bitsLeft' = bitsLeft - 1
    BY <1>1 DEF Walk
  <2>3. bitsLeft' \in 1 .. RomBits /\ diff' \in 1 .. RomBits \cup {255} /\ ~(diff' > bitsLeft')
    BY <2>1, <2>2, <1>2, <1>4
  <2> QED BY <2>1, <2>3, <1>3 DEF SearchIInv
<1>5. CASE ~(diff < bitsLeft)
  <2>1. diff = bitsLeft \/ diff > bitsLeft
    BY <1>2, <1>5
  <2>2. SeenBefore' /\ FoundBefore'
    BY <2>1, <1>0, <1>1, AtTheTurn, BelowTheTurn
  <2>3. CASE bitsLeft = 1
    <3>1. searchPc' = "passed"
      BY <2>3, <1>1 DEF Walk
    <3>2. Boundary' /\ FoundAbove'
      BY <2>2, <2>3, <1>0, <1>1, <1>3, PassOver
    <3> QED BY <3>1, <3>2, <1>3 DEF SearchIInv
  <2>4. CASE bitsLeft # 1
    <3>1. searchPc' = "bit" /\ diff' = diff /\ bitsLeft' = bitsLeft - 1
      BY <2>4, <1>1 DEF Walk
    <3>2. bitsLeft' \in 1 .. RomBits /\ diff' \in 1 .. RomBits \cup {255} /\ ~(diff' <= bitsLeft')
      BY <3>1, <2>1, <2>4, <1>2
    <3> QED BY <3>1, <3>2, <2>2, <1>3 DEF SearchIInv
  <2> QED BY <2>3, <2>4
<1> QED BY <1>4, <1>5

-----------------------------------------------------------------------------
(* Between two passes *)

\* The start of a pass: everybody takes part, and nobody has turned off.
LEMMA PresenceKept ==
  ASSUME SearchIInv, Search!Presence
  PROVE  SearchIInv'
<1>0. RomBits \in 1 .. 253
  BY SearchAssumption DEF Search!OneWireAssumption
<1>1. /\ searchPc = "reset" /\ selected' = sensors /\ bitsLeft' = RomBits /\ nextDiff' = 0
      /\ searchPc' = "bit" /\ UNCHANGED <<sensors, diff, romId, found, faults>>
  BY DEF Search!Presence, Search!OW_LAST_DEVICE
<1>2. SearchTypes' /\ Distinct'
  BY <1>0, <1>1 DEF SearchIInv, SearchTypes, Distinct
<1>3. Search!Bit' = 1 /\ Before' = {}
  BY <1>0, <1>1 DEF Search!Bit, Before
<1>4. \A s, r : Agree(s, r, 1)
  BY DEF Agree
<1>5. InPass'
  BY <1>1, <1>3, <1>4 DEF InPass
<1>6. CASE diff = 255 /\ found = <<>>
  <2>1. SeenBefore' /\ FoundBefore'
    BY <1>1, <1>3, <1>6 DEF SeenBefore, FoundBefore
  <2>2. bitsLeft' \in 1 .. RomBits /\ diff' \in 1 .. RomBits \cup {255} /\ ~(diff' <= bitsLeft')
    BY <1>0, <1>1, <1>6
  <2> QED BY <2>1, <2>2, <1>1, <1>2, <1>5 DEF SearchIInv
<1>7. CASE diff \in 1 .. RomBits /\ Boundary /\ Seen(romId) /\ FoundFrom
  <2>1. Boundary' /\ Seen(romId)' /\ FoundFrom'
    BY <1>1, <1>7 DEF Boundary, Behind, Ahead, Compared, Turning, Seen, FoundFrom
  <2>2. bitsLeft' \in 1 .. RomBits /\ diff' \in 1 .. RomBits \cup {255} /\ ~(diff' > bitsLeft')
    BY <1>0, <1>1, <1>7
  <2> QED BY <2>1, <2>2, <1>1, <1>2, <1>5 DEF SearchIInv
<1> QED BY <1>1, <1>6, <1>7 DEF SearchIInv

\* A pass that ends with an error.
LEMMA FailedKept ==
  ASSUME SearchIInv, Search!NoPresence \/ Search!NobodyLeft
  PROVE  SearchIInv'
<1>0. RomBits \in 1 .. 253
  BY SearchAssumption DEF Search!OneWireAssumption
<1>1. /\ searchPc' = "passed" /\ diff' \in {254, 255}
      /\ UNCHANGED <<sensors, selected, romId, bitsLeft, nextDiff, found, faults>>
  BY DEF Search!NoPresence, Search!NobodyLeft, Search!OW_DATA_ERR, Search!OW_PRESENCE_ERR
<1>2. SearchTypes' /\ Distinct'
  BY <1>1 DEF SearchIInv, SearchTypes, Distinct
<1>3. diff' \notin 0 .. RomBits
  BY <1>0, <1>1
<1> QED BY <1>1, <1>2, <1>3 DEF SearchIInv

\* A sensor of another family is passed over without being lost.
LEMMA SkipKept ==
  ASSUME SearchIInv, Search!SkipOther
  PROVE  SearchIInv'
<1>1. /\ searchPc = "passed" /\ searchPc' = "reset" /\ diff \notin {0, 254, 255}
      /\ romId \notin Thermometers
      /\ UNCHANGED <<sensors, selected, diff, romId, bitsLeft, nextDiff, found, faults>>
  BY DEF Search!SkipOther, Search!Ends, Search!OW_LAST_DEVICE, Search!OW_DATA_ERR,
         Search!OW_PRESENCE_ERR
<1>2. diff \in 1 .. RomBits /\ diff \in 0 .. RomBits
  BY <1>1 DEF SearchIInv, SearchTypes
<1>3. Boundary /\ FoundAbove
  BY <1>1, <1>2 DEF SearchIInv
<1>4. Boundary' /\ Seen(romId)' /\ FoundFrom'
  BY <1>1, <1>3 DEF Boundary, Behind, Ahead, Compared, Turning, Seen, FoundAbove, FoundFrom
<1>5. SearchTypes' /\ Distinct'
  BY <1>1 DEF SearchIInv, SearchTypes, Distinct
<1> QED BY <1>1, <1>2, <1>4, <1>5 DEF SearchIInv

\* The program takes the code: it is seen, and it is a new one.
LEMMA TakenCode ==
  ASSUME SearchTypes, found' = Append(found, romId)
  PROVE  /\ found' \in Seq(Search!Codes) /\ DOMAIN found' = DOMAIN found \cup {Len(found) + 1}
         /\ found'[Len(found) + 1] = romId /\ Len(found) + 1 \notin DOMAIN found
         /\ \A k \in DOMAIN found : found'[k] = found[k]
<1>1. found \in Seq(Search!Codes) /\ romId \in Search!Codes
  BY DEF SearchTypes
<1> HIDE DEF SearchTypes
<1>2. /\ found' \in Seq(Search!Codes) /\ Len(found') = Len(found) + 1
      /\ \A k \in 1 .. Len(found) : found'[k] = found[k]
      /\ found'[Len(found) + 1] = romId
  BY <1>1, AppendProperties
<1>3. DOMAIN found = 1 .. Len(found) /\ DOMAIN found' = 1 .. Len(found') /\ Len(found) \in Nat
  BY <1>1, <1>2, LenProperties
<1> QED BY <1>2, <1>3

\* The code that was found is a new one, and everybody above it has been found.
LEMMA FindKept ==
  ASSUME SearchIInv, Search!FindSensor
  PROVE  SearchIInv'
<1> USE DEF Search!Ends, Search!OW_LAST_DEVICE, Search!OW_DATA_ERR, Search!OW_PRESENCE_ERR
<1>0. SearchTypes /\ Distinct /\ RomBits \in 1 .. 253
  BY SearchAssumption DEF SearchIInv, Search!OneWireAssumption
<1>1. /\ searchPc = "passed"
      /\ UNCHANGED <<sensors, selected, diff, romId, bitsLeft, nextDiff, faults>>
  BY DEF Search!FindSensor
<1>2. CASE diff \in {254, 255}
  <2>1. found' = found /\ searchPc' = "over"
    BY <1>2 DEF Search!FindSensor
  <2>2. SearchTypes' /\ Distinct'
    BY <2>1, <1>0, <1>1 DEF SearchTypes, Distinct
  <2> QED BY <2>1, <2>2, <1>1, <1>2 DEF SearchIInv
<1>3. CASE diff \notin {254, 255}
  <2>1. diff \in 0 .. RomBits
    BY <1>0, <1>3 DEF SearchTypes
  <2>2. Boundary /\ FoundAbove
    BY <2>1, <1>1 DEF SearchIInv
  <2>3. found' = Append(found, romId) /\ searchPc' = IF diff = 0 THEN "over" ELSE "reset"
    BY <1>3 DEF Search!FindSensor
  <2>4. /\ found' \in Seq(Search!Codes) /\ DOMAIN found' = DOMAIN found \cup {Len(found) + 1}
        /\ found'[Len(found) + 1] = romId /\ Len(found) + 1 \notin DOMAIN found
        /\ \A k \in DOMAIN found : found'[k] = found[k]
    BY <2>3, <1>0, TakenCode
  <2>5. SearchTypes'
    BY <2>3, <2>4, <1>0, <1>1 DEF SearchTypes
  <2>6. (\A s : Seen(s) => Seen(s)') /\ Seen(romId)'
    BY <2>4, <1>1 DEF Seen
  <2>7. FoundFrom'
    BY <2>2, <2>4, <1>1 DEF FoundAbove, FoundFrom
  <2>8. Distinct'
    <3>1. \A b : ~Above(romId, romId, b)
      BY DEF Above
    <3>2. SUFFICES ASSUME faults = 0, NEW k \in DOMAIN found', NEW l \in DOMAIN found',
                          found'[k] = found'[l]
                   PROVE  k = l
      BY <1>1 DEF Distinct
    <3>3. \A j \in DOMAIN found : found[j] # romId
      BY <3>1, <3>2, <2>2 DEF FoundAbove
    <3> QED BY <3>2, <3>3, <2>4, <1>0 DEF Distinct
  <2>9. Boundary'
    <3>1. Behind'
      BY <2>2, <2>6, <1>1 DEF Boundary, Behind
    <3> QED BY <3>1, <2>2, <1>1 DEF Boundary, Ahead, Compared, Turning
  <2>10. ASSUME diff = 0, NEW s \in sensors PROVE Seen(s)'
    <3>1. CASE s = romId
      BY <3>1, <2>6, <1>1 DEF Seen
    <3>2. ASSUME NEW b \in 1 .. RomBits, Above(s, romId, b) PROVE Seen(s)'
      BY <3>2, <2>2, <2>6 DEF Boundary, Behind
    <3>3. ASSUME NEW b \in 1 .. RomBits, Above(romId, s, b) PROVE FALSE
      <4>1. diff \in 1 .. RomBits
        BY <3>3, <2>2 DEF Boundary, Ahead
      <4> QED BY <4>1, <2>10, <1>0
    <3> QED BY <3>1, <3>2, <3>3, <2>2 DEF Boundary, Compared
  <2>11. CASE diff = 0
    BY <2>11, <2>3, <2>5, <2>8, <2>10, <1>1 DEF SearchIInv, Seen
  <2>12. CASE diff # 0
    <3>1. diff' \in 1 .. RomBits /\ searchPc' = "reset"
      BY <2>1, <2>3, <2>12, <1>0, <1>1
    <3> QED BY <3>1, <2>5, <2>6, <2>7, <2>8, <2>9 DEF SearchIInv
  <2> QED BY <2>11, <2>12
<1> QED BY <1>2, <1>3

\* The one sensor that is unplugged was not the last of those that parted at the turn.
LEMMA UnplugKept ==
  ASSUME SearchIInv, Search!Unplug, MaxFaults <= 1
  PROVE  SearchIInv'
<1>0. SearchTypes
  BY DEF SearchIInv
<1>1. faults = 0 /\ faults' = 1 /\ searchPc # "over"
  <2>1. MaxFaults \in Nat /\ faults \in 0 .. 1
    BY <1>0, SearchAssumption DEF SearchTypes, Search!OneWireAssumption
  <2> QED BY <2>1 DEF Search!Unplug, Search!Fault
<1>2. PICK x \in sensors : sensors' = sensors \ {x} /\ selected' = selected \ {x}
  BY DEF Search!Unplug
<1>3. UNCHANGED <<searchPc, diff, romId, bitsLeft, nextDiff, found>>
  BY DEF Search!Unplug
<1>4. SearchTypes' /\ Distinct' /\ FoundAbove' /\ FoundFrom' /\ FoundBefore'
  BY <1>0, <1>1, <1>2, <1>3 DEF SearchTypes, Distinct, FoundAbove, FoundFrom, FoundBefore
<1>5. \A s : Seen(s) => Seen(s)'
  BY <1>3 DEF Seen
<1>6. ASSUME Boundary PROVE Boundary'
  <2>1. Behind' /\ Ahead' /\ Compared'
    BY <1>2, <1>3, <1>5, <1>6 DEF Boundary, Behind, Ahead, Compared
  <2>2. Turning'
    <3>1. SUFFICES ASSUME diff \in 1 .. RomBits
                   PROVE  \E w \in Search!Codes :
                            Above(romId, w, Pos(diff)) /\ (romId \in sensors' \/ w \in sensors')
      BY <1>1, <1>3 DEF Turning
    <3>2. PICK w \in Search!Codes : Above(romId, w, Pos(diff)) /\ romId \in sensors /\ w \in sensors
      BY <3>1, <1>1, <1>6 DEF Boundary, Turning
    <3>3. romId # w
      BY <3>2 DEF Above
    <3> QED BY <3>2, <3>3, <1>2
  <2> QED BY <2>1, <2>2 DEF Boundary
<1>7. ASSUME InPass PROVE InPass'
  <2>1. Search!Bit' = Search!Bit /\ Before' = Before
    BY <1>3 DEF Search!Bit, Before
  <2>2. nextDiff # 0 => /\ Pos(nextDiff) \in Before
                        /\ \E w \in Search!Codes : Above(romId, w, Pos(nextDiff))
    BY <1>7 DEF InPass
  <2>3. selected' = {s \in sensors' : Agree(s, romId, Search!Bit)}
    BY <1>2, <1>7 DEF InPass
  <2> QED BY <2>1, <2>2, <2>3, <1>1, <1>2, <1>3, <1>7 DEF InPass
<1>8. ASSUME SeenBefore PROVE SeenBefore'
  <2>1. Before' = Before
    BY <1>3 DEF Search!Bit, Before
  <2> QED BY <2>1, <1>2, <1>3, <1>5, <1>8 DEF SeenBefore
<1>9. Seen(romId) => Seen(romId)'
  BY <1>3, <1>5 DEF Seen
<1> QED BY <1>1, <1>3, <1>4, <1>6, <1>7, <1>8, <1>9 DEF SearchIInv

\* Every sensor that is still there when the last device is reported was given to the
\* program, and none twice: ow_rom_search and DS18X20_find_sensor, for codes of up to 253
\* bits and any set of sensors, one of which may be unplugged at any time.
THEOREM EverySensorSearched ==
  ASSUME MaxFaults <= 1
  PROVE  MCSpec => []EverySensorFound
<1>1. MCInit => SearchIInv
  <2>1. SUFFICES ASSUME Search!SearchInit PROVE SearchIInv
    BY DEF MCInit, PeripheralsInit
  <2>2. RomBits \in 1 .. 253
    BY SearchAssumption DEF Search!OneWireAssumption
  <2>3. romId \in Search!Codes
    BY <2>1 DEF Search!SearchInit, Search!Codes
  <2>4. SearchTypes /\ Distinct
    BY <2>1, <2>2, <2>3 DEF Search!SearchInit, Search!OW_SEARCH_FIRST, SearchTypes, Distinct
  <2> QED BY <2>1, <2>4 DEF Search!SearchInit, Search!OW_SEARCH_FIRST, SearchIInv
<1>2. SearchIInv /\ [MCNext]_allVars => SearchIInv'
  <2>1. [MCNext]_allVars => Search!SearchNext \/ UNCHANGED ofSearch
    BY DEF MCNext, allVars, ExceptSensor, ExceptSerial, ExceptSpi, ExceptAdc
  <2>2. ASSUME SearchIInv, UNCHANGED ofSearch PROVE SearchIInv'
    BY <2>2 DEF ofSearch, SearchIInv, SearchTypes, Distinct, Boundary, Behind, Ahead, Compared,
       Turning, Seen, FoundAbove, FoundFrom, InPass, Before, Search!Bit, SeenBefore, FoundBefore
  <2>3. ASSUME SearchIInv, Search!SearchNext PROVE SearchIInv'
    BY <2>3, PresenceKept, WalkKept, FailedKept, SkipKept, FindKept, UnplugKept
       DEF Search!SearchNext
  <2> QED BY <2>1, <2>2, <2>3
<1>3. SearchIInv => EverySensorFound
  <2>1. SUFFICES ASSUME SearchIInv PROVE Search!EverySensorFound
    BY DEF EverySensorFound
  <2> QED BY <2>1 DEF SearchIInv, Distinct, Seen, Search!EverySensorFound, Search!OW_LAST_DEVICE
<1> QED BY <1>1, <1>2, <1>3, PTL DEF MCSpec

-----------------------------------------------------------------------------
(* Temperatures *)

\* Every reading between -256 and 256 degrees: the raw numbers of a DS18B20 or DS1822 count
\* sixteenths, those of a DS18S20 halves.
Measurable ==
  [family : {40, 34}, raw : 0 .. 4095 \cup 61441 .. 65535, resolution : 9 .. 12, remain : Nat]
    \cup [family : {16}, raw : 0 .. 511 \cup 65026 .. 65535, resolution : 9 .. 12, remain : 0 .. 16]

\* The lowest bit of a reading of a DS18S20, which counts half degrees.
LEMMA HalfDegrees ==
  ASSUME NEW r \in Int
  PROVE  /\ r % 2 \in 0 .. 1
         /\ r = 65535 => r % 2 = 1
         /\ r = 65026 => r % 2 = 0
         /\ r = 511 => r % 2 = 1
         /\ r = 0 => r % 2 = 0
BY SMT

\* The measure, sign and size apart, is the number of sixteenths the sensor counts.
LEMMA MeasureExact ==
  ASSUME NEW meas \in Measurable
  PROVE  /\ Degrees!Sixteenths(meas) \in -4095 .. 4095
         /\ IF Degrees!Negative(meas)
            THEN Degrees!Sixteenths(meas) = -Degrees!Magnitude(meas)
            ELSE Degrees!Sixteenths(meas) = Degrees!Magnitude(meas)
         /\ Degrees!Magnitude(meas) \in 0 .. 4095
<1> DEFINE S == Degrees!Sixteenths(meas)
           M == Degrees!Measure(meas)
           r == meas.raw
           k == meas.remain
\* A measure of 16 bits stands for the number of sixteenths.
<1>1. S \in -4095 .. 4095 /\ M = IF S < 0 THEN S + 65536 ELSE S
  <2>1. CASE meas.family = 16
    <3>1. r \in 0 .. 511 \cup 65026 .. 65535 /\ k \in 0 .. 16
      BY <2>1, SMT DEF Measurable
    <3> DEFINE h == r - (r % 2)
    <3>2. /\ M = (h * 8 + (16 - k) - 4) % 65536
          /\ S = IF r >= 32768 THEN (h * 8 + 12 - k) - 8 * 65536 ELSE h * 8 + 12 - k
      <4>1. M = Degrees!Unsigned16(h * 8 + (16 - k) - 4)
        BY <2>1, Zenon DEF Degrees!Measure, Degrees!DS18S20_FAMILY_CODE
      <4>2. M = (h * 8 + (16 - k) - 4) % 65536
        BY <4>1, SMT DEF Degrees!Unsigned16
      <4>3. S = IF r >= 32768 THEN (h * 8 + 12 - k) - 8 * 65536 ELSE h * 8 + 12 - k
        BY <2>1, <3>1, SMT DEF Degrees!Sixteenths, Degrees!DS18S20_FAMILY_CODE
      <4> QED BY <4>2, <4>3
    <3>4. h \in Int /\ (r <= 511 => 0 <= h /\ h <= 510) /\ (r >= 65026 => 65026 <= h /\ h <= 65534)
      <4> DEFINE p == r % 2
      <4>1. /\ p \in 0 .. 1 /\ (r = 65535 => p = 1) /\ (r = 65026 => p = 0)
            /\ (r = 511 => p = 1) /\ (r = 0 => p = 0)
        <5>1. r \in Int
          BY <3>1, SMT
        <5> HIDE DEF r
        <5> QED BY <5>1, HalfDegrees
      <4>2. h = r - p
        OBVIOUS
      <4> HIDE DEF p, h, r
      <4> QED BY <3>1, <4>1, <4>2, SMT
    <3> HIDE DEF h, r, k, M, S
    <3> DEFINE n == h * 8 + 12 - k
    <3>5. n \in Int /\ M = n % 65536
      BY <3>1, <3>2, <3>4, SMT
    <3>6. S = IF r >= 32768 THEN n - 8 * 65536 ELSE n
      BY <3>1, <3>2, <3>4, SMT
    <3>7. r <= 511 => -4 <= n /\ n <= 4095
      BY <3>1, <3>4, SMT
    <3>8. r >= 65026 => 8 * 65536 - 4095 <= n /\ n < 8 * 65536
      BY <3>1, <3>4, SMT
    <3>9. r <= 511 \/ r >= 65026
      BY <3>1, SMT
    <3> HIDE DEF n
    <3>10. CASE r <= 511 /\ n >= 0
      <4>1. n % 65536 = n
        BY <3>5, <3>7, <3>10, SMT
      <4> QED BY <4>1, <3>1, <3>5, <3>6, <3>7, <3>10, SMT
    <3>11. CASE r <= 511 /\ n < 0
      <4>1. n % 65536 = n + 65536
        BY <3>5, <3>7, <3>11, SMT
      <4> QED BY <4>1, <3>1, <3>5, <3>6, <3>7, <3>11, SMT
    <3>12. CASE r >= 65026
      <4>1. n % 65536 = n - 7 * 65536
        BY <3>5, <3>8, <3>12, SMT
      <4> QED BY <4>1, <3>1, <3>5, <3>6, <3>8, <3>12, SMT
    <3> QED BY <3>5, <3>9, <3>10, <3>11, <3>12, SMT
  <2>2. CASE meas.family # 16
    <3>1. r \in 0 .. 4095 \cup 61441 .. 65535
      BY <2>2, SMT DEF Measurable
    <3>2. M = r /\ S = IF r >= 32768 THEN r - 65536 ELSE r
      BY <2>2, SMT DEF Degrees!Measure, Degrees!Sixteenths, Degrees!DS18S20_FAMILY_CODE
    <3> HIDE DEF r, M, S
    <3> QED BY <3>1, <3>2, SMT
  <2> QED BY <2>1, <2>2
<1> HIDE DEF M, S
<1> DEFINE N == Degrees!Negative(meas)
           G == Degrees!Magnitude(meas)
<1>2. N <=> M >= 32768
  BY SMT DEF Degrees!Negative, M
<1>3. G = IF M >= 32768 THEN 65536 - M ELSE M
  BY SMT DEF Degrees!Negative, Degrees!Magnitude, M
<1> HIDE DEF N, G
<1>4. CASE S < 0
  <2>1. N /\ S = -G /\ G \in 0 .. 4095
    BY <1>1, <1>2, <1>3, <1>4, SMT
  <2> QED BY <2>1, <1>1, SMT DEF S, N, G
<1>5. CASE ~(S < 0)
  <2>1. ~N /\ S = G /\ G \in 0 .. 4095
    BY <1>1, <1>2, <1>3, <1>5, SMT
  <2> QED BY <2>1, <1>1, SMT DEF S, N, G
<1> QED BY <1>4, <1>5, SMT

\* The bits a lower resolution leaves undefined are less than one of its steps.
LEMMA DefinedExact ==
  ASSUME NEW meas \in Measurable
  PROVE  /\ Degrees!Defined(meas) \in 0 .. 4095
         /\ Degrees!Defined(meas) <= Degrees!Magnitude(meas)
         /\ Degrees!Magnitude(meas) - Degrees!Defined(meas) < Degrees!Step(meas)
         /\ Degrees!Step(meas) \in 1 .. 8
<1> DEFINE m == Degrees!Magnitude(meas)
           s == 2 ^ (12 - meas.resolution)
<1>1. m \in 0 .. 4095
  BY MeasureExact
<1>2. CASE meas.family = 16
  <2>1. Degrees!Defined(meas) = m /\ Degrees!Step(meas) = 1
    BY <1>2 DEF Degrees!Defined, Degrees!Step, Degrees!DS18S20_FAMILY_CODE
  <2>2. m <= m /\ m - m < 1 /\ 1 \in 1 .. 8
    <3> HIDE DEF m
    <3> QED BY <1>1, SMT
  <2>3. m = Degrees!Magnitude(meas)
    OBVIOUS
  <2> HIDE DEF m
  <2> QED BY <1>1, <2>1, <2>2, <2>3, SMT
<1>3. CASE meas.family # 16
  <2>1. Degrees!Defined(meas) = m - (m % s) /\ Degrees!Step(meas) = s
    BY <1>3 DEF Degrees!Defined, Degrees!Step, Degrees!DS18S20_FAMILY_CODE
  <2>2. s \in {1, 2, 4, 8}
    <3>1. 2 ^ 0 = 1 /\ 2 ^ 1 = 2 /\ 2 ^ 2 = 4 /\ 2 ^ 3 = 8
      OBVIOUS
    <3>2. meas.resolution \in 9 .. 12
      BY DEF Measurable
    <3>3. 12 - meas.resolution \in {0, 1, 2, 3}
      BY <3>2
    <3> QED BY <3>1, <3>3
  <2> HIDE DEF s, m
  <2>3. m % s \in 0 .. s - 1 /\ m % s <= m
    <3>1. \A d \in {1, 2, 4, 8} : m % d \in 0 .. d - 1 /\ m % d <= m
      <4>1. m % 1 \in 0 .. 0 /\ m % 1 <= m
        BY <1>1
      <4>2. m % 2 \in 0 .. 1 /\ m % 2 <= m
        BY <1>1
      <4>3. m % 4 \in 0 .. 3 /\ m % 4 <= m
        BY <1>1
      <4>4. m % 8 \in 0 .. 7 /\ m % 8 <= m
        BY <1>1
      <4> QED BY <4>1, <4>2, <4>3, <4>4
    <3> QED BY <3>1, <2>2
  <2>4. m - (m % s) \in 0 .. 4095 /\ m - (m % s) <= m /\ m - (m - (m % s)) < s
    <3> DEFINE p == m % s
    <3>1. p \in 0 .. s - 1 /\ p <= m
      BY <2>3
    <3> HIDE DEF p
    <3>2. m - p \in 0 .. 4095 /\ m - p <= m /\ m - (m - p) < s
      BY <3>1, <2>2, <1>1, SMT
    <3> QED BY <3>2 DEF p
  <2>5. s \in 1 .. 8
    BY <2>2, SMT
  <2>6. m = Degrees!Magnitude(meas)
    BY DEF m
  <2> DEFINE D == Degrees!Defined(meas)
             P == Degrees!Step(meas)
             p == m % s
  <2>7. D = m - p /\ P = s /\ m - p \in 0 .. 4095 /\ m - p <= m /\ m - (m - p) < s
    BY <2>1, <2>4
  <2> HIDE DEF m, D, P, p
  <2>8. D \in 0 .. 4095 /\ D <= m /\ m - D < P /\ P \in 1 .. 8
    BY <2>5, <2>7
  <2> QED BY <2>6, <2>8 DEF D, P
<1> QED BY <1>2, <1>3, SMT

\* The sixteenths as degrees and rest, and what is a tenth of them, cut off or rounded.
LEMMA Tenths ==
  ASSUME NEW d \in 0 .. 4095
  PROVE  /\ d \div 16 \in 0 .. 255 /\ d % 16 \in 0 .. 15
         /\ (d \div 16) * 10000 + (d % 16) * 625 = 625 * d
         /\ (d \div 16) % 256 = d \div 16
         /\ \A c \in {0, 512} :
              /\ ((d % 16) * 640 + c) \div 1024 \in Int
              /\ 1000 * (((d % 16) * 640 + c) \div 1024) <= 625 * (d % 16) + c
              /\ 625 * (d % 16) + c < 1000 * (((d % 16) * 640 + c) \div 1024) + 1000 + c
<1> DEFINE q == d \div 16
           f == d % 16
<1>1. q \in 0 .. 255 /\ f \in 0 .. 15 /\ d = 16 * q + f
  BY SMT
<1> HIDE DEF q, f
<1>2. q * 10000 + f * 625 = 625 * d
  BY <1>1, SMT
<1>3. q % 256 = q
  BY <1>1, SMT
<1>4. ASSUME NEW c \in {0, 512}
      PROVE  /\ (f * 640 + c) \div 1024 \in Int
             /\ 1000 * ((f * 640 + c) \div 1024) <= 625 * f + c
             /\ 625 * f + c < 1000 * ((f * 640 + c) \div 1024) + 1000 + c
  <2> DEFINE t == (f * 640 + c) \div 1024
  <2>1. t \in Int /\ 1024 * t <= f * 640 + c /\ f * 640 + c < 1024 * t + 1024
    BY <1>1, SMT
  <2> HIDE DEF t
  <2>2. 1000 * t <= 625 * f + c /\ 625 * f + c < 1000 * t + 1000 + c
    BY <1>1, <2>1, SMT
  <2> QED BY <2>1, <2>2, SMT DEF t
<1> QED BY <1>1, <1>2, <1>3, <1>4, SMT DEF q, f

\* What raw_to_maxres, raw_to_decicelsius and meas_to_cel make of a reading.
LEMMA NumbersExact ==
  ASSUME unit = "degrees", sample \in Measurable
  PROVE  Degrees!TemperatureExact
<1> DEFINE S == Degrees!Sixteenths(sample)
           G == Degrees!Magnitude(sample)
           D == Degrees!Defined(sample)
           P == Degrees!Step(sample)
           q == D \div 16
           f == D % 16
           c == IF Degrees!Negative(sample) THEN 0 ELSE 512
           t == (f * 640 + c) \div 1024
           maxres == Degrees!RawToMaxres(sample)
           decicelsius == Degrees!RawToDecicelsius(sample)
<1>1. /\ IF Degrees!Negative(sample) THEN S = -G ELSE S = G
      /\ G \in 0 .. 4095
  BY MeasureExact, SMT
<1>2. D \in 0 .. 4095 /\ D <= G /\ G - D < P /\ P \in 1 .. 8
  BY DefinedExact, SMT
<1>3. /\ q \in 0 .. 255 /\ f \in 0 .. 15 /\ q * 10000 + f * 625 = 625 * D /\ q % 256 = q
      /\ t \in Int /\ 1000 * t <= 625 * f + c /\ 625 * f + c < 1000 * t + 1000 + c
  <2>1. c \in {0, 512}
    BY SMT
  <2>2. D \in 0 .. 4095
    BY <1>2, SMT
  <2> HIDE DEF c, D
  <2> QED BY <2>1, <2>2, Tenths, SMT
<1>4. maxres = IF Degrees!Negative(sample) THEN -(625 * D) ELSE 625 * D
  <2>1. maxres = Degrees!Signed(sample, q * 10000 + f * 625)
    BY SMT DEF Degrees!RawToMaxres
  <2>2. maxres = Degrees!Signed(sample, 625 * D)
    BY <2>1, <1>3, SMT
  <2> HIDE DEF maxres, D
  <2> QED BY <2>2, SMT DEF Degrees!Signed
<1>5. /\ Degrees!Negative(sample) => c = 0
      /\ ~Degrees!Negative(sample) => c = 512
  BY SMT
<1> DEFINE e == IF Degrees!Negative(sample) THEN -(q * 10 + t) ELSE q * 10 + t
<1>6. decicelsius = IF e < -550 \/ e > 1250 THEN 2000 ELSE e
  <2>1. Degrees!Rounded(sample) \div 1024 = t
    BY SMT DEF Degrees!Rounded
  <2>2. Degrees!Signed(sample, q * 10 + Degrees!Rounded(sample) \div 1024) = e
    BY <2>1, SMT DEF Degrees!Signed
  <2> QED BY <2>2, SMT DEF Degrees!RawToDecicelsius, Degrees!DS18X20_INVALID_DECICELSIUS
<1>7. Degrees!MeasToCel(sample).cel = q /\ Degrees!MeasToCel(sample).frac = f
  <2>1. Degrees!MeasToCel(sample) = [cel |-> q % 256, frac |-> f]
    BY SMT DEF Degrees!MeasToCel
  <2> QED BY <2>1, <1>3, SMT
<1> HIDE DEF S, G, D, P, q, f, c, t, maxres, decicelsius
<1>8. /\ Degrees!Abs(maxres - 625 * S) < 625 * P
      /\ Degrees!Abs(maxres) = 625 * D
  BY <1>1, <1>2, <1>4, SMT DEF Degrees!Abs
<1>9. e \in Int /\ Degrees!Abs(1000 * e - maxres) < 1000
  <2>1. CASE Degrees!Negative(sample)
    BY <2>1, <1>2, <1>3, <1>4, <1>5, SMT DEF Degrees!Abs
  <2>2. CASE ~Degrees!Negative(sample)
    BY <2>2, <1>2, <1>3, <1>4, <1>5, SMT DEF Degrees!Abs
  <2> QED BY <2>1, <2>2, SMT
<1>10. e < -550 \/ e > 1250 => maxres < -550000 \/ maxres > 1250000
  <2>1. CASE Degrees!Negative(sample)
    BY <2>1, <1>2, <1>3, <1>4, <1>5, SMT
  <2>2. CASE ~Degrees!Negative(sample)
    BY <2>2, <1>2, <1>3, <1>4, <1>5, SMT
  <2> QED BY <2>1, <2>2, SMT
<1> HIDE DEF e
<1>11. /\ decicelsius # 2000 => Degrees!Abs(1000 * decicelsius - maxres) < 1000
       /\ decicelsius = 2000 => maxres < -550000 \/ maxres > 1250000
  <2>1. CASE e < -550 \/ e > 1250
    BY <2>1, <1>6, <1>10, SMT
  <2>2. CASE ~(e < -550 \/ e > 1250)
    <3>1. decicelsius = e /\ e # 2000
      BY <2>2, <1>6, <1>9, SMT
    <3> QED BY <3>1, <1>9, SMT
  <2> QED BY <2>1, <2>2, SMT
<1>12. Degrees!MeasToCel(sample).cel * 10000 + Degrees!MeasToCel(sample).frac * 625 = Degrees!Abs(maxres)
  BY <1>3, <1>7, <1>8, SMT
<1> QED BY <1>8, <1>11, <1>12, SMT DEF Degrees!TemperatureExact, Degrees!DS18X20_INVALID_DECICELSIUS,
       S, P, maxres, decicelsius

\* What a pure function is tried on never changes.
TriedOn == unit = "degrees" => sample \in Samples \cup [damaged : Damages]

\* Temperatures in units of 1/10000 and 1/10 degree, and as degrees with a fraction, are what
\* the sensor counts, up to the bits its resolution leaves undefined and the rounding
\* (DS18X20_raw_to_maxres, DS18X20_raw_to_decicelsius, DS18X20_meas_to_cel), for every
\* reading between -256 and 256 degrees, which is more than a sensor measures.
THEOREM TemperaturesExact ==
  ASSUME Samples \subseteq Measurable
  PROVE  MCSpec => []TemperatureExact
<1>1. MCInit => TriedOn
  BY DEF MCInit, PeripheralsInit, TriedOn, Degrees!TemperatureInit
<1>2. TriedOn /\ [MCNext]_allVars => TriedOn'
  <2>1. [MCNext]_allVars => UNCHANGED <<unit, sample>>
    BY DEF MCNext, allVars, ExceptSearch, ExceptSensor, ExceptSerial,
       ExceptSpi, ExceptAdc
  <2> QED BY <2>1 DEF TriedOn
<1>3. TriedOn => TemperatureExact
  <2>1. SUFFICES ASSUME TriedOn, unit = "degrees" PROVE Degrees!TemperatureExact
    BY DEF TemperatureExact
  <2>2. CASE sample \in Samples
    BY <2>1, <2>2, NumbersExact
  <2>3. CASE sample \in [damaged : Damages]
    <3>1. "family" \notin DOMAIN sample
      BY <2>3
    <3> QED BY <3>1 DEF Degrees!TemperatureExact, Degrees!Reading
  <2> QED BY <2>1, <2>2, <2>3 DEF TriedOn
<1> QED BY <1>1, <1>2, <1>3, PTL DEF MCSpec

-----------------------------------------------------------------------------
(* The analog to digital converter *)

\* The registers select the channel that was remembered, and hold the reference set last.
AdcIInv ==
  /\ sCurrentChannel \in 0 .. 15
  /\ 8 * MUX5 + MUX = sCurrentChannel
  /\ reference = REFS
  /\ Converter!ReadsAsked

\* Every call leaves the registers at the channel that is remembered.
LEMMA AdcKept ==
  ASSUME AdcIInv, Converter!AdcNext
  PROVE  AdcIInv'
<1> USE DEF Converter!ReadsAsked
<1>1. CASE Converter!TurnOffA2D
  BY <1>1 DEF AdcIInv, Converter!TurnOffA2D, Converter!Unread
<1>2. ASSUME NEW ref, Converter!InitA2D(ref)
      PROVE  AdcIInv'
  BY <1>2 DEF AdcIInv, Converter!InitA2D, Converter!Unread
<1>3. ASSUME NEW ref, Converter!SetA2DVoltageReference(ref)
      PROVE  AdcIInv'
  BY <1>3 DEF AdcIInv, Converter!SetA2DVoltageReference, Converter!Unread
<1>4. ASSUME NEW channel \in Channels, Converter!NoChannel(channel)
      PROVE  AdcIInv'
  <2>1. analog'.channel = channel /\ UNCHANGED <<REFS, MUX, MUX5, sCurrentChannel, reference>>
    BY <1>4 DEF Converter!NoChannel
  <2>2. channel \notin 0 .. 15
    BY <1>4 DEF Converter!NoChannel
  <2> QED BY <2>1, <2>2 DEF AdcIInv
<1>5. ASSUME NEW channel \in Channels, Converter!ReadA2D(channel)
      PROVE  AdcIInv'
  <2>1. channel \in 0 .. 15 /\ sCurrentChannel' = channel /\ UNCHANGED <<ADEN, REFS, reference>>
    BY <1>5 DEF Converter!ReadA2D
  <2>2. 8 * MUX5' + MUX' = channel
    <3>1. CASE sCurrentChannel = channel
      BY <3>1, <1>5 DEF Converter!ReadA2D, AdcIInv
    <3>2. CASE sCurrentChannel # channel
      <4>1. MUX5' = channel \div 8 /\ MUX' = channel % 8
        BY <3>2, <1>5 DEF Converter!ReadA2D
      <4>2. 8 * (channel \div 8) + (channel % 8) = channel
        BY <2>1
      <4> QED BY <4>1, <4>2
    <3> QED BY <3>1, <3>2
  <2>3. /\ analog' = [channel |-> channel, on |-> ADEN, result |-> ADC']
        /\ ADEN => ADC' = [pin |-> 8 * MUX5' + MUX', reference |-> REFS]
    BY <1>5 DEF Converter!ReadA2D
  <2>4. analog'.on => analog'.result = [pin |-> channel, reference |-> reference]
    BY <2>2, <2>3 DEF AdcIInv
  <2> QED BY <2>1, <2>2, <2>3, <2>4 DEF AdcIInv
<1> QED BY <1>1, <1>2, <1>3, <1>4, <1>5 DEF Converter!AdcNext

\* However the converter is initialised, switched off and given another reference in
\* between, readA2D of Analog2Digital.cpp returns a measurement of the pin it was called
\* for with the reference set last, although it skips the registers for a channel that it
\* believes to be selected.
THEOREM ReadingsAsAsked == MCSpec => []AnalogAsAsked
<1>1. MCInit => AdcIInv
  BY DEF MCInit, PeripheralsInit, Converter!AdcInit, AdcIInv, Converter!ReadsAsked, Converter!Unread
<1>2. AdcIInv /\ [MCNext]_allVars => AdcIInv'
  <2>1. [MCNext]_allVars => Converter!AdcNext \/ UNCHANGED ofAdc
    BY DEF MCNext, allVars, ExceptSearch, ExceptSensor, ExceptSerial,
       ExceptSpi
  <2>2. ASSUME AdcIInv, UNCHANGED ofAdc PROVE AdcIInv'
    BY <2>2 DEF ofAdc, AdcIInv, Converter!ReadsAsked
  <2> QED BY <2>1, <2>2, AdcKept
<1>3. AdcIInv => AnalogAsAsked
  BY DEF AdcIInv, AnalogAsAsked
<1> QED BY <1>1, <1>2, <1>3, PTL DEF MCSpec

-----------------------------------------------------------------------------
(* The clock of the SPI bus *)

\* The divisor d stands for 2 ^ (d + 1); each clock is twice the next slower one.
LEMMA Clocks ==
  \E k \in Nat \ {0} :
    /\ F_CPU \div 2 = 64 * k /\ F_CPU \div 4 = 32 * k /\ F_CPU \div 8 = 16 * k
    /\ F_CPU \div 16 = 8 * k /\ F_CPU \div 32 = 4 * k /\ F_CPU \div 64 = 2 * k
    /\ F_CPU \div 128 = k
<1>1. F_CPU \in Nat /\ F_CPU # 0 /\ F_CPU % 128 = 0
  BY BusAssumption, SMT DEF Bus!SpiAssumption
<1> DEFINE k == F_CPU \div 128
<1>2. k \in Nat \ {0} /\ F_CPU = 128 * k
  BY <1>1, SMT
<1> HIDE DEF k
<1>3. /\ F_CPU \div 2 = 64 * k /\ F_CPU \div 4 = 32 * k /\ F_CPU \div 8 = 16 * k
      /\ F_CPU \div 16 = 8 * k /\ F_CPU \div 32 = 4 * k /\ F_CPU \div 64 = 2 * k
      /\ F_CPU \div 128 = k
  BY <1>2, SMT
<1> QED BY <1>2, <1>3

\* ClockDiv is the first divisor that is not too fast, or the last.
LEMMA ClockDivFirst ==
  ASSUME NEW speed \in Nat
  PROVE  /\ Bus!ClockDiv(speed) \in 0 .. 6
         /\ Bus!ClockDiv(speed) = 6 \/ speed >= F_CPU \div 2 ^ (Bus!ClockDiv(speed) + 1)
         /\ \A d \in 0 .. 6 : d < Bus!ClockDiv(speed) => ~(speed >= F_CPU \div 2 ^ (d + 1))
<1> DEFINE S == {d \in 0 .. 6 : d = 6 \/ speed >= F_CPU \div 2 ^ (d + 1)}
<1>1. Bus!ClockDiv(speed) = CHOOSE x \in S : \A y \in S : x <= y
  BY DEF Bus!ClockDiv, Bus!Min
<1>2. \E x \in S : \A y \in S : x <= y
  <2>1. S \subseteq 0 .. 6 /\ 6 \in S
    OBVIOUS
  <2> HIDE DEF S
  <2>2. CASE 0 \in S
    BY <2>1, <2>2
  <2>3. CASE 0 \notin S /\ 1 \in S
    BY <2>1, <2>3
  <2>4. CASE 0 \notin S /\ 1 \notin S /\ 2 \in S
    BY <2>1, <2>4
  <2>5. CASE 0 \notin S /\ 1 \notin S /\ 2 \notin S /\ 3 \in S
    BY <2>1, <2>5
  <2>6. CASE 0 \notin S /\ 1 \notin S /\ 2 \notin S /\ 3 \notin S /\ 4 \in S
    BY <2>1, <2>6
  <2>7. CASE 0 \notin S /\ 1 \notin S /\ 2 \notin S /\ 3 \notin S /\ 4 \notin S /\ 5 \in S
    BY <2>1, <2>7
  <2>8. CASE 0 \notin S /\ 1 \notin S /\ 2 \notin S /\ 3 \notin S /\ 4 \notin S /\ 5 \notin S
    <3>1. \A y \in S : y = 6
      BY <2>1, <2>8
    <3> QED BY <2>1, <3>1
  <2> QED BY <2>2, <2>3, <2>4, <2>5, <2>6, <2>7, <2>8
<1> DEFINE c == CHOOSE x \in S : \A y \in S : x <= y
<1>3. c \in S /\ \A y \in S : c <= y
  BY <1>2, Zenon
<1> HIDE DEF c
<1>4. c \in 0 .. 6 /\ (c = 6 \/ speed >= F_CPU \div 2 ^ (c + 1))
  BY <1>3
<1>5. ASSUME NEW d \in 0 .. 6, d < c PROVE ~(speed >= F_CPU \div 2 ^ (d + 1))
  <2>1. d \notin S
    <3> HIDE DEF S
    <3> QED BY <1>3, <1>4, <1>5
  <2> QED BY <2>1
<1>6. Bus!ClockDiv(speed) = c
  BY <1>1 DEF c
<1> QED BY <1>4, <1>5, <1>6

\* The registers of a speed give the divisor of its clock.
LEMMA SetAllowed ==
  ASSUME NEW speed \in Nat, NEW lowestFirst, Bus!Set(speed, lowestFirst)
  PROVE  maxSpeed' = speed /\ Bus!AsFastAsAllowed'
<1> DEFINE c == Bus!ClockDiv(speed)
<1>1. /\ c \in 0 .. 6
      /\ c = 6 \/ speed >= F_CPU \div 2 ^ (c + 1)
      /\ \A d \in 0 .. 6 : d < c => ~(speed >= F_CPU \div 2 ^ (d + 1))
  BY ClockDivFirst
<1>2. /\ maxSpeed' = speed
      /\ SPR' = (IF c = 6 THEN 7 ELSE c) \div 2
      /\ SPI2X' = 1 - ((IF c = 6 THEN 7 ELSE c) % 2)
  BY DEF Bus!Set, Bus!Registers
<1> HIDE DEF c
<1>3. PICK k \in Nat \ {0} :
         /\ F_CPU \div 2 = 64 * k /\ F_CPU \div 4 = 32 * k /\ F_CPU \div 8 = 16 * k
         /\ F_CPU \div 16 = 8 * k /\ F_CPU \div 32 = 4 * k /\ F_CPU \div 64 = 2 * k
         /\ F_CPU \div 128 = k
  BY Clocks
<1>4. 2 ^ 1 = 2 /\ 2 ^ 2 = 4 /\ 2 ^ 3 = 8 /\ 2 ^ 4 = 16 /\ 2 ^ 5 = 32 /\ 2 ^ 6 = 64 /\ 2 ^ 7 = 128
  OBVIOUS
<1> DEFINE Bound(d) == F_CPU \div 2 ^ (d + 1)
<1>5. /\ Bound(0) = 64 * k /\ Bound(1) = 32 * k /\ Bound(2) = 16 * k /\ Bound(3) = 8 * k
      /\ Bound(4) = 4 * k /\ Bound(5) = 2 * k
  BY <1>3, <1>4, SMT
<1>6. Bus!Divisor' = <<2, 4, 8, 16, 32, 64, 128>>[c + 1]
  <2>1. Bus!Divisor' = IF SPI2X' = 1 THEN <<2, 8, 32, 64>>[SPR' + 1] ELSE <<4, 16, 64, 128>>[SPR' + 1]
    BY DEF Bus!Divisor
  <2>2. CASE c = 0
    BY <2>1, <2>2, <1>2, SMT
  <2>3. CASE c = 1
    BY <2>1, <2>3, <1>2, SMT
  <2>4. CASE c = 2
    BY <2>1, <2>4, <1>2, SMT
  <2>5. CASE c = 3
    BY <2>1, <2>5, <1>2, SMT
  <2>6. CASE c = 4
    BY <2>1, <2>6, <1>2, SMT
  <2>7. CASE c = 5
    BY <2>1, <2>7, <1>2, SMT
  <2>8. CASE c = 6
    BY <2>1, <2>8, <1>2, SMT
  <2> QED BY <1>1, <2>2, <2>3, <2>4, <2>5, <2>6, <2>7, <2>8
<1>7. /\ c = 6 \/ speed >= Bound(c)
      /\ \A d \in 0 .. 6 : d < c => ~(speed >= Bound(d))
  BY <1>1
<1> HIDE DEF Bound
<1>8. /\ F_CPU \div Bus!Divisor' <= speed \/ Bus!Divisor' = 128
      /\ Bus!Divisor' > 2 => 2 * (F_CPU \div Bus!Divisor') > speed
  <2>2. CASE c = 0
    BY <2>2, <1>3, <1>5, <1>6, <1>7, SMT
  <2>3. CASE c = 1
    <3>1. ~(speed >= Bound(0))
      BY <2>3, <1>7, SMT
    <3> QED BY <3>1, <2>3, <1>3, <1>5, <1>6, <1>7, SMT
  <2>4. CASE c = 2
    <3>1. ~(speed >= Bound(1))
      BY <2>4, <1>7, SMT
    <3> QED BY <3>1, <2>4, <1>3, <1>5, <1>6, <1>7, SMT
  <2>5. CASE c = 3
    <3>1. ~(speed >= Bound(2))
      BY <2>5, <1>7, SMT
    <3> QED BY <3>1, <2>5, <1>3, <1>5, <1>6, <1>7, SMT
  <2>6. CASE c = 4
    <3>1. ~(speed >= Bound(3))
      BY <2>6, <1>7, SMT
    <3> QED BY <3>1, <2>6, <1>3, <1>5, <1>6, <1>7, SMT
  <2>7. CASE c = 5
    <3>1. ~(speed >= Bound(4))
      BY <2>7, <1>7, SMT
    <3> QED BY <3>1, <2>7, <1>3, <1>5, <1>6, <1>7, SMT
  <2>8. CASE c = 6
    <3>1. ~(speed >= Bound(5))
      BY <2>8, <1>7, SMT
    <3> QED BY <3>1, <2>8, <1>3, <1>5, <1>6, <1>7, SMT
  <2> QED BY <1>1, <2>2, <2>3, <2>4, <2>5, <2>6, <2>7, <2>8
<1> QED BY <1>2, <1>8 DEF Bus!AsFastAsAllowed

SpiIInv == Bus!AsFastAsAllowed

\* Only enable and configure change the clock, and both set it for a speed.
LEMMA SpiKept ==
  ASSUME SpiIInv, Bus!SpiNext
  PROVE  SpiIInv'
<1> USE DEF SpiIInv
<1>same. ASSUME UNCHANGED <<SPR, SPI2X, maxSpeed>> PROVE SpiIInv'
  BY <1>same DEF Bus!AsFastAsAllowed, Bus!Divisor
<1>0. Bus!DefaultSpeed \in Nat /\ Speeds \subseteq Nat
  BY BusAssumption, SMT DEF Bus!SpiAssumption, Bus!DefaultSpeed
<1>1. CASE Bus!Enable
  BY <1>0, <1>1, SetAllowed DEF Bus!Enable
<1>2. CASE Bus!Configure
  BY <1>0, <1>2, SetAllowed DEF Bus!Configure
<1>3. CASE Bus!Disable
  BY <1>3, <1>same DEF Bus!Disable
<1>4. CASE Bus!Transmit
  BY <1>4, <1>same DEF Bus!Transmit, Bus!Configured
<1>5. CASE Bus!Shift
  BY <1>5, <1>same DEF Bus!Shift, Bus!Configured
<1>6. CASE Bus!NextByte
  BY <1>6, <1>same DEF Bus!NextByte, Bus!Configured
<1> QED BY <1>1, <1>2, <1>3, <1>4, <1>5, <1>6 DEF Bus!SpiNext

\* The registers that SPISettings (SPI.h) makes of any speed divide the clock of any board
\* by the smallest divisor that keeps to this speed, or by 128 if none does.
THEOREM BusSpeed == MCSpec => []BusAsFastAsAllowed
<1>1. MCInit => SpiIInv
  <2>1. SUFFICES ASSUME SPR = 0, SPI2X = 0, maxSpeed = F_CPU \div 4 PROVE SpiIInv
    BY DEF MCInit, PeripheralsInit, Bus!SpiInit
  <2>2. Bus!Divisor = 4
    BY <2>1 DEF Bus!Divisor
  <2>3. PICK k \in Nat \ {0} : F_CPU \div 4 = 32 * k
    BY Clocks
  <2> QED BY <2>1, <2>2, <2>3, SMT DEF SpiIInv, Bus!AsFastAsAllowed
<1>2. SpiIInv /\ [MCNext]_allVars => SpiIInv'
  <2>1. [MCNext]_allVars => Bus!SpiNext \/ UNCHANGED ofSpi
    BY DEF MCNext, allVars, ExceptSearch, ExceptSensor, ExceptSerial,
       ExceptAdc
  <2>2. ASSUME SpiIInv, UNCHANGED ofSpi PROVE SpiIInv'
    BY <2>2 DEF ofSpi, SpiIInv, Bus!AsFastAsAllowed, Bus!Divisor
  <2> QED BY <2>1, <2>2, SpiKept
<1>3. SpiIInv => BusAsFastAsAllowed
  BY DEF SpiIInv, BusAsFastAsAllowed
<1> QED BY <1>1, <1>2, <1>3, PTL DEF MCSpec

\* Whatever is asked of them in whatever order, the converter measures the pin and the
\* reference asked for, and the bus runs at the speed asked for or just below.
THEOREM AskedIsConfigured == MCSpec => []PeripheralsAsAsked
BY ReadingsAsAsked, BusSpeed, PTL DEF PeripheralsAsAsked

-----------------------------------------------------------------------------
(* Types *)

\* The pass of a search: a bit is left to walk as long as it goes on.
SearchTyped ==
  /\ Search!SearchTypeOK
  /\ searchPc = "bit" => bitsLeft \in 1 .. RomBits

\* Every step of the search keeps the types, whatever is unplugged.
LEMMA SearchTypedKept ==
  ASSUME SearchTyped, Search!SearchNext
  PROVE  SearchTyped'
<1> USE DEF SearchTyped, Search!SearchTypeOK, Search!Ends, Search!OW_LAST_DEVICE,
            Search!OW_DATA_ERR, Search!OW_PRESENCE_ERR
<1>0. RomBits \in 1 .. 253
  BY SearchAssumption DEF Search!OneWireAssumption
<1>follow. ASSUME NEW bit \in {0, 1}, searchPc = "bit", Search!Follow(bit)
           PROVE  /\ romId' \in Search!Codes /\ sensors' = sensors /\ selected' \subseteq selected
                  /\ bitsLeft' \in 0 .. RomBits /\ bitsLeft' = bitsLeft - 1
                  /\ searchPc' = "bit" => bitsLeft' \in 1 .. RomBits
  <2>1. bitsLeft' = bitsLeft - 1 /\ bitsLeft \in 1 .. RomBits
    BY <1>follow DEF Search!Follow
  <2>2. romId' \in Search!Codes
    BY <1>follow DEF Search!Follow, Search!Codes
  <2>3. sensors' = sensors /\ selected' \subseteq selected
    BY <1>follow DEF Search!Follow
  <2>4. searchPc' = "bit" => bitsLeft' # 0
    BY <1>follow DEF Search!Follow
  <2> QED BY <2>1, <2>2, <2>3, <2>4, <1>0
<1>1. CASE Search!Presence
  BY <1>0, <1>1 DEF Search!Presence
<1>2. CASE Search!NoPresence
  BY <1>2 DEF Search!NoPresence
<1>3. CASE Search!SameBit
  <2>1. PICK bit \in {0, 1} : Search!Follow(bit)
    BY <1>3 DEF Search!SameBit
  <2>2. /\ searchPc = "bit" /\ nextDiff' = nextDiff
        /\ diff' = IF bitsLeft = 1 THEN nextDiff ELSE diff
    BY <1>3 DEF Search!SameBit
  <2> QED BY <2>1, <2>2, <1>follow
<1>4. CASE Search!Branch
  <2>1. PICK bit \in {0, 1} : Search!Follow(bit)
    BY <1>4 DEF Search!Branch
  <2>2. /\ searchPc = "bit" /\ nextDiff' \in {bitsLeft, nextDiff}
        /\ diff' \in {nextDiff', diff}
    BY <1>4 DEF Search!Branch
  <2> QED BY <2>1, <2>2, <1>follow
<1>5. CASE Search!NobodyLeft
  BY <1>5 DEF Search!NobodyLeft
<1>6. CASE Search!SkipOther
  BY <1>6 DEF Search!SkipOther
<1>7. CASE Search!FindSensor
  BY <1>7 DEF Search!FindSensor
<1>8. CASE Search!Unplug
  BY <1>8 DEF Search!Unplug
<1> QED BY <1>1, <1>2, <1>3, <1>4, <1>5, <1>6, <1>7, <1>8 DEF Search!SearchNext

\* The rings of the serial port keep to their sizes, and its interrupt is off while it is.
LEMMA SerialBounded ==
  ASSUME SerialIInv, Serial!UsartTypeOK, Serial!UsartNext
  PROVE  Serial!UsartTypeOK'
<1> USE DEF Serial!UsartTypeOK, Serial!Receiver, Serial!Program, Serial!Sending
<1>0. rxBuffer \in Seq(Nat) /\ txBuffer \in Seq(Nat) /\ RxBuffer \in Nat /\ TxBuffer \in Nat
  BY SerialAssumption DEF Serial!UsartAssumption, SerialIInv, SerialTypes
<1>push. ASSUME NEW ring \in Seq(Nat), NEW size \in Nat, NEW n \in Nat, Len(ring) <= size
         PROVE  Len(Serial!Push(ring, size, n)) <= size
  <2>1. Len(Append(ring, n)) = Len(ring) + 1 /\ Len(ring) \in Nat
    BY <1>push, AppendProperties
  <2> QED BY <2>1, <1>push DEF Serial!Push
<1>tail. ASSUME NEW ring \in Seq(Nat), ring # <<>> PROVE Len(Tail(ring)) = Len(ring) - 1
  BY <1>tail, HeadTailProperties
<1>1. CASE Serial!ShiftOut
  BY <1>1 DEF Serial!ShiftOut
<1>2. CASE Serial!Shifted
  BY <1>2 DEF Serial!Shifted
<1>3. CASE Serial!Arrives
  BY <1>3 DEF Serial!Arrives
<1>4. CASE Serial!ReceiveComplete
  <2>1. PICK n \in Nat : rxData = <<n>>
    BY <1>4 DEF Serial!ReceiveComplete, SerialIInv, SerialTypes
  <2>2. rxBuffer' \in {rxBuffer, Serial!Push(rxBuffer, RxBuffer, n)}
    BY <1>4, <2>1 DEF Serial!ReceiveComplete
  <2>3. Len(rxBuffer') <= RxBuffer
    BY <2>2, <1>push, <1>0
  <2> QED BY <1>4, <2>3 DEF Serial!ReceiveComplete
<1>5. CASE Serial!RegisterEmpty
  <2>1. Len(txBuffer') <= TxBuffer
    <3>1. CASE txBuffer # <<>>
      <4>1. Len(txBuffer') = Len(txBuffer) - 1
        BY <1>0, <1>5, <3>1, <1>tail DEF Serial!RegisterEmpty
      <4> QED BY <4>1, <1>0
    <3>2. CASE txBuffer = <<>>
      BY <1>5, <3>2 DEF Serial!RegisterEmpty
    <3> QED BY <3>1, <3>2
  <2> QED BY <1>5, <2>1 DEF Serial!RegisterEmpty
<1>6. CASE Serial!Start
  BY <1>6 DEF Serial!Start
<1>7. CASE Serial!WritePush
  <2>1. written + 1 \in Nat /\ txBuffer' = Serial!Push(txBuffer, TxBuffer, written + 1)
    BY <1>7 DEF Serial!WritePush, SerialIInv, SerialTypes
  <2>2. Len(txBuffer') <= TxBuffer
    BY <2>1, <1>push, <1>0
  <2> QED BY <1>7, <2>2 DEF Serial!WritePush
<1>8. CASE Serial!WriteEnable
  BY <1>8 DEF Serial!WriteEnable
<1>9. CASE Serial!ClearTXC
  BY <1>9 DEF Serial!ClearTXC
<1>10. CASE Serial!CallFlush
  BY <1>10 DEF Serial!CallFlush
<1>11. CASE Serial!Flushed
  BY <1>11 DEF Serial!Flushed
<1>12. CASE Serial!FlushReturns
  BY <1>12 DEF Serial!FlushReturns
<1>13. CASE Serial!Stop
  <2>1. Len(rxBuffer') = 0 /\ 0 <= RxBuffer
    BY <1>0, <1>13 DEF Serial!Stop
  <2> QED BY <1>13, <2>1 DEF Serial!Stop
<1>14. CASE Serial!Read
  <2>1. Len(rxBuffer') = Len(rxBuffer) - 1
    BY <1>0, <1>14, <1>tail DEF Serial!Read
  <2>2. Len(rxBuffer') <= RxBuffer
    BY <2>1, <1>0
  <2> QED BY <1>14, <2>2 DEF Serial!Read
<1>15. ASSUME NEW n \in 1 .. 3, Serial!CallWrite(n) PROVE Serial!UsartTypeOK'
  BY <1>15 DEF Serial!CallWrite
<1> QED BY <1>1, <1>2, <1>3, <1>4, <1>5, <1>6, <1>7, <1>8, <1>9, <1>10, <1>11, <1>12, <1>13,
          <1>14, <1>15 DEF Serial!UsartNext

\* Registers of the converter: a pin of sixteen, in two parts.
LEMMA AdcTyped ==
  ASSUME Converter!AdcTypeOK, Converter!AdcNext
  PROVE  Converter!AdcTypeOK'
<1> USE DEF Converter!AdcTypeOK
<1>1. CASE Converter!TurnOffA2D
  BY <1>1 DEF Converter!TurnOffA2D
<1>2. ASSUME NEW ref \in References, Converter!InitA2D(ref) PROVE Converter!AdcTypeOK'
  BY <1>2 DEF Converter!InitA2D
<1>3. ASSUME NEW ref \in References, Converter!SetA2DVoltageReference(ref)
      PROVE  Converter!AdcTypeOK'
  BY <1>3 DEF Converter!SetA2DVoltageReference
<1>4. ASSUME NEW channel, Converter!NoChannel(channel) PROVE Converter!AdcTypeOK'
  BY <1>4 DEF Converter!NoChannel
<1>5. ASSUME NEW channel, Converter!ReadA2D(channel) PROVE Converter!AdcTypeOK'
  <2>1. channel \in 0 .. 15 /\ sCurrentChannel' = channel /\ UNCHANGED <<ADEN, REFS, reference>>
    BY <1>5 DEF Converter!ReadA2D
  <2>2. \/ MUX5' = MUX5 /\ MUX' = MUX
        \/ MUX5' = channel \div 8 /\ MUX' = channel % 8
    BY <1>5 DEF Converter!ReadA2D
  <2> QED BY <2>1, <2>2
<1> QED BY <1>1, <1>2, <1>3, <1>4, <1>5 DEF Converter!AdcNext

\* What goes into a byte.
Bytes == 0 .. 2 ^ SpiBits - 1

\* The bytes of a call, how many of them have crossed, and the bits these had.
SpiTyped ==
  /\ Bus!SpiTypeOK /\ data \in Seq(Bytes)
  /\ spiPc # "idle" => count < Len(data)
  /\ wire \in Seq([out : {0, 1}, in : {0, 1}])
  /\ Len(wire) = SpiBits * (IF spiPc = "come" THEN count + 1 ELSE count)

\* Zero is a byte; bits of a byte are bits.
LEMMA SomeBytes ==
  /\ SpiBits \in 1 .. 8 /\ 0 \in Bytes
  /\ \A byte \in Bytes : Bus!Bits(byte) \in [1 .. SpiBits -> {0, 1}]
<1>1. SpiBits \in 1 .. 8
  BY BusAssumption DEF Bus!SpiAssumption
<1>3. \A n \in 0 .. 8 : 2 ^ n \in 1 .. 256
  <2> SUFFICES ASSUME NEW n \in 0 .. 8 PROVE 2 ^ n \in 1 .. 256
    OBVIOUS
  <2>1. \/ 2 ^ n = 2 ^ 0 \/ 2 ^ n = 2 ^ 1 \/ 2 ^ n = 2 ^ 2 \/ 2 ^ n = 2 ^ 3 \/ 2 ^ n = 2 ^ 4
        \/ 2 ^ n = 2 ^ 5 \/ 2 ^ n = 2 ^ 6 \/ 2 ^ n = 2 ^ 7 \/ 2 ^ n = 2 ^ 8
    <3>1. n = 0 \/ n = 1 \/ n = 2 \/ n = 3 \/ n = 4 \/ n = 5 \/ n = 6 \/ n = 7 \/ n = 8
      OBVIOUS
    <3> QED BY <3>1, Zenon
  <2> QED BY <2>1, SMT
<1>4. 0 \in Bytes
  <2> DEFINE top == 2 ^ SpiBits
  <2>1. top \in 1 .. 256
    <3>1. SpiBits \in 0 .. 8
      BY <1>1
    <3> QED BY <1>3, <3>1, Zenon
  <2>2. Bytes = 0 .. top - 1
    BY DEF Bytes
  <2> HIDE DEF top
  <2> QED BY <2>1, <2>2
<1>5. ASSUME NEW byte \in Bytes PROVE Bus!Bits(byte) \in [1 .. SpiBits -> {0, 1}]
  <2> DEFINE Place(i) == IF DORD THEN i - 1 ELSE SpiBits - i
             Bit(i) == (byte \div 2 ^ Place(i)) % 2
  <2>1. \A i \in 1 .. SpiBits : Place(i) \in 0 .. 8
    BY <1>1
  <2>2. byte \in Nat
    BY <1>1, <1>3 DEF Bytes
  <2>3. \A n \in 1 .. 256 : (byte \div n) % 2 \in {0, 1}
    <3>1. \A n \in 1 .. 256 : byte \div n \in Int
      BY <2>2
    <3>2. \A d \in Int : d % 2 \in {0, 1}
      OBVIOUS
    <3> QED BY <3>1, <3>2
  <2> HIDE DEF Place
  <2>4. \A i \in 1 .. SpiBits : Bit(i) \in {0, 1}
    BY <2>1, <2>3, <1>3
  <2>5. Bus!Bits(byte) = [i \in 1 .. SpiBits |-> Bit(i)]
    BY DEF Bus!Bits, Place
  <2> HIDE DEF Bit
  <2> QED BY <2>4, <2>5
<1> QED BY <1>1, <1>4, <1>5

\* The place of a byte that is still to cross is one of the data's.
LEMMA PlaceInside ==
  ASSUME NEW n \in Nat, n < Len(data), Len(data) \in Nat
  PROVE  Bus!Place(n) \in 1 .. Len(data)
BY DEF Bus!Place

\* The divisor's code takes two bits and one.
LEMMA SetTyped ==
  ASSUME NEW speed \in Nat, NEW lowestFirst \in BOOLEAN, Bus!Set(speed, lowestFirst)
  PROVE  SPE' \in BOOLEAN /\ DORD' \in BOOLEAN /\ SPR' \in 0 .. 3 /\ SPI2X' \in {0, 1}
<1> DEFINE c == Bus!ClockDiv(speed)
<1>1. c \in 0 .. 6
  BY ClockDivFirst
<1>2. /\ SPR' = (IF c = 6 THEN 7 ELSE c) \div 2
      /\ SPI2X' = 1 - ((IF c = 6 THEN 7 ELSE c) % 2)
      /\ SPE' = TRUE /\ DORD' = lowestFirst
  BY DEF Bus!Set, Bus!Registers
<1> HIDE DEF c
<1> QED BY <1>1, <1>2

\* Below a bound, the next number is within it.
LEMMA NextIsWithin ==
  \A n, m \in Nat : n < m => n + 1 \in Nat /\ n + 1 <= m
OBVIOUS

\* Every step of the bus keeps the types: each byte that crosses has its place in the data.
LEMMA SpiTypedKept ==
  ASSUME SpiTyped, Bus!SpiNext
  PROVE  SpiTyped'
<1>0. /\ data \in Seq(Bytes) /\ count \in 0 .. Len(data) /\ Len(data) \in Nat
      /\ SPDR \in Bytes /\ SpiBits \in 1 .. 8 /\ spiPc \in {"idle", "wait", "come"}
      /\ kind \in {"integer", "array"} /\ wire \in Seq([out : {0, 1}, in : {0, 1}])
      /\ SPE \in BOOLEAN /\ DORD \in BOOLEAN /\ SPR \in 0 .. 3 /\ SPI2X \in {0, 1}
      /\ spiPc # "idle" => count < Len(data)
      /\ Len(wire) = SpiBits * (IF spiPc = "come" THEN count + 1 ELSE count)
  BY SomeBytes DEF SpiTyped, Bus!SpiTypeOK, Bytes
\* What is left to show once the parts are typed.
<1>typed. ASSUME /\ data' \in Seq(Bytes) /\ count' \in 0 .. Len(data')
                 /\ SPDR' \in Bytes /\ spiPc' \in {"idle", "wait", "come"}
                 /\ kind' \in {"integer", "array"}
                 /\ wire' \in Seq([out : {0, 1}, in : {0, 1}])
                 /\ SPE' \in BOOLEAN /\ DORD' \in BOOLEAN /\ SPR' \in 0 .. 3 /\ SPI2X' \in {0, 1}
                 /\ spiPc' # "idle" => count' < Len(data')
                 /\ Len(wire') = SpiBits * (IF spiPc' = "come" THEN count' + 1 ELSE count')
          PROVE  SpiTyped'
  <2>1. Len(data') \in Nat /\ count' \in Nat /\ count' <= Len(data')
    BY <1>typed, LenProperties
  <2>2. PICK crossed \in Nat : crossed <= Len(data') /\ Len(wire') = SpiBits * crossed
    <3>1. CASE spiPc' = "come"
      <4>1. Len(wire') = SpiBits * (count' + 1) /\ count' < Len(data')
        <5>1. /\ spiPc' # "idle" => count' < Len(data')
              /\ Len(wire') = SpiBits * (IF spiPc' = "come" THEN count' + 1 ELSE count')
          BY <1>typed
        <5>2. spiPc' # "idle"
          BY <3>1
        <5>3. count' < Len(data')
          BY <5>1, <5>2, Zenon
        <5>4. Len(wire') = SpiBits * (count' + 1)
          BY <5>1, <3>1, Zenon
        <5> QED BY <5>3, <5>4, Zenon
      <4>2. count' + 1 \in Nat /\ count' + 1 <= Len(data')
        <5>1. count' \in Nat /\ Len(data') \in Nat /\ count' < Len(data')
          BY <4>1, <2>1, Zenon
        <5> QED BY <5>1, NextIsWithin, Zenon
      <4> DEFINE m == count' + 1
      <4>3. m \in Nat /\ m <= Len(data') /\ Len(wire') = SpiBits * m
        BY <4>1, <4>2
      <4> HIDE DEF m
      <4> QED BY <4>3, Zenon
    <3>2. CASE spiPc' # "come"
      BY <1>typed, <3>2, <2>1
    <3> QED BY <3>1, <3>2
  <2>3. Len(wire') <= SpiBits * Len(data')
    <3>1. \A n \in 1 .. 8 : n * crossed <= n * Len(data')
      BY <2>1, <2>2
    <3> QED BY <3>1, <2>2, <1>0
  <2>4. \A k \in DOMAIN data' : data'[k] \in Bytes
    BY <1>typed
  <2>5. Bus!SpiTypeOK'
    BY <1>typed, <2>3, <2>4 DEF Bus!SpiTypeOK, Bytes
  <2> QED BY <1>typed, <2>5 DEF SpiTyped, Bytes
<1>set. ASSUME NEW speed \in Nat, NEW lowestFirst \in BOOLEAN, Bus!Set(speed, lowestFirst),
               UNCHANGED <<kind, data, count, given, spiPc, SPDR, wire>>
        PROVE  SpiTyped'
  <2>1. SPE' \in BOOLEAN /\ DORD' \in BOOLEAN /\ SPR' \in 0 .. 3 /\ SPI2X' \in {0, 1}
    BY <1>set, SetTyped
  <2> QED BY <1>0, <1>set, <2>1, <1>typed
<1>1. CASE Bus!Enable
  <2>1. Bus!DefaultSpeed \in Nat
    BY SMT DEF Bus!DefaultSpeed
  <2> QED BY <1>1, <2>1, <1>set DEF Bus!Enable, Bus!Call
<1>2. CASE Bus!Configure
  <2>1. PICK speed \in Speeds, lowestFirst \in BOOLEAN : Bus!Set(speed, lowestFirst)
    BY <1>2 DEF Bus!Configure
  <2>2. speed \in Nat
    BY BusAssumption DEF Bus!SpiAssumption
  <2> QED BY <1>2, <2>1, <2>2, <1>set DEF Bus!Configure, Bus!Call
<1>3. CASE Bus!Disable
  <2>1. /\ SPE' = FALSE
        /\ UNCHANGED <<DORD, SPR, SPI2X, kind, data, count, spiPc, SPDR, wire>>
    BY <1>3 DEF Bus!Disable, Bus!Call
  <2> QED BY <1>0, <2>1, <1>typed
<1>4. CASE Bus!Transmit
  <2>1. PICK called \in {[kind |-> "integer", data |-> d] : d \in Integers16 \cup Integers32}
                          \cup {[kind |-> "array", data |-> d] : d \in Arrays} :
          /\ kind' = called.kind /\ data' = called.data
          /\ IF called.data = <<>> THEN UNCHANGED <<spiPc, SPDR>>
             ELSE spiPc' = "wait" /\ SPDR' = data'[Bus!Place(0)']
    BY <1>4 DEF Bus!Transmit
  <2>2. /\ spiPc = "idle" /\ count' = 0 /\ wire' = <<>>
        /\ UNCHANGED <<SPE, DORD, SPR, SPI2X>>
    BY <1>4 DEF Bus!Transmit, Bus!Configured
  <2>3. called.kind \in {"integer", "array"} /\ called.data \in Integers16 \cup Integers32 \cup Arrays
    OBVIOUS
  <2>4. data' \in Seq(Bytes) /\ kind' \in {"integer", "array"}
    BY <2>1, <2>3, BusAssumption DEF Bus!SpiAssumption, Bytes
  <2>5. Len(data') \in Nat /\ (data' # <<>> => Len(data') > 0)
    BY <2>4
  <2>6. Len(wire') = 0 /\ wire' \in Seq([out : {0, 1}, in : {0, 1}])
    BY <2>2
  <2>7. SpiBits * 0 = 0
    BY <1>0
  <2>8. CASE called.data = <<>>
    BY <1>0, <2>1, <2>2, <2>4, <2>5, <2>6, <2>7, <2>8, <1>typed
  <2>9. CASE called.data # <<>>
    <3>1. Bus!Place(0)' \in 1 .. Len(data')
      BY <2>1, <2>5, <2>9 DEF Bus!Place
    <3>2. SPDR' \in Bytes /\ spiPc' = "wait"
      BY <2>1, <2>4, <2>9, <3>1
    <3>3. count' \in 0 .. Len(data') /\ count' < Len(data') /\ count' = 0
      BY <2>1, <2>2, <2>5, <2>9
    <3> QED BY <1>0, <2>2, <2>4, <2>6, <2>7, <3>2, <3>3, <1>typed
  <2> QED BY <2>8, <2>9
<1>5. CASE Bus!Shift
  <2>1. PICK answer \in Bytes :
          /\ SPDR' = answer
          /\ wire' = wire \o [i \in 1 .. SpiBits |-> [out |-> Bus!Bits(SPDR)[i], in |-> Bus!Bits(answer)[i]]]
    BY <1>5 DEF Bus!Shift, Bytes
  <2>2. /\ spiPc = "wait" /\ spiPc' = "come"
        /\ UNCHANGED <<SPE, DORD, SPR, SPI2X, kind, data, count>>
    BY <1>5 DEF Bus!Shift, Bus!Configured, Bus!Call
  <2> DEFINE crossing == [i \in 1 .. SpiBits |-> [out |-> Bus!Bits(SPDR)[i], in |-> Bus!Bits(answer)[i]]]
  <2>3. crossing \in Seq([out : {0, 1}, in : {0, 1}]) /\ Len(crossing) = SpiBits
    <3>1. Bus!Bits(SPDR) \in [1 .. SpiBits -> {0, 1}] /\ Bus!Bits(answer) \in [1 .. SpiBits -> {0, 1}]
      BY <1>0, SomeBytes
    <3> QED BY <3>1, <1>0
  <2>4. wire' = wire \o crossing
    BY <2>1
  <2> HIDE DEF crossing
  <2>5. wire' \in Seq([out : {0, 1}, in : {0, 1}]) /\ Len(wire') = Len(wire) + SpiBits
    BY <1>0, <2>3, <2>4, ConcatProperties
  <2>6. Len(wire') = SpiBits * (count + 1)
    <3>1. Len(wire) = SpiBits * count
      BY <1>0, <2>2
    <3>2. \A n \in 1 .. 8, c \in Nat : n * (c + 1) = n * c + n
      OBVIOUS
    <3> QED BY <1>0, <2>5, <3>1, <3>2
  <2> QED BY <1>0, <2>1, <2>2, <2>5, <2>6, <1>typed
<1>6. CASE Bus!NextByte
  <2>1. /\ spiPc = "come" /\ count' = count + 1
        /\ data' = [data EXCEPT ![Bus!Place(count)] = SPDR]
        /\ IF count' < Len(data) THEN spiPc' = "wait" /\ SPDR' = data[Bus!Place(count')]
           ELSE spiPc' = "idle" /\ UNCHANGED SPDR
        /\ UNCHANGED <<SPE, DORD, SPR, SPI2X, kind, wire>>
    BY <1>6 DEF Bus!NextByte, Bus!Configured
  <2>2. data' \in Seq(Bytes) /\ Len(data') = Len(data)
    <3> DEFINE place == Bus!Place(count)
    <3>1. place \in 1 .. Len(data)
      BY <1>0, <2>1, PlaceInside
    <3>2. data' = [data EXCEPT ![place] = SPDR]
      BY <2>1
    <3> HIDE DEF place
    <3> QED BY <1>0, <3>1, <3>2, ExceptSeq
  <2>3. count < Len(data) /\ count' \in 0 .. Len(data)
    BY <1>0, <2>1
  <2>4. CASE count' < Len(data)
    <3>1. Bus!Place(count') \in 1 .. Len(data)
      <4> DEFINE n == count'
      <4>1. n \in Nat /\ n < Len(data)
        BY <1>0, <2>3, <2>4
      <4> HIDE DEF n
      <4>2. Bus!Place(n) \in 1 .. Len(data)
        BY <1>0, <4>1, PlaceInside
      <4> QED BY <4>2 DEF n
    <3>2. SPDR' \in Bytes /\ spiPc' = "wait"
      BY <1>0, <2>1, <2>4, <3>1
    <3> QED BY <1>0, <2>1, <2>2, <2>3, <2>4, <3>2, <1>typed
  <2>5. CASE ~(count' < Len(data))
    BY <1>0, <2>1, <2>2, <2>3, <2>5, <1>typed
  <2> QED BY <2>4, <2>5
<1> QED BY <1>1, <1>2, <1>3, <1>4, <1>5, <1>6 DEF Bus!SpiNext

\* Every driver's variables keep their types, whatever the others and the outside world do:
\* lengths of the rings, places in data and codes, registers, what a command is about.
PeripheralsTyped ==
  /\ SearchTyped /\ SensorTypes /\ Noted /\ SerialIInv /\ Serial!UsartTypeOK
  /\ SpiTyped /\ Converter!AdcTypeOK

\* All drivers begin with their types.
LEMMA PeripheralsInitially == MCInit => PeripheralsTyped
<1> SUFFICES ASSUME MCInit PROVE PeripheralsTyped
  OBVIOUS
<1>1. SearchTyped
  <2>1. Search!SearchInit
    BY DEF MCInit, PeripheralsInit
  <2>2. RomBits \in 1 .. 253
    BY SearchAssumption DEF Search!OneWireAssumption
  <2>3. romId \in Search!Codes
    BY <2>1 DEF Search!SearchInit, Search!Codes
  <2> QED BY <2>1, <2>2, <2>3 DEF SearchTyped, Search!SearchTypeOK, Search!SearchInit,
          Search!OW_SEARCH_FIRST, Search!Ends, Search!OW_PRESENCE_ERR
<1>2. SensorTypes /\ Noted
  BY SensorInitially DEF MCInit, PeripheralsInit, SensorIInv
<1>3. SerialIInv
  BY SerialInitially DEF MCInit, PeripheralsInit
<1>4. Serial!UsartTypeOK
  BY SerialAssumption DEF MCInit, PeripheralsInit, Serial!UsartInit, Serial!UsartTypeOK, Serial!UsartAssumption
<1>5. SpiTyped
  <2>1. Bus!SpiInit /\ SpiBits \in 1 .. 8 /\ 0 \in Bytes
    BY SomeBytes DEF MCInit, PeripheralsInit
  <2>2. /\ data = <<>> /\ wire = <<>> /\ Len(data) = 0 /\ Len(wire) = 0 /\ count = 0
        /\ spiPc = "idle" /\ DOMAIN data = {}
    BY <2>1 DEF Bus!SpiInit
  <2>3. SpiBits * 0 = 0
    BY <2>1
  <2>4. data \in Seq(Bytes) /\ wire \in Seq([out : {0, 1}, in : {0, 1}])
    BY <2>2
  <2>5. Len(wire) <= SpiBits * Len(data)
    BY <2>2, <2>3
  <2>6. SPE = FALSE /\ DORD = FALSE /\ SPR = 0 /\ SPI2X = 0 /\ kind = "integer" /\ SPDR = 0
    BY <2>1 DEF Bus!SpiInit
  <2>7. Bus!SpiTypeOK
    <3>1. SPE \in BOOLEAN /\ DORD \in BOOLEAN
      BY <2>6, Zenon
    <3>2. SPR \in 0 .. 3 /\ SPI2X \in {0, 1} /\ count \in 0 .. Len(data)
      BY <2>2, <2>6, SMT
    <3>3. SPDR \in 0 .. 2 ^ SpiBits - 1
      BY <2>1, <2>6 DEF Bytes
    <3>4. \A k \in DOMAIN data : data[k] \in 0 .. 2 ^ SpiBits - 1
      BY <2>2, Zenon
    <3> QED BY <2>2, <2>5, <2>6, <3>1, <3>2, <3>3, <3>4, Zenon DEF Bus!SpiTypeOK
  <2>8. Len(wire) = SpiBits * (IF spiPc = "come" THEN count + 1 ELSE count)
    BY <2>2, <2>3
  <2> QED BY <2>2, <2>4, <2>7, <2>8 DEF SpiTyped
<1>6. Converter!AdcTypeOK
  <2>1. Converter!AdcInit
    BY DEF MCInit, PeripheralsInit
  <2>2. /\ ADEN = FALSE /\ REFS \in References /\ reference = REFS
        /\ MUX = 0 /\ MUX5 = 0 /\ sCurrentChannel = 0
    BY <2>1 DEF Converter!AdcInit
  <2>3. ADEN \in BOOLEAN
    BY <2>2, Zenon
  <2>4. MUX \in 0 .. 7 /\ MUX5 \in {0, 1} /\ sCurrentChannel \in 0 .. 15
    BY <2>2, SMT
  <2> QED BY <2>2, <2>3, <2>4, Zenon DEF Converter!AdcTypeOK
<1> QED BY <1>1, <1>2, <1>3, <1>4, <1>5, <1>6 DEF PeripheralsTyped

\* Type correctness of the drivers: no ring of the serial port ever holds more than its
\* size, no byte of an SPI call is taken from or put to a place outside its data, the
\* places of the search stay within a code, and registers hold what fits into them.
THEOREM PeripheralsKeepTypes == MCSpec => []PeripheralsTypeOK
<1>1. MCInit => PeripheralsTyped
  BY PeripheralsInitially
<1>2. PeripheralsTyped /\ [MCNext]_allVars => PeripheralsTyped'
  <2> SUFFICES ASSUME PeripheralsTyped, [MCNext]_allVars PROVE PeripheralsTyped'
    OBVIOUS
  <2>0. /\ SearchTyped /\ SensorTypes /\ Noted /\ SerialIInv /\ Serial!UsartTypeOK
        /\ SpiTyped /\ Converter!AdcTypeOK
    BY DEF PeripheralsTyped
  <2>1. SearchTyped'
    <3>1. ASSUME UNCHANGED ofSearch PROVE SearchTyped'
      BY <2>0, <3>1 DEF ofSearch, SearchTyped, Search!SearchTypeOK
    <3> QED BY <2>0, <3>1, SearchTypedKept
            DEF MCNext, allVars, ExceptSensor, ExceptSerial, ExceptSpi, ExceptAdc
  <2>2. SensorTypes' /\ Noted'
    <3>1. ASSUME UNCHANGED ofSensor PROVE SensorTypes' /\ Noted'
      BY <2>0, <3>1 DEF ofSensor, SensorTypes, Noted
    <3> QED BY <2>0, <3>1, SensorSteps, SensorTypesKept, NotedKept
  <2>3. SerialIInv' /\ Serial!UsartTypeOK'
    <3>1. ASSUME UNCHANGED ofSerial PROVE SerialIInv' /\ Serial!UsartTypeOK'
      BY <2>0, <3>1 DEF ofSerial, SerialIInv, SerialTypes, Sent, Awake, Got, Serial!UsartTypeOK
    <3>2. ASSUME Serial!UsartNext PROVE SerialIInv'
      BY <2>0, <3>2, SerialTypesKept, SentKept, AwakeKept, GotKept DEF SerialIInv
    <3> QED BY <2>0, <3>1, <3>2, SerialSteps, SerialBounded
  <2>4. SpiTyped'
    <3>1. ASSUME UNCHANGED ofSpi PROVE SpiTyped'
      BY <2>0, <3>1 DEF ofSpi, SpiTyped, Bus!SpiTypeOK
    <3> QED BY <2>0, <3>1, SpiTypedKept
            DEF MCNext, allVars, ExceptSearch, ExceptSensor, ExceptSerial, ExceptAdc
  <2>5. Converter!AdcTypeOK'
    <3>1. ASSUME UNCHANGED ofAdc PROVE Converter!AdcTypeOK'
      BY <2>0, <3>1 DEF ofAdc, Converter!AdcTypeOK
    <3> QED BY <2>0, <3>1, AdcTyped
            DEF MCNext, allVars, ExceptSearch, ExceptSensor, ExceptSerial, ExceptSpi
  <2> QED BY <2>1, <2>2, <2>3, <2>4, <2>5 DEF PeripheralsTyped
<1>3. PeripheralsTyped => PeripheralsTypeOK
  <2> SUFFICES ASSUME PeripheralsTyped PROVE PeripheralsTypeOK
    OBVIOUS
  <2>1. /\ Search!SearchTypeOK /\ Serial!UsartTypeOK /\ Bus!SpiTypeOK /\ Converter!AdcTypeOK
        /\ SensorTypes /\ Noted
    BY DEF PeripheralsTyped, SearchTyped, SpiTyped
  <2>2. Sensor!ThermometerTypeOK
    BY <2>1 DEF SensorTypes, Noted, Pads, SensorIds, SensorCommands, Sensor!Ids, Sensor!Starts, Sensor!Settling, Sensor!ThermometerTypeOK
  <2> QED BY <2>1, <2>2 DEF PeripheralsTypeOK
<1> QED BY <1>1, <1>2, <1>3, PTL DEF MCSpec
=============================================================================
