---------------------------- MODULE SerialProofs ----------------------------
(***************************************************************************)
(* Proofs about the serial line, for rings of any size, any queries, any   *)
(* packets, and any number of disturbances and lost bytes: the board's end *)
(* (see Uart and Firmware) and the host's parser (see AVRFraming).         *)
(***************************************************************************)
EXTENDS MCSerialLine, SequenceTheorems, TLAPS

(* Indices of a ring: how many elements it holds, and where the i-th of them is *)

Span(tail, head, size) == (head - tail) % size

Place(tail, i, size) == (tail + i) % size

LEMMA AfterIs ==
  ASSUME NEW size \in Nat \ {0, 1}, NEW i \in 0 .. size - 1
  PROVE  /\ After(i, size) \in 0 .. size - 1
         /\ After(i, size) = IF i = size - 1 THEN 0 ELSE i + 1
  BY DEF After

LEMMA HeldIs ==
  ASSUME NEW size \in Nat \ {0, 1}, NEW tail \in 0 .. size - 1, NEW head \in 0 .. size - 1
  PROVE  Span(tail, head, size) = IF head >= tail THEN head - tail ELSE head - tail + size
<1>1. CASE head >= tail
  BY <1>1 DEF Span
<1>2. CASE head < tail
  BY <1>2 DEF Span
<1> QED
  BY <1>1, <1>2

LEMMA PlaceIs ==
  ASSUME NEW size \in Nat \ {0, 1}, NEW tail \in 0 .. size - 1, NEW i \in 0 .. size
  PROVE  Place(tail, i, size) = IF tail + i < size THEN tail + i ELSE tail + i - size
<1>1. CASE tail + i < size
  BY <1>1 DEF Place
<1>2. CASE tail + i >= size
  BY <1>2 DEF Place
<1> QED
  BY <1>1, <1>2

-----------------------------------------------------------------------------
(* What a ring holds, as one of its ends moves *)

HoldsWhatLies(V, buf, tail, head, size) ==
  LET held == Held(buf, tail, head, size)
  IN /\ held \in Seq(V) /\ Len(held) = Span(tail, head, size)
     /\ \A i \in 1 .. Span(tail, head, size) : held[i] = buf[Place(tail, i, size)]

LEMMA HeldSeq ==
  ASSUME NEW V, NEW size \in Nat \ {0, 1}, NEW buf \in [0 .. size - 1 -> V],
         NEW tail \in 0 .. size - 1, NEW head \in 0 .. size - 1
  PROVE  HoldsWhatLies(V, buf, tail, head, size)
<1> DEFINE n == Span(tail, head, size)
           e(i) == buf[Place(tail, i, size)]
<1>1. n \in 0 .. size - 1
  <2>1. Span(tail, head, size) = IF head >= tail THEN head - tail ELSE head - tail + size
    BY HeldIs
  <2> QED
    BY <2>1
<1>2. ASSUME NEW i \in 1 .. n PROVE e(i) \in V
  <2>1. i \in 0 .. size
    BY <1>1
  <2>2. Place(tail, i, size) = IF tail + i < size THEN tail + i ELSE tail + i - size
    BY <2>1, PlaceIs
  <2> QED
    BY <2>1, <2>2
<1>3. Held(buf, tail, head, size) = [i \in 1 .. n |-> e(i)]
  BY DEF Held, Span, Place
<1> HIDE DEF n, e
<1>4. [i \in 1 .. n |-> e(i)] \in Seq(V)
  BY <1>1, <1>2, IsASeq
<1>5. Len([i \in 1 .. n |-> e(i)]) = n
  BY <1>1
<1>6. \A i \in 1 .. n : [j \in 1 .. n |-> e(j)][i] = e(i)
  OBVIOUS
<1> QED
  BY <1>3, <1>4, <1>5, <1>6 DEF n, e, HoldsWhatLies

\* An element is written behind the head.
Written(buf, head, size, e) == [buf EXCEPT ![After(head, size)] = e]

\* Nothing is held between head and tail: what is written there changes nothing yet.
LEMMA WriteBehind ==
  ASSUME NEW V, NEW size \in Nat \ {0, 1}, NEW buf \in [0 .. size - 1 -> V],
         NEW tail \in 0 .. size - 1, NEW head \in 0 .. size - 1, NEW e \in V
  PROVE  Held(Written(buf, head, size, e), tail, head, size) = Held(buf, tail, head, size)
<1> DEFINE n == Span(tail, head, size)
           written2 == [buf EXCEPT ![After(head, size)] = e]
<1>1. n \in 0 .. size - 1 /\ After(head, size) \in 0 .. size - 1
  <2>1. Span(tail, head, size) = IF head >= tail THEN head - tail ELSE head - tail + size
    BY HeldIs
  <2>2. After(head, size) \in 0 .. size - 1
    BY AfterIs
  <2> QED
    BY <2>1, <2>2
<1>2. written2 \in [0 .. size - 1 -> V]
  BY <1>1
<1>3. ASSUME NEW i \in 1 .. n PROVE Place(tail, i, size) # After(head, size)
  <2>1. /\ After(head, size) = IF head = size - 1 THEN 0 ELSE head + 1
        /\ Span(tail, head, size) = IF head >= tail THEN head - tail ELSE head - tail + size
    BY AfterIs, HeldIs
  <2>2. i \in 0 .. size
    BY <1>1
  <2>3. Place(tail, i, size) = IF tail + i < size THEN tail + i ELSE tail + i - size
    BY <2>2, PlaceIs
  <2> QED
    BY <1>1, <2>1, <2>3
<1>4. ASSUME NEW i \in 1 .. n PROVE Place(tail, i, size) \in 0 .. size - 1
  <2>1. i \in 0 .. size
    BY <1>1
  <2>2. Place(tail, i, size) = IF tail + i < size THEN tail + i ELSE tail + i - size
    BY <2>1, PlaceIs
  <2> QED
    BY <2>1, <2>2
<1>5. \A i \in 1 .. n : written2[Place(tail, i, size)] = buf[Place(tail, i, size)]
  BY <1>2, <1>3, <1>4
<1> HIDE DEF written2
<1>6. /\ Held(written2, tail, head, size) \in Seq(V) /\ Held(buf, tail, head, size) \in Seq(V)
      /\ Len(Held(written2, tail, head, size)) = n /\ Len(Held(buf, tail, head, size)) = n
      /\ \A i \in 1 .. n : Held(written2, tail, head, size)[i] = written2[Place(tail, i, size)]
      /\ \A i \in 1 .. n : Held(buf, tail, head, size)[i] = buf[Place(tail, i, size)]
  <2>1. /\ HoldsWhatLies(V, written2, tail, head, size)
        /\ HoldsWhatLies(V, buf, tail, head, size)
    BY <1>2, HeldSeq
  <2> QED
    BY <2>1 DEF HoldsWhatLies
<1>7. Held(written2, tail, head, size) = Held(buf, tail, head, size)
  BY <1>5, <1>6, SeqEqual
<1> QED
  BY <1>7 DEF written2, Written

\* The head moves on to what was written there.
LEMMA HeadMoves ==
  ASSUME NEW V, NEW size \in Nat \ {0, 1}, NEW buf \in [0 .. size - 1 -> V],
         NEW tail \in 0 .. size - 1, NEW head \in 0 .. size - 1,
         After(head, size) # tail
  PROVE  Held(buf, tail, After(head, size), size)
           = Append(Held(buf, tail, head, size), buf[After(head, size)])
<1> DEFINE n == Span(tail, head, size)
           longer == Held(buf, tail, After(head, size), size)
           held == Held(buf, tail, head, size)
           e == buf[After(head, size)]
<1>10. /\ After(head, size) = IF head = size - 1 THEN 0 ELSE head + 1
       /\ Span(tail, head, size) = IF head >= tail THEN head - tail ELSE head - tail + size
  BY AfterIs, HeldIs
<1>1. n \in 0 .. size - 2 /\ After(head, size) \in 0 .. size - 1 /\ e \in V
  <2>1. After(head, size) \in 0 .. size - 1
    BY AfterIs
  <2>2. n \in 0 .. size - 2
    BY <1>10
  <2> QED
    BY <2>1, <2>2
<1>2. Span(tail, After(head, size), size) = n + 1
  <2>1. Span(tail, After(head, size), size)
          = IF After(head, size) >= tail THEN After(head, size) - tail
                                         ELSE After(head, size) - tail + size
    BY <1>1, HeldIs
  <2> QED
    BY <1>10, <2>1
<1>3. Place(tail, n + 1, size) = After(head, size)
  <2>1. n + 1 \in 0 .. size
    BY <1>1
  <2>2. Place(tail, n + 1, size)
          = IF tail + (n + 1) < size THEN tail + (n + 1) ELSE tail + (n + 1) - size
    BY <2>1, PlaceIs
  <2> QED
    BY <1>1, <1>10, <2>2
<1>4. /\ longer \in Seq(V) /\ Len(longer) = n + 1
      /\ \A i \in 1 .. n + 1 : longer[i] = buf[Place(tail, i, size)]
  <2>1. HoldsWhatLies(V, buf, tail, After(head, size), size)
    BY <1>1, HeldSeq
  <2> QED
    BY <1>2, <2>1 DEF HoldsWhatLies
<1>5. /\ held \in Seq(V) /\ Len(held) = n
      /\ \A i \in 1 .. n : held[i] = buf[Place(tail, i, size)]
  <2>1. HoldsWhatLies(V, buf, tail, head, size)
    BY HeldSeq
  <2> QED
    BY <2>1 DEF HoldsWhatLies
<1> HIDE DEF n, longer, held, e
<1>6. /\ Append(held, e) \in Seq(V) /\ Len(Append(held, e)) = n + 1
      /\ Append(held, e)[n + 1] = e
      /\ \A i \in 1 .. n : Append(held, e)[i] = held[i]
  BY <1>1, <1>5, AppendProperties
<1>7. longer[n + 1] = e
  <2>1. n + 1 \in 1 .. n + 1
    BY <1>1
  <2> QED
    BY <1>3, <1>4, <2>1 DEF e
<1>8. ASSUME NEW i \in 1 .. Len(longer) PROVE longer[i] = Append(held, e)[i]
  <2>1. i \in 1 .. n \/ i = n + 1
    BY <1>1, <1>4
  <2>2. CASE i = n + 1
    BY <1>6, <1>7, <2>2
  <2>3. CASE i \in 1 .. n
    <3>1. i \in 1 .. n + 1
      BY <1>1, <2>3
    <3> QED
      BY <1>4, <1>5, <1>6, <2>3, <3>1
  <2> QED
    BY <2>1, <2>2, <2>3
<1>9. longer = Append(held, e)
  BY <1>4, <1>6, <1>8, SeqEqual
<1> QED
  BY <1>9 DEF longer, held, e

\* The tail moves on over the oldest element.
LEMMA TailMoves ==
  ASSUME NEW V, NEW size \in Nat \ {0, 1}, NEW buf \in [0 .. size - 1 -> V],
         NEW tail \in 0 .. size - 1, NEW head \in 0 .. size - 1
  PROVE  head # tail => Held(buf, tail, head, size)
           = <<buf[After(tail, size)]>> \o Held(buf, After(tail, size), head, size)
<1> DEFINE n == Span(tail, head, size)
           held == Held(buf, tail, head, size)
           rest == Held(buf, After(tail, size), head, size)
           e == buf[After(tail, size)]
<1>4. /\ held \in Seq(V) /\ Len(held) = n
      /\ \A i \in 1 .. n : held[i] = buf[Place(tail, i, size)]
  <2>1. HoldsWhatLies(V, buf, tail, head, size)
    BY HeldSeq
  <2> QED
    BY <2>1 DEF HoldsWhatLies
<1> HAVE head # tail
<1>1. n \in 1 .. size - 1 /\ After(tail, size) \in 0 .. size - 1 /\ e \in V
  <2>1. Span(tail, head, size) = IF head >= tail THEN head - tail ELSE head - tail + size
    BY HeldIs
  <2>2. n \in 1 .. size - 1
    BY <2>1
  <2>3. After(tail, size) \in 0 .. size - 1
    BY AfterIs
  <2> QED
    BY <2>2, <2>3
<1>2. Span(After(tail, size), head, size) = n - 1
  <2>1. After(tail, size) = IF tail = size - 1 THEN 0 ELSE tail + 1
    BY AfterIs
  <2>2. n = IF head >= tail THEN head - tail ELSE head - tail + size
    BY HeldIs
  <2>3. Span(After(tail, size), head, size)
          = IF head >= After(tail, size) THEN head - After(tail, size)
                                         ELSE head - After(tail, size) + size
    BY <1>1, HeldIs
  <2> HIDE DEF n
  <2> QED
    BY <2>1, <2>2, <2>3
<1>3. Place(tail, 1, size) = After(tail, size)
  BY DEF After, Place
<1>12. ASSUME NEW i \in 1 .. n - 1
       PROVE  Place(After(tail, size), i, size) = Place(tail, i + 1, size)
  <2>1. After(tail, size) = IF tail = size - 1 THEN 0 ELSE tail + 1
    BY AfterIs
  <2>2. i \in 0 .. size /\ i + 1 \in 0 .. size
    BY <1>1
  <2>3. Place(tail, i + 1, size)
          = IF tail + (i + 1) < size THEN tail + (i + 1) ELSE tail + (i + 1) - size
    BY <2>2, PlaceIs
  <2>4. Place(After(tail, size), i, size)
          = IF After(tail, size) + i < size THEN After(tail, size) + i
                                            ELSE After(tail, size) + i - size
    BY <1>1, <2>2, PlaceIs
  <2> HIDE DEF n
  <2> QED
    BY <2>1, <2>2, <2>3, <2>4
<1>5. /\ rest \in Seq(V) /\ Len(rest) = n - 1
      /\ \A i \in 1 .. n - 1 : rest[i] = buf[Place(After(tail, size), i, size)]
  <2>1. HoldsWhatLies(V, buf, After(tail, size), head, size)
    BY <1>1, HeldSeq
  <2> QED
    BY <1>2, <2>1 DEF HoldsWhatLies
<1> HIDE DEF n, held, rest, e
<1>6. <<e>> \in Seq(V) /\ Len(<<e>>) = 1 /\ <<e>>[1] = e
  BY <1>1
<1>7. /\ <<e>> \o rest \in Seq(V) /\ Len(<<e>> \o rest) = n
      /\ \A i \in 1 .. n : (<<e>> \o rest)[i] = IF i <= 1 THEN <<e>>[i] ELSE rest[i - 1]
  BY <1>1, <1>5, <1>6, ConcatProperties
<1>8. held[1] = e
  BY <1>1, <1>3, <1>4 DEF e
<1>9. ASSUME NEW i \in 2 .. n PROVE held[i] = rest[i - 1]
  <2>1. i - 1 \in 1 .. n - 1 /\ (i - 1) + 1 = i /\ i \in 1 .. n
    BY <1>1
  <2> DEFINE k == i - 1
  <2>2. k \in 1 .. n - 1 /\ k + 1 = i
    BY <2>1
  <2> HIDE DEF k
  <2>3. rest[k] = buf[Place(After(tail, size), k, size)]
    BY <1>5, <2>2
  <2>4. Place(After(tail, size), k, size) = Place(tail, i, size)
    BY <1>12, <2>2
  <2>5. held[i] = buf[Place(tail, i, size)]
    BY <1>4, <2>1
  <2>6. held[i] = rest[k]
    BY <2>3, <2>4, <2>5
  <2> QED
    BY <2>6 DEF k
<1>10. \A i \in 1 .. Len(held) : held[i] = (<<e>> \o rest)[i]
  BY <1>1, <1>4, <1>6, <1>7, <1>8, <1>9
<1>11. held = <<e>> \o rest
  BY <1>4, <1>7, <1>10, SeqEqual
<1> QED
  BY <1>11 DEF held, rest, e

-----------------------------------------------------------------------------
(* A ring between what was put in and what was taken out *)

Ring(buf, tail, head, size, in, out) ==
  /\ tail \in 0 .. size - 1 /\ head \in 0 .. size - 1
  /\ \E V : buf \in [0 .. size - 1 -> V] /\ out \in Seq(V)
  /\ in = out \o Held(buf, tail, head, size)

LEMMA SeqOfMore ==
  ASSUME NEW V, NEW W, V \subseteq W, NEW s \in Seq(V)
  PROVE  s \in Seq(W)
<1>1. s \in [1 .. Len(s) -> V] /\ Len(s) \in Nat
  OBVIOUS
<1>2. s = [i \in 1 .. Len(s) |-> s[i]] /\ \A i \in 1 .. Len(s) : s[i] \in W
  BY <1>1
<1>3. [i \in 1 .. Len(s) |-> s[i]] \in Seq(W)
  BY <1>1, <1>2, IsASeq
<1> QED
  BY <1>2, <1>3

\* An element is written behind the head.
LEMMA RingWrites ==
  ASSUME NEW size \in Nat \ {0, 1}, NEW buf, NEW tail, NEW head, NEW in, NEW out, NEW e,
         Ring(buf, tail, head, size, in, out)
  PROVE  Ring([buf EXCEPT ![After(head, size)] = e], tail, head, size, in, out)
<1> DEFINE written2 == Written(buf, head, size, e)
<1>1. tail \in 0 .. size - 1 /\ head \in 0 .. size - 1
  BY DEF Ring
<1>2. PICK V : buf \in [0 .. size - 1 -> V] /\ out \in Seq(V)
  BY DEF Ring
<1>3. PICK W : buf \in [0 .. size - 1 -> W] /\ out \in Seq(W) /\ e \in W
  <2>1. V \subseteq V \cup {e}
    OBVIOUS
  <2>2. out \in Seq(V \cup {e})
    BY <1>2, <2>1, SeqOfMore
  <2>3. buf \in [0 .. size - 1 -> V \cup {e}] /\ e \in V \cup {e}
    BY <1>2
  <2> QED
    BY <2>2, <2>3
<1>4. Held(written2, tail, head, size) = Held(buf, tail, head, size)
  BY <1>1, <1>3, WriteBehind
<1>5. written2 \in [0 .. size - 1 -> W]
  BY <1>3 DEF Written
<1>6. in = out \o Held(written2, tail, head, size)
  BY <1>4 DEF Ring
<1> HIDE DEF written2
<1>7. Ring(written2, tail, head, size, in, out)
  BY <1>1, <1>3, <1>5, <1>6 DEF Ring
<1> QED
  BY <1>7 DEF written2, Written

\* The head moves on: what is written there counts as put in.
LEMMA RingTakesIn ==
  ASSUME NEW size \in Nat \ {0, 1}, NEW buf, NEW tail, NEW head, NEW in, NEW out,
         Ring(buf, tail, head, size, in, out), After(head, size) # tail
  PROVE  Ring(buf, tail, After(head, size), size, Append(in, buf[After(head, size)]), out)
<1> DEFINE held == Held(buf, tail, head, size)
           e == buf[After(head, size)]
<1>1. tail \in 0 .. size - 1 /\ head \in 0 .. size - 1
  BY DEF Ring
<1>2. PICK V : buf \in [0 .. size - 1 -> V] /\ out \in Seq(V)
  BY DEF Ring
<1>3. After(head, size) \in 0 .. size - 1
  BY <1>1, AfterIs
<1>4. HoldsWhatLies(V, buf, tail, head, size)
  BY <1>1, <1>2, HeldSeq
<1>5. held \in Seq(V) /\ e \in V
  BY <1>2, <1>3, <1>4 DEF HoldsWhatLies
<1>6. Held(buf, tail, After(head, size), size) = Append(held, e)
  BY <1>1, <1>2, HeadMoves
<1>7. in = out \o held
  BY DEF Ring
<1> HIDE DEF held, e
<1>8. <<e>> \in Seq(V) /\ out \o held \in Seq(V)
  BY <1>2, <1>5, ConcatProperties
<1>9. Append(in, e) = (out \o held) \o <<e>> /\ Append(held, e) = held \o <<e>>
  BY <1>5, <1>7, <1>8, AppendIsConcat
<1>10. (out \o held) \o <<e>> = out \o (held \o <<e>>)
  <2> DEFINE one == <<e>>
  <2>1. out \in Seq(V) /\ held \in Seq(V) /\ one \in Seq(V)
    BY <1>2, <1>5, <1>8
  <2> HIDE DEF one
  <2>2. (out \o held) \o one = out \o (held \o one)
    BY <2>1, ConcatAssociative
  <2> QED
    BY <2>2 DEF one
<1>11. Append(in, e) = out \o Held(buf, tail, After(head, size), size)
  BY <1>6, <1>9, <1>10
<1> QED
  BY <1>1, <1>2, <1>3, <1>11 DEF Ring, e

\* The tail moves on: what lies there counts as taken out.
LEMMA RingGivesOut ==
  ASSUME NEW size \in Nat \ {0, 1}, NEW buf, NEW tail, NEW head, NEW in, NEW out,
         Ring(buf, tail, head, size, in, out), head # tail
  PROVE  Ring(buf, After(tail, size), head, size, in, Append(out, buf[After(tail, size)]))
<1> DEFINE rest == Held(buf, After(tail, size), head, size)
           e == buf[After(tail, size)]
<1>1. tail \in 0 .. size - 1 /\ head \in 0 .. size - 1
  BY DEF Ring
<1>2. PICK V : buf \in [0 .. size - 1 -> V] /\ out \in Seq(V)
  BY DEF Ring
<1>3. After(tail, size) \in 0 .. size - 1
  BY <1>1, AfterIs
<1>4. HoldsWhatLies(V, buf, After(tail, size), head, size)
  BY <1>1, <1>2, <1>3, HeldSeq
<1>5. rest \in Seq(V) /\ e \in V
  BY <1>2, <1>3, <1>4 DEF HoldsWhatLies
<1>6. Held(buf, tail, head, size) = <<e>> \o rest
  BY <1>1, <1>2, TailMoves
<1>7. in = out \o (<<e>> \o rest)
  BY <1>6 DEF Ring
<1> HIDE DEF rest, e
<1>8. <<e>> \in Seq(V) /\ Append(out, e) \in Seq(V)
  BY <1>2, <1>5, AppendProperties
<1>9. Append(out, e) = out \o <<e>>
  BY <1>2, <1>5, AppendIsConcat
<1>10. (out \o <<e>>) \o rest = out \o (<<e>> \o rest)
  BY <1>2, <1>5, <1>8, ConcatAssociative
<1>11. in = Append(out, e) \o rest
  BY <1>7, <1>9, <1>10
<1> QED
  <2>1. \E W : buf \in [0 .. size - 1 -> W] /\ Append(out, e) \in Seq(W)
    BY <1>2, <1>8
  <2>2. Ring(buf, After(tail, size), head, size, in, Append(out, e))
    BY <1>1, <1>3, <1>11, <2>1 DEF Ring, rest
  <2> QED
    BY <2>2 DEF e

-----------------------------------------------------------------------------
(* The inductive invariant *)

CallShape == call = [at |-> call.at, byte |-> call.byte, error |-> call.error]

\* What uart_getc has read, or uart_putc stored, is still in its place: the interrupt
\* routines move the other end of the ring only, and never past this one.
CallHolds ==
  /\ call.at = "read" => rxHead # rxTail /\ call.byte = rxBuf[After(rxTail, RxSize)]
  /\ call.at = "stored" => /\ After(txHead, TxSize) # txTail
                          /\ txBuf[After(txHead, TxSize)] = call.byte

RxRing == Ring(rxBuf, rxTail, rxHead, RxSize, arrived, taken)
TxRing == Ring(txBuf, txTail, txHead, TxSize, written, sent)

SerialInv == RxRing /\ TxRing /\ CallShape /\ CallHolds /\ TransmitterAwake

LEMMA AfterInjective ==
  ASSUME NEW size \in Nat \ {0, 1}, NEW i \in 0 .. size - 1, NEW j \in 0 .. size - 1, i # j
  PROVE  After(i, size) # After(j, size)
<1>1. /\ After(i, size) = IF i = size - 1 THEN 0 ELSE i + 1
      /\ After(j, size) = IF j = size - 1 THEN 0 ELSE j + 1
  BY AfterIs
<1> QED
  BY <1>1

LEMMA Sizes == RxSize \in Nat \ {0, 1} /\ TxSize \in Nat \ {0, 1}
  BY UartAssumption

LEMMA SerialInvInit == Init => SerialInv
<1> SUFFICES ASSUME Init PROVE SerialInv
  OBVIOUS
<1>1. ASSUME NEW size \in Nat \ {0, 1}
      PROVE  Ring([i \in 0 .. size - 1 |-> 0], 0, 0, size, <<>>, <<>>)
  <2> DEFINE buf == [i \in 0 .. size - 1 |-> 0]
  <2>1. buf \in [0 .. size - 1 -> {0}] /\ <<>> \in Seq({0}) /\ 0 \in 0 .. size - 1
    OBVIOUS
  <2>2. Span(0, 0, size) = 0
    BY <2>1, HeldIs
  <2> HIDE DEF buf
  <2>3. HoldsWhatLies({0}, buf, 0, 0, size)
    BY <2>1, HeldSeq
  <2>4. Held(buf, 0, 0, size) = <<>>
    BY <2>2, <2>3 DEF HoldsWhatLies
  <2>5. Ring(buf, 0, 0, size, <<>>, <<>>)
    BY <2>1, <2>4 DEF Ring
  <2> QED
    BY <2>5 DEF buf
<1>2. RxRing /\ TxRing
  BY <1>1, Sizes DEF Init, UartInit, RxRing, TxRing
<1>3. CallShape /\ CallHolds /\ TransmitterAwake
  BY DEF Init, UartInit, NoCall, CallShape, CallHolds, TransmitterAwake
<1> QED
  BY <1>2, <1>3 DEF SerialInv

-----------------------------------------------------------------------------
(* The steps of the serial port *)

LEMMA ReceiveKeeps ==
  ASSUME SerialInv, NEW byte, NEW errors, ReceiveInterrupt(byte, errors)
  PROVE  SerialInv'
<1>1. CASE Overflow(byte, errors)
  BY <1>1 DEF SerialInv, RxRing, TxRing, CallShape, CallHolds, TransmitterAwake,
              ReceiveInterrupt, Overflow, transmitter
<1>2. CASE Store(byte, errors)
  <2> DEFINE place == After(rxHead, RxSize)
             stored == [rxBuf EXCEPT ![place] = byte]
  <2>1. /\ rxHead' = place /\ rxBuf' = stored /\ rxTail' = rxTail /\ taken' = taken
        /\ arrived' = Append(arrived, byte) /\ place # rxTail
        /\ call' = call /\ transmitter' = transmitter
    BY <1>2 DEF Store, ReceiveInterrupt
  <2>2. /\ RxRing /\ TxRing /\ CallShape /\ CallHolds /\ TransmitterAwake
        /\ rxTail \in 0 .. RxSize - 1 /\ rxHead \in 0 .. RxSize - 1
    BY DEF SerialInv, RxRing, Ring
  <2>3. PICK V : rxBuf \in [0 .. RxSize - 1 -> V]
    BY <2>2 DEF RxRing, Ring
  <2>4. place \in 0 .. RxSize - 1 /\ After(rxTail, RxSize) \in 0 .. RxSize - 1
    BY <2>2, Sizes, AfterIs
  <2>5. stored[place] = byte /\ \A i \in 0 .. RxSize - 1 : i # place => stored[i] = rxBuf[i]
    BY <2>3, <2>4
  <2>6. Ring(stored, rxTail, rxHead, RxSize, arrived, taken)
    BY <2>2, Sizes, RingWrites DEF RxRing
  <2> HIDE DEF stored
  <2>7. Ring(stored, rxTail, place, RxSize, Append(arrived, stored[place]), taken)
    BY <2>1, <2>6, Sizes, RingTakesIn
  <2>8. RxRing'
    BY <2>1, <2>5, <2>7 DEF RxRing
  <2>9. rxHead # rxTail => After(rxTail, RxSize) # place
    BY <2>2, Sizes, AfterInjective
  <2>10. call.at = "read" => stored[After(rxTail, RxSize)] = rxBuf[After(rxTail, RxSize)]
    BY <2>2, <2>4, <2>5, <2>9 DEF CallHolds
  <2>11. CallHolds'
    BY <2>1, <2>2, <2>10 DEF CallHolds, transmitter
  <2> QED
    BY <2>1, <2>2, <2>8, <2>11 DEF SerialInv, TxRing, CallShape, TransmitterAwake, transmitter
<1> QED
  BY <1>1, <1>2 DEF ReceiveInterrupt

LEMMA TransmitKeeps ==
  ASSUME SerialInv, TransmitInterrupt
  PROVE  SerialInv'
<1>1. /\ RxRing /\ TxRing /\ CallShape /\ CallHolds /\ TransmitterAwake
      /\ txTail \in 0 .. TxSize - 1 /\ txHead \in 0 .. TxSize - 1
  BY DEF SerialInv, TxRing, Ring
<1>2. CASE txHead = txTail
  BY <1>1, <1>2 DEF SerialInv, RxRing, TxRing, CallShape, CallHolds, TransmitterAwake,
                    TransmitInterrupt, receiver
<1>3. CASE txHead # txTail
  <2>1. /\ txTail' = After(txTail, TxSize) /\ sent' = Append(sent, txBuf[After(txTail, TxSize)])
        /\ udrie /\ udrie' = udrie /\ txBuf' = txBuf /\ txHead' = txHead
        /\ written' = written /\ call' = call /\ receiver' = receiver
    BY <1>3 DEF TransmitInterrupt
  <2>2. TxRing'
    BY <1>1, <1>3, <2>1, Sizes, RingGivesOut DEF TxRing
  <2>3. After(txHead, TxSize) # After(txTail, TxSize)
    BY <1>1, <1>3, Sizes, AfterInjective
  <2>4. CallHolds'
    BY <1>1, <2>1, <2>3 DEF CallHolds, receiver
  <2> QED
    BY <1>1, <2>1, <2>2, <2>4 DEF SerialInv, RxRing, CallShape, TransmitterAwake, receiver
<1> QED
  BY <1>2, <1>3

LEMMA GetcKeeps ==
  ASSUME SerialInv, GetcRead \/ GetcAdvance \/ GetcReturn
  PROVE  SerialInv'
<1>1. RxRing /\ TxRing /\ CallShape /\ CallHolds /\ TransmitterAwake
  BY DEF SerialInv
<1>2. CASE GetcRead
  BY <1>1, <1>2 DEF SerialInv, RxRing, TxRing, CallShape, CallHolds, TransmitterAwake,
                    GetcRead, NoCall, receiver, transmitter
<1>3. CASE GetcAdvance
  <2>1. /\ rxHead # rxTail /\ call.byte = rxBuf[After(rxTail, RxSize)] /\ call.at = "read"
        /\ call'.at = "advanced" /\ CallShape'
    BY <1>1, <1>3 DEF GetcAdvance, CallHolds, CallShape
  <2>2. RxRing'
    BY <1>1, <1>3, <2>1, Sizes, RingGivesOut DEF RxRing, GetcAdvance
  <2> QED
    BY <1>1, <1>3, <2>1, <2>2
       DEF SerialInv, TxRing, CallHolds, TransmitterAwake, GetcAdvance, transmitter
<1>4. CASE GetcReturn
  BY <1>1, <1>4 DEF SerialInv, RxRing, TxRing, CallShape, CallHolds, TransmitterAwake,
                    GetcReturn, NoCall, transmitter
<1> QED
  BY <1>2, <1>3, <1>4

LEMMA PutcKeeps ==
  ASSUME SerialInv, (\E byte : PutcStore(byte)) \/ PutcPublish \/ PutcEnable
  PROVE  SerialInv'
<1>1. /\ RxRing /\ TxRing /\ CallShape /\ CallHolds /\ TransmitterAwake
      /\ txTail \in 0 .. TxSize - 1 /\ txHead \in 0 .. TxSize - 1
  BY DEF SerialInv, TxRing, Ring
<1>2. ASSUME NEW byte, PutcStore(byte) PROVE SerialInv'
  <2> DEFINE place == After(txHead, TxSize)
             stored == [txBuf EXCEPT ![place] = byte]
  <2>1. /\ call = NoCall /\ place # txTail /\ txBuf' = stored
        /\ call' = [at |-> "stored", byte |-> byte, error |-> {}]
        /\ txHead' = txHead /\ txTail' = txTail /\ udrie' = udrie
        /\ written' = written /\ sent' = sent /\ receiver' = receiver
    BY <1>2 DEF PutcStore
  <2>2. PICK V : txBuf \in [0 .. TxSize - 1 -> V]
    BY <1>1 DEF TxRing, Ring
  <2>3. place \in 0 .. TxSize - 1
    BY <1>1, Sizes, AfterIs
  <2>4. stored[place] = byte
    BY <2>2, <2>3
  <2>5. Ring(stored, txTail, txHead, TxSize, written, sent)
    BY <1>1, Sizes, RingWrites DEF TxRing
  <2> HIDE DEF stored
  <2>6. TxRing'
    BY <2>1, <2>5 DEF TxRing
  <2>7. CallShape' /\ CallHolds'
    BY <2>1, <2>4 DEF CallShape, CallHolds
  <2>8. RxRing' /\ TransmitterAwake'
    BY <1>1, <2>1 DEF RxRing, TransmitterAwake, receiver, NoCall
  <2> QED
    BY <2>6, <2>7, <2>8 DEF SerialInv
<1>3. CASE PutcPublish
  <2>1. /\ After(txHead, TxSize) # txTail /\ txBuf[After(txHead, TxSize)] = call.byte
        /\ call'.at = "published" /\ CallShape'
    BY <1>1, <1>3 DEF PutcPublish, CallHolds, CallShape
  <2>2. TxRing'
    BY <1>1, <1>3, <2>1, Sizes, RingTakesIn DEF TxRing, PutcPublish
  <2> QED
    BY <1>1, <1>3, <2>1, <2>2
       DEF SerialInv, RxRing, CallHolds, TransmitterAwake, PutcPublish, receiver
<1>4. CASE PutcEnable
  BY <1>1, <1>4 DEF SerialInv, RxRing, TxRing, CallShape, CallHolds, TransmitterAwake,
                    PutcEnable, NoCall, receiver
<1> QED
  BY <1>2, <1>3, <1>4

LEMMA StandingKeeps ==
  ASSUME SerialInv, UNCHANGED uart
  PROVE  SerialInv'
  BY DEF SerialInv, RxRing, TxRing, CallShape, CallHolds, TransmitterAwake,
         uart, receiver, transmitter

-----------------------------------------------------------------------------
(* Every step of the board is one of these *)

\* The main program, the line and the other routines use the port by its operations only.
LEMMA StepsOfThePort ==
  ASSUME Next
  PROVE  \/ UNCHANGED uart
         \/ \E byte, errors : ReceiveInterrupt(byte, errors)
         \/ TransmitInterrupt
         \/ GetcRead \/ GetcAdvance \/ GetcReturn
         \/ (\E byte : PutcStore(byte)) \/ PutcPublish \/ PutcEnable
<1>1. CASE Getc \/ GetcError
  BY <1>1 DEF Getc, GetcError
<1>2. CASE NoData
  BY <1>2 DEF NoData
<1>3. CASE ParseCommand \/ ParseData \/ ParseEscape \/ ParseUnexpected \/ ParseStart
  BY <1>3 DEF ParseCommand, ParseData, ParseEscape, ParseUnexpected, ParseStart, GetcByte
<1>4. CASE NotHandled \/ HandledByNobody \/ Identify \/ HandleSilently \/ HandleTemperature
           \/ HandleI2C
  BY <1>4 DEF NotHandled, HandledByNobody, Identify, HandleSilently, HandleTemperature,
              HandleI2C, ParseEnd, GetcByte
<1>5. CASE I2c
  BY <1>5 DEF I2c, I2cStartWait, I2cWrite, I2cRepStart, I2cRead, I2cStop, Here
<1>6. CASE Putc
  BY <1>6 DEF Putc
<1>7. CASE Loop
  BY <1>7 DEF Loop, NoInterrupts, LoadCounter, StoreCounter, NoCode, SendCode, ResetCode,
              Elsewhere
<1>8. CASE Arrive \/ ArriveDamaged
  BY <1>8 DEF Arrive, ArriveDamaged
<1>9. CASE DataRegisterEmpty
  BY <1>9 DEF DataRegisterEmpty
<1>10. CASE HostSends \/ PinChange \/ CodeReceived
  BY <1>10 DEF HostSends, PinChange, CodeReceived
<1> QED
  BY <1>1, <1>2, <1>3, <1>4, <1>5, <1>6, <1>7, <1>8, <1>9, <1>10
     DEF Next, Main, Parse, Environment

LEMMA SerialStep ==
  ASSUME SerialInv, [Next]_vars
  PROVE  SerialInv'
<1>1. CASE UNCHANGED vars
  <2>1. UNCHANGED uart
    BY <1>1 DEF vars
  <2> QED
    BY <2>1, StandingKeeps
<1>2. CASE Next
  <2>1. CASE UNCHANGED uart
    BY <2>1, StandingKeeps
  <2>2. CASE \E byte, errors : ReceiveInterrupt(byte, errors)
    BY <2>2, ReceiveKeeps
  <2>3. CASE TransmitInterrupt
    BY <2>3, TransmitKeeps
  <2>4. CASE GetcRead \/ GetcAdvance \/ GetcReturn
    BY <2>4, GetcKeeps
  <2>5. CASE (\E byte : PutcStore(byte)) \/ PutcPublish \/ PutcEnable
    BY <2>5, PutcKeeps
  <2> QED
    BY <1>2, <2>1, <2>2, <2>3, <2>4, <2>5, StepsOfThePort
<1> QED
  BY <1>1, <1>2

\* For rings of any size, whatever the host sends, the line damages and the other
\* routines and handlers do: the rings neither lose, repeat nor reorder a byte, and no
\* byte waits to be sent without the interrupt that sends it.
THEOREM RingsKeepBytes == Spec => []BytesComeThrough
<1>1. Init => SerialInv
  BY SerialInvInit
<1>2. SerialInv /\ [Next]_vars => SerialInv'
  BY SerialStep
<1>3. SerialInv => BytesComeThrough
  BY DEF SerialInv, RxRing, TxRing, Ring, Received, ToSend, BytesInOrder, BytesComeThrough
<1> QED
  BY <1>1, <1>2, <1>3, PTL DEF Spec

-----------------------------------------------------------------------------
(* The changes of a pin that are still to be reported *)

\* The counter holds no more than there were changes, so it does not wrap around; and
\* what the main program read of it, while it decrements it, is one of its values.
ChangesCounted ==
  /\ changes \in 0 .. MaxChanges
  /\ commonInterruptPacketDispatch \in 0 .. changes
  /\ pc = "decrement" => loaded \in 1 .. changes
  /\ next # "decrement"
  /\ NoChangeForgotten

LEMMA ChangesInit == Init => ChangesCounted
  BY FirmwareAssumption DEF Init, ChangesCounted, NoChangeForgotten

\* The main program is at the decrement after LoadCounter only; every other step that
\* leaves the counter alone keeps what is said of it.
LEMMA ElsewhereKeeps ==
  ASSUME ChangesCounted, UNCHANGED interrupts, next' # "decrement",
         (pc' = "decrement") <=> (pc = "decrement")
  PROVE  ChangesCounted'
  BY DEF ChangesCounted, NoChangeForgotten, interrupts

\* Where a step leaves the main program, if it leaves the counter alone.
Stays == UNCHANGED <<pc, next>>
Goes == next' # "decrement" /\ pc # "decrement" /\ pc' # "decrement"

LEMMA ParserGoes ==
  ASSUME ChangesCounted, Parse
  PROVE  UNCHANGED interrupts /\ (Stays \/ Goes)
<1>1. CASE ParseCommand \/ ParseData \/ ParseEscape \/ ParseStart
  BY <1>1 DEF ParseCommand, ParseData, ParseEscape, ParseStart, Stays, main
<1>2. CASE ParseUnexpected
  BY <1>2 DEF ParseUnexpected, GetcByte, Transmit, Goes
<1>3. CASE NotHandled
  BY <1>3 DEF NotHandled, ParseEnd, GetcByte, Transmit, Goes
<1>4. CASE HandledByNobody
  BY <1>4 DEF HandledByNobody, ParseEnd, GetcByte, Goes, ChangesCounted
<1>5. CASE Identify
  BY <1>5 DEF Identify, ParseEnd, GetcByte, Transmit, Goes
<1>6. CASE HandleSilently
  BY <1>6 DEF HandleSilently, ParseEnd, GetcByte, Goes, ChangesCounted
<1>7. CASE HandleTemperature
  BY <1>7 DEF HandleTemperature, ParseEnd, GetcByte, Transmit, Goes, ChangesCounted
<1>8. CASE HandleI2C
  BY <1>8 DEF HandleI2C, ParseEnd, GetcByte, Goes, ChangesCounted
<1> QED
  BY <1>1, <1>2, <1>3, <1>4, <1>5, <1>6, <1>7, <1>8 DEF Parse

LEMMA BusGoes ==
  ASSUME ChangesCounted, I2c
  PROVE  UNCHANGED interrupts /\ (Stays \/ Goes)
<1>1. CASE I2cStartWait \/ I2cWrite \/ I2cRepStart
  BY <1>1 DEF I2cStartWait, I2cWrite, I2cRepStart, Here, Goes, ChangesCounted
<1>2. CASE I2cRead
  BY <1>2 DEF I2cRead, Here, Stays, Goes, ChangesCounted
<1>3. CASE I2cStop
  BY <1>3 DEF I2cStop, Here, Transmit, Goes, ChangesCounted
<1> QED
  BY <1>1, <1>2, <1>3 DEF I2c

LEMMA TurnsGo ==
  ASSUME ChangesCounted, NEW kind \in {"rc", "ir"},
         NoCode(kind) \/ SendCode(kind) \/ ResetCode(kind)
  PROVE  UNCHANGED interrupts /\ Goes
<1>1. /\ Following[kind] # "decrement"
      /\ Reset[kind] \notin {"decrement", "transmit"} /\ kind # "decrement"
  BY DEF Following, Reset
<1>2. CASE NoCode(kind)
  BY <1>1, <1>2 DEF NoCode, Goes, ChangesCounted
<1>3. CASE SendCode(kind)
  BY <1>1, <1>3 DEF SendCode, Transmit, Goes
<1>4. CASE ResetCode(kind)
  BY <1>1, <1>4 DEF ResetCode, Goes, ChangesCounted
<1> QED
  BY <1>2, <1>3, <1>4

LEMMA ChangesStep ==
  ASSUME ChangesCounted, [Next]_vars, MaxChanges < 256
  PROVE  ChangesCounted'
<1> DEFINE Uncounted == UNCHANGED interrupts /\ (Stays \/ Goes)
<1>a. ASSUME Uncounted PROVE ChangesCounted'
  BY <1>a, ElsewhereKeeps DEF Stays, Goes, ChangesCounted
<1>b. MaxChanges \in Nat
  BY FirmwareAssumption
<1>1. CASE UNCHANGED vars
  BY <1>1, <1>a DEF vars, main, Stays
<1>2. CASE Getc \/ Arrive \/ ArriveDamaged \/ DataRegisterEmpty \/ HostSends \/ CodeReceived
  BY <1>2, <1>a DEF Getc, Arrive, ArriveDamaged, DataRegisterEmpty, HostSends, CodeReceived,
                    main, Stays
<1>3. CASE NoData \/ GetcError
  BY <1>3, <1>a DEF NoData, GetcError, Transmit, Goes, ChangesCounted
<1>4. CASE Parse \/ I2c
  BY <1>4, <1>a, ParserGoes, BusGoes
<1>5. CASE Putc
  BY <1>5, <1>a DEF Putc, main, Stays, Goes, ChangesCounted
<1>6. CASE NoInterrupts
  BY <1>6, <1>a DEF NoInterrupts, Elsewhere, Goes, ChangesCounted
<1>7. CASE LoadCounter
  BY <1>7, <1>b DEF LoadCounter, ChangesCounted, NoChangeForgotten
<1>8. CASE StoreCounter
  BY <1>8, <1>b DEF StoreCounter, Transmit, ChangesCounted, NoChangeForgotten
<1>9. CASE \E kind \in {"rc", "ir"} : NoCode(kind) \/ SendCode(kind) \/ ResetCode(kind)
  BY <1>9, <1>a, TurnsGo
<1>10. CASE PinChange
  <2>1. commonInterruptPacketDispatch \in 0 .. changes /\ changes \in Nat /\ changes < 255
    BY <1>10, <1>b DEF PinChange, ChangesCounted
  <2>2. /\ commonInterruptPacketDispatch' = commonInterruptPacketDispatch + 1
        /\ changes' = changes + 1 /\ loaded' = loaded /\ pc' = pc /\ next' = next
        /\ changes' <= MaxChanges
    BY <1>10, <1>b, <2>1 DEF PinChange, main, ChangesCounted
  <2> QED
    BY <2>1, <2>2, <1>b DEF ChangesCounted, NoChangeForgotten
<1> QED
  BY <1>1, <1>2, <1>3, <1>4, <1>5, <1>6, <1>7, <1>8, <1>9, <1>10
     DEF Next, Main, Loop, Environment

\* However the pin's interrupts fall between the steps of the decrement, with rings of
\* any size and any traffic: while fewer than 256 changes have come, which is what the
\* counter of one byte tells apart, no change is left without a packet still to come.
THEOREM ChangesReported == MaxChanges < 256 => (Spec => []NoChangeForgotten)
<1> SUFFICES ASSUME MaxChanges < 256
             PROVE  Spec => []NoChangeForgotten
  OBVIOUS
<1>1. Init => ChangesCounted
  BY ChangesInit
<1>2. ChangesCounted /\ [Next]_vars => ChangesCounted'
  BY ChangesStep
<1>3. ChangesCounted => NoChangeForgotten
  BY DEF ChangesCounted
<1> QED
  BY <1>1, <1>2, <1>3, PTL DEF Spec
-----------------------------------------------------------------------------
(* The body of a frame: where its data and its escape bytes are *)

\* How many bytes the body of a frame has for n bytes of data, and how many bytes of data
\* are among the first b of a body: every block is followed by its escape byte.
Size(n) == n + (n + Block - 1) \div Block
Index(b) == b - b \div (Block + 1)

LEMMA BlockIs == Block \in {2, 3, 4, 5, 6, 7, 8}
<1>1. Block \in 2 .. 8
  BY FirmwareAssumption
<1> QED
  BY <1>1

\* Every byte of a body but the escape bytes is one more of the data; an escape byte is
\* due when they fill a block.
LEMMA IndexMoves ==
  ASSUME NEW b \in Nat
  PROVE  /\ Index(b) \in Nat /\ Index(b) <= b
         /\ b % (Block + 1) # Block =>
              /\ Index(b + 1) = Index(b) + 1
              /\ Index(b + 1) % Block = 0 <=> (b + 1) % (Block + 1) = Block
         /\ b % (Block + 1) = Block => Index(b + 1) = Index(b) /\ (b + 1) % (Block + 1) = 0
<1>2. CASE Block = 2
  BY <1>2 DEF Index
<1>3. CASE Block = 3
  BY <1>3 DEF Index
<1>4. CASE Block = 4
  BY <1>4 DEF Index
<1>5. CASE Block = 5
  BY <1>5 DEF Index
<1>6. CASE Block = 6
  BY <1>6 DEF Index
<1>7. CASE Block = 7
  BY <1>7 DEF Index
<1>8. CASE Block = 8
  BY <1>8 DEF Index
<1> QED
  BY BlockIs, <1>2, <1>3, <1>4, <1>5, <1>6, <1>7, <1>8

\* The last byte of a body is the escape byte of a block that is not full.
LEMMA BodyEnds ==
  ASSUME NEW n \in Nat, n % Block # 0
  PROVE  /\ Size(n) \in Nat /\ Size(n) > n /\ Index(Size(n)) = n + 1
         /\ (Size(n) - 1) % (Block + 1) # Block
         /\ \A b \in 0 .. Size(n) - 1 :
              /\ Index(b) <= n
              /\ b # Size(n) - 1 /\ b % (Block + 1) # Block => Index(b) < n
<1>2. CASE Block = 2
  BY <1>2 DEF Index, Size
<1>3. CASE Block = 3
  BY <1>3 DEF Index, Size
<1>4. CASE Block = 4
  BY <1>4 DEF Index, Size
<1>5. CASE Block = 5
  BY <1>5 DEF Index, Size
<1>6. CASE Block = 6
  BY <1>6 DEF Index, Size
<1>7. CASE Block = 7
  BY <1>7 DEF Index, Size
<1>8. CASE Block = 8
  BY <1>8 DEF Index, Size
<1> QED
  BY BlockIs, <1>2, <1>3, <1>4, <1>5, <1>6, <1>7, <1>8

\* The weights of the bits of a byte.
LEMMA Weights ==
  ASSUME NEW i \in 0 .. 7
  PROVE  2^i = CASE i = 0 -> 1 [] i = 1 -> 2 [] i = 2 -> 4 [] i = 3 -> 8
                 [] i = 4 -> 16 [] i = 5 -> 32 [] i = 6 -> 64 [] i = 7 -> 128
<1> DEFINE power(k) == 2^k
<1>1. /\ power(0) = 1 /\ power(1) = 2 /\ power(2) = 4 /\ power(3) = 8
      /\ power(4) = 16 /\ power(5) = 32 /\ power(6) = 64 /\ power(7) = 128
  OBVIOUS
<1>2. i \in {0, 1, 2, 3, 4, 5, 6, 7}
  OBVIOUS
<1> HIDE DEF power
<1>3. power(i) = CASE i = 0 -> 1 [] i = 1 -> 2 [] i = 2 -> 4 [] i = 3 -> 8
                   [] i = 4 -> 16 [] i = 5 -> 32 [] i = 6 -> 64 [] i = 7 -> 128
  BY <1>1, <1>2
<1> QED
  BY <1>3 DEF power

LEMMA NoBitOfZero ==
  ASSUME NEW i \in 0 .. 7
  PROVE  ~Bit(0, i)
<1>1. \A power \in Nat \ {0} : (0 \div power) % 2 = 0
  OBVIOUS
<1> DEFINE power == 2^i
<1>2. power = CASE i = 0 -> 1 [] i = 1 -> 2 [] i = 2 -> 4 [] i = 3 -> 8
                [] i = 4 -> 16 [] i = 5 -> 32 [] i = 6 -> 64 [] i = 7 -> 128
  BY Weights
<1>3. Bit(0, i) <=> (0 \div power) % 2 = 1
  BY DEF Bit
<1> HIDE DEF power
<1>4. power \in Nat \ {0}
  BY <1>2
<1> QED
  BY <1>1, <1>3, <1>4

\* An escape byte 0 marks nothing.
LEMMA NothingEscaped ==
  ASSUME NEW buffer, buffer = [k \in DOMAIN buffer |-> buffer[k]], DOMAIN buffer \subseteq Int,
         NEW end \in Int, NEW n \in 0 .. 8
  PROVE  Unescape(buffer, end, n, 0) = buffer
<1>1. ASSUME NEW k \in DOMAIN buffer, k < end, end - k <= n
      PROVE  ~Bit(0, end - k - 1)
  <2>1. end - k - 1 \in 0 .. 7
    BY <1>1
  <2> QED
    BY <2>1, NoBitOfZero
<1>2. Unescape(buffer, end, n, 0) = [k \in DOMAIN buffer |-> buffer[k]]
  BY <1>1 DEF Unescape
<1> QED
  BY <1>2

-----------------------------------------------------------------------------
(* The frame of a query *)

Framed(query) == Frame(query.command, query.data)

QueryOK(query) ==
  /\ query.command \in Attached /\ query.data \in Seq(Bytes \ {Delimiter})
  /\ query = [command |-> query.command, data |-> query.data]
  /\ Len(query.data) \in Nat /\ Len(query.data) < DataSize
  /\ Len(query.data) % Block # 0 \/ query.data = <<>>
  /\ query.command = CMB_I2C =>
       Len(query.data) > 3 /\ (query.data[1] \div 64 = 1 => query.data[4] > 0)

LEMMA QueriesOK == \A query \in Queries : QueryOK(query)
<1> SUFFICES ASSUME NEW query \in Queries PROVE QueryOK(query)
  OBVIOUS
<1>1. query \in [command : Attached, data : Seq(Bytes \ {Delimiter})]
  BY QueriesAssumption, Zenon
<1>2. /\ query.command \in Attached /\ query.data \in Seq(Bytes \ {Delimiter})
      /\ query = [command |-> query.command, data |-> query.data]
  BY <1>1
<1>3. Len(query.data) \in Nat
  BY <1>2, LenProperties
<1>5. /\ Len(query.data) % Block # 0 \/ query.data = <<>>
      /\ Len(query.data) < DataSize
      /\ query.command = CMB_I2C =>
           Len(query.data) > 3 /\ (query.data[1] \div 64 = 1 => query.data[4] > 0)
  BY QueriesAssumption, Zenon
<1> QED
  BY <1>2, <1>3, <1>5, Zenon DEF QueryOK

\* The bytes of a frame: two delimiters, which occur nowhere between them, the command,
\* and the body.
FrameShape(query) ==
  LET frame == Framed(query)
      n == Len(query.data)
  IN /\ frame \in Seq(Bytes) /\ Len(frame) = Size(n) + 3 /\ Size(n) \in Nat
     /\ frame[1] = Delimiter /\ frame[Size(n) + 3] = Delimiter
     /\ frame[2] = query.command /\ query.command # Delimiter
     /\ \A j \in 1 .. Size(n) :
          /\ frame[j + 2] = IF j % (Block + 1) = 0 \/ j = Size(n) THEN 0
                            ELSE query.data[Index(j)]
          /\ frame[j + 2] # Delimiter

LEMMA AttachedBytes ==
  ASSUME NEW code \in Attached
  PROVE  code \in 1 .. 254 /\ code \in Bytes
<1>1. code \in 1 .. 254
  BY DEF Attached, CMB_DEVICE_IDENTIFICATION, CMB_COMMON_INTERRUPT, CMB_I2C, RC_SWITCH,
         CMB_IR, CMB_DS18B20
<1>2. Bytes = 0 .. 255
  BY FirmwareAssumption
<1> QED
  BY <1>1, <1>2

LEMMA FramesShape ==
  ASSUME NEW query \in Queries
  PROVE  FrameShape(query)
<1> DEFINE n == Len(query.data)
           size == Size(n)
           byte(j) == IF j % (Block + 1) = 0 \/ j = size THEN 0 ELSE query.data[Index(j)]
           body == Body(query.data)
<1>1. QueryOK(query) /\ Bytes = 0 .. 255 /\ n \in Nat
  <2>1. QueryOK(query)
    BY QueriesOK
  <2>2. Bytes = 0 .. 255
    BY FirmwareAssumption
  <2> QED
    BY <2>1, <2>2 DEF QueryOK
<1>2. size \in Nat
  <2>1. CASE n = 0
    <3>1. (Block - 1) \div Block = 0
      BY BlockIs
    <3> QED
      BY <2>1, <3>1, BlockIs DEF Size
  <2>2. CASE n # 0
    <3>1. n % Block # 0
      BY <1>1, <2>2, EmptySeq DEF QueryOK
    <3> QED
      BY <1>1, <3>1, BodyEnds
  <2> QED
    BY <2>1, <2>2
<1>3. n = 0 => size = 0
  <2>1. (Block - 1) \div Block = 0
    BY BlockIs
  <2> QED
    BY <2>1, BlockIs DEF Size
<1>4. ASSUME NEW j \in 1 .. size PROVE byte(j) \in Bytes \ {Delimiter}
  <2>1. CASE j % (Block + 1) = 0 \/ j = size
    BY <1>1, <2>1 DEF Delimiter
  <2>2. CASE ~(j % (Block + 1) = 0 \/ j = size)
    <3>1. n % Block # 0
      BY <1>1, <1>3, <2>2, EmptySeq DEF QueryOK
    <3> DEFINE b == j - 1
    <3>2. b \in Nat /\ b \in 0 .. size - 1 /\ b # size - 1 /\ b + 1 = j
      BY <1>2, <2>2
    <3> HIDE DEF b
    <3>3. b % (Block + 1) # Block
      BY <2>2, <3>2, IndexMoves
    <3>4. Index(j) = Index(b) + 1 /\ Index(b) \in Nat
      BY <3>2, <3>3, IndexMoves
    <3>5. Index(b) < n
      BY <1>1, <3>1, <3>2, <3>3, BodyEnds
    <3>6. Index(j) \in 1 .. n
      BY <1>1, <3>4, <3>5
    <3> QED
      BY <1>1, <2>2, <3>6, ElementOfSeq DEF QueryOK
  <2> QED
    BY <2>1, <2>2
<1>5. body = [j \in 1 .. size |-> byte(j)]
  BY DEF Body, Size, Index
<1> HIDE DEF byte, body, size
<1>6. body \in Seq(Bytes) /\ Len(body) = size /\ \A j \in 1 .. size : body[j] = byte(j)
  <2>1. \A j \in 1 .. size : byte(j) \in Bytes
    BY <1>4
  <2>2. [j \in 1 .. size |-> byte(j)] \in Seq(Bytes)
    BY <1>2, <2>1, IsASeq
  <2>3. Len([j \in 1 .. size |-> byte(j)]) = size
    BY <1>2
  <2> QED
    BY <1>5, <2>2, <2>3
<1> DEFINE front == <<Delimiter, query.command>>
           back == <<Delimiter>>
<1>7. /\ front \in Seq(Bytes) /\ Len(front) = 2 /\ front[1] = Delimiter
      /\ front[2] = query.command
      /\ back \in Seq(Bytes) /\ Len(back) = 1 /\ back[1] = Delimiter
  <2>1. Delimiter \in Bytes /\ query.command \in Bytes
    BY <1>1, AttachedBytes DEF QueryOK, Delimiter
  <2> HIDE DEF Delimiter
  <2> QED
    BY <2>1
<1>17. query.command # Delimiter
  <2>1. query.command \in 1 .. 254
    BY <1>1, AttachedBytes DEF QueryOK
  <2> QED
    BY <2>1 DEF Delimiter
<1>8. Framed(query) = front \o body \o back
  BY DEF Framed, Frame, body
<1> HIDE DEF front, back
<1>9. /\ front \o body \in Seq(Bytes) /\ Len(front \o body) = 2 + size
      /\ \A j \in 1 .. 2 + size : (front \o body)[j] = IF j <= 2 THEN front[j] ELSE body[j - 2]
  <2>1. front \in Seq(Bytes) /\ body \in Seq(Bytes) /\ Len(front) = 2 /\ Len(body) = size
    BY <1>6, <1>7
  <2>2. /\ front \o body \in Seq(Bytes)
        /\ Len(front \o body) = Len(front) + Len(body)
        /\ \A j \in 1 .. Len(front) + Len(body) :
             (front \o body)[j] = IF j <= Len(front) THEN front[j] ELSE body[j - Len(front)]
    BY <2>1, ConcatProperties
  <2> QED
    BY <2>1, <2>2
<1>10. /\ Framed(query) \in Seq(Bytes) /\ Len(Framed(query)) = (2 + size) + 1
       /\ \A j \in 1 .. (2 + size) + 1 :
            Framed(query)[j] = IF j <= 2 + size THEN (front \o body)[j] ELSE back[j - (2 + size)]
  <2> DEFINE start == front \o body
  <2>1. start \in Seq(Bytes) /\ back \in Seq(Bytes) /\ Len(start) = 2 + size /\ Len(back) = 1
    BY <1>7, <1>9
  <2> HIDE DEF start
  <2>2. /\ start \o back \in Seq(Bytes)
        /\ Len(start \o back) = Len(start) + Len(back)
        /\ \A j \in 1 .. Len(start) + Len(back) :
             (start \o back)[j] = IF j <= Len(start) THEN start[j] ELSE back[j - Len(start)]
    BY <2>1, ConcatProperties
  <2>3. Framed(query) = start \o back
    BY <1>8 DEF start
  <2>4. /\ Framed(query) \in Seq(Bytes) /\ Len(Framed(query)) = (2 + size) + 1
        /\ \A j \in 1 .. (2 + size) + 1 :
             Framed(query)[j] = IF j <= 2 + size THEN start[j] ELSE back[j - (2 + size)]
    BY <2>1, <2>2, <2>3
  <2> QED
    BY <2>4 DEF start
<1>11. /\ Framed(query)[1] = Delimiter /\ Framed(query)[2] = query.command
       /\ Framed(query)[size + 3] = Delimiter
  <2>1. /\ 1 \in 1 .. (2 + size) + 1 /\ 2 \in 1 .. (2 + size) + 1 /\ 1 <= 2 + size
        /\ size + 3 \in 1 .. (2 + size) + 1 /\ ~(size + 3 <= 2 + size) /\ 2 <= 2 + size
        /\ (size + 3) - (2 + size) = 1 /\ 1 \in 1 .. 2 + size /\ 2 \in 1 .. 2 + size
    BY <1>2
  <2>2. Framed(query)[1] = (front \o body)[1] /\ Framed(query)[2] = (front \o body)[2]
    BY <1>10, <2>1
  <2>3. (front \o body)[1] = front[1] /\ (front \o body)[2] = front[2]
    BY <1>9, <2>1
  <2>4. Framed(query)[size + 3] = back[1]
    BY <1>10, <2>1
  <2> QED
    BY <1>7, <2>2, <2>3, <2>4
<1>12. ASSUME NEW j \in 1 .. size
       PROVE  Framed(query)[j + 2] = byte(j) /\ Framed(query)[j + 2] # Delimiter
  <2> DEFINE i == j + 2
  <2>1. i \in 1 .. 2 + size /\ i <= 2 + size /\ ~(i <= 2) /\ i - 2 = j /\ i \in 1 .. (2 + size) + 1
    BY <1>2
  <2> HIDE DEF i
  <2>2. Framed(query)[i] = body[j]
    <3>1. Framed(query)[i] = (front \o body)[i]
      BY <1>2, <1>10, <2>1
    <3>2. (front \o body)[i] = body[i - 2]
      BY <1>9, <2>1
    <3> QED
      BY <2>1, <3>1, <3>2
  <2>3. Framed(query)[i] = byte(j)
    BY <1>6, <2>2
  <2> QED
    BY <1>4, <2>3 DEF i
<1> QED
  BY <1>2, <1>10, <1>11, <1>12, <1>17 DEF FrameShape, byte, size

-----------------------------------------------------------------------------
(* The bytes of the queries, where the parser is among them, and what it holds there *)

\* What came in and what is still on the line, as long as nothing was damaged: the bytes
\* of all queries.
Total == Len(arrived) + Len(incoming)
Stream(i) == IF i <= Len(arrived) THEN arrived[i] ELSE incoming[i - Len(arrived)]

Typed ==
  /\ arrived \in Seq(Bytes) /\ incoming \in Seq(Bytes)
  /\ asked \in Seq(Queries) /\ handled \in Seq(Queries)
  /\ data \in [0 .. DataSize - 1 -> Bytes]

\* Frame by frame: starts[i] bytes are before the i-th.
Starts(starts) ==
  /\ starts \in [1 .. Len(asked) + 1 -> Nat]
  /\ starts[1] = 0 /\ starts[Len(asked) + 1] = Total
  /\ \A i, j \in 1 .. Len(asked) + 1 : i < j => starts[i] < starts[j]
  /\ \A i \in 1 .. Len(asked) :
       /\ starts[i + 1] = starts[i] + Len(Framed(asked[i]))
       /\ \A j \in 1 .. Len(Framed(asked[i])) : Stream(starts[i] + j) = Framed(asked[i])[j]

\* How many bytes the parser has had.
Parsed == IF call.at = "advanced" THEN Len(taken) - 1 ELSE Len(taken)

\* The parser within a frame: after its first delimiter, and after b bytes of the body.
AfterDelimiter == expect = "CMD"
WithinBody(query, b) ==
  /\ commandByte = query.command
  /\ dataIndex = Index(b)
  /\ expect = IF b % (Block + 1) = Block THEN "ESC" ELSE "DATA"
  /\ \A k \in 0 .. Index(b) - 1 :
       data[k] = IF k = Len(query.data) THEN 0 ELSE query.data[k + 1]
Within(query, q) ==
  /\ q < Size(Len(query.data)) + 3
  /\ q = 1 => AfterDelimiter
  /\ q > 1 => WithinBody(query, q - 2)

\* As many queries were handled as frames were parsed, and they are the first ones asked.
Delivered(starts) ==
  /\ Len(handled) <= Len(asked) /\ \A i \in 1 .. Len(handled) : handled[i] = asked[i]
  /\ Parsed >= starts[Len(handled) + 1]
  /\ Parsed = starts[Len(handled) + 1] => expect \in {"NOTHING", "CMD"}
  /\ Parsed > starts[Len(handled) + 1] =>
       /\ Len(handled) < Len(asked)
       /\ Within(asked[Len(handled) + 1], Parsed - starts[Len(handled) + 1])

\* uart_getc found no error, and returns what it took last.
Clean ==
  /\ lastRxError = {} /\ call.error = {}
  /\ call.at = "advanced" => Len(taken) > 0 /\ call.byte = taken[Len(taken)]

\* A chip that sends is told in time that enough was read.
Reading ==
  /\ pc # "crashed" /\ next \in {"getc", "rc", "rcReset", "irReset"}
  /\ pc \in {"readStart", "readRegister", "readBytes"} => data[3] > 0
  /\ pc \in {"readStart", "readRegister"} => readData = <<>>
  /\ pc = "readBytes" =>
       /\ \E V : readData \in Seq(V)
       /\ IF Len(readData) < data[3] THEN slave = "sending"
          ELSE Len(readData) = data[3] /\ slave = "listening"
  /\ pc = "readStop" => slave # "sending"
  /\ pc \in {"writeStart", "writeBytes"} => dataIndex \in 0 .. DataSize

Handling == Typed /\ Clean /\ Reading /\ \E starts : Starts(starts) /\ Delivered(starts)

HandlingInv == ~damaged => Handling

-----------------------------------------------------------------------------
\* What uart_getc returned are the first bytes that arrived.
TakenFirst ==
  /\ Len(taken) \in Nat /\ Len(taken) <= Len(arrived)
  /\ \A i \in 1 .. Len(taken) : taken[i] = arrived[i]
  /\ Received = <<>> => Len(taken) = Len(arrived)
  /\ \E V : taken \in Seq(V)

LEMMA TakenAreFirst ==
  ASSUME RxRing
  PROVE  TakenFirst
<1>1. PICK V : rxBuf \in [0 .. RxSize - 1 -> V] /\ taken \in Seq(V)
  BY DEF RxRing, Ring
<1>2. rxTail \in 0 .. RxSize - 1 /\ rxHead \in 0 .. RxSize - 1
  BY DEF RxRing, Ring
<1>3. Received \in Seq(V)
  <2>1. HoldsWhatLies(V, rxBuf, rxTail, rxHead, RxSize)
    BY <1>1, <1>2, HeldSeq, Sizes
  <2> QED
    BY <2>1 DEF HoldsWhatLies, Received
<1>4. arrived = taken \o Received
  BY DEF RxRing, Ring, Received
<1>5. /\ Len(arrived) = Len(taken) + Len(Received)
      /\ \A i \in 1 .. Len(taken) + Len(Received) :
           arrived[i] = IF i <= Len(taken) THEN taken[i] ELSE Received[i - Len(taken)]
  BY <1>1, <1>3, <1>4, ConcatProperties
<1>6. Len(taken) \in Nat /\ Len(Received) \in Nat
  BY <1>1, <1>3, LenProperties
<1>7. Received = <<>> => Len(Received) = 0
  BY EmptySeq
<1> QED
  BY <1>1, <1>5, <1>6, <1>7 DEF TakenFirst

LEMMA HandlingInit == Init => HandlingInv
<1> SUFFICES ASSUME Init PROVE Handling
  BY DEF HandlingInv
<1>1. /\ arrived = <<>> /\ incoming = <<>> /\ asked = <<>> /\ handled = <<>> /\ taken = <<>>
      /\ lastRxError = {} /\ call = NoCall /\ pc = "getc" /\ next = "getc"
      /\ data = [i \in 0 .. DataSize - 1 |-> 0] /\ expect = "NOTHING"
  BY DEF Init, UartInit
<1>2. 0 \in Bytes
  BY UartAssumption
<1>3. Typed
  BY <1>1, <1>2, EmptySeq DEF Typed
<1>4. Clean
  BY <1>1 DEF Clean, NoCall
<1>5. Reading
  BY <1>1 DEF Reading
<1>6. Len(arrived) = 0 /\ Len(incoming) = 0 /\ Len(asked) = 0 /\ Len(handled) = 0 /\ Len(taken) = 0
  BY <1>1
<1> DEFINE starts == [i \in {1} |-> 0]
<1>7. Starts(starts)
  BY <1>6 DEF Starts, Total
<1>8. Parsed = 0
  BY <1>1, <1>6 DEF Parsed, NoCall
<1>9. Delivered(starts)
  BY <1>1, <1>6, <1>8 DEF Delivered
<1> QED
  BY <1>3, <1>4, <1>5, <1>7, <1>9 DEF Handling

-----------------------------------------------------------------------------
(* Steps that leave the parser where it is *)

\* The bytes of the queries, and what was asked and handled.
flow == <<arrived, incoming, asked, handled>>

LEMMA FlowKeepsStarts ==
  ASSUME NEW starts, Starts(starts), UNCHANGED <<arrived, incoming, asked>>
  PROVE  Starts(starts)'
  BY DEF Starts, Total, Stream

LEMMA ParserKeepsDelivered ==
  ASSUME NEW starts, Delivered(starts), UNCHANGED <<asked, handled, parser>>, Parsed' = Parsed
  PROVE  Delivered(starts)'
  BY DEF Delivered, Within, WithinBody, AfterDelimiter, parser

\* No step but those of uart_getc, the receive interrupt and the host touches this.
LEMMA ElsewhereHandles ==
  ASSUME Handling, Reading', UNCHANGED <<flow, parser, taken, lastRxError>>,
         \/ UNCHANGED call
         \/ call.at # "advanced" /\ call'.at # "advanced" /\ call'.error = {}
  PROVE  Handling'
<1>1. PICK starts : Starts(starts) /\ Delivered(starts)
  BY DEF Handling
<1>2. Parsed' = Parsed
  BY DEF Parsed
<1>3. Starts(starts)' /\ Delivered(starts)'
  BY <1>1, <1>2, FlowKeepsStarts, ParserKeepsDelivered DEF flow
<1>4. Typed'
  BY DEF Handling, Typed, flow, parser
<1>5. Clean'
  BY DEF Handling, Clean
<1> QED
  BY <1>3, <1>4, <1>5 DEF Handling

LEMMA HostSendsHandles ==
  ASSUME Handling, HostSends
  PROVE  Handling'
<1>1. PICK query \in Queries : /\ asked' = Append(asked, query)
                               /\ incoming' = incoming \o Framed(query)
  BY DEF HostSends, Framed
<1>2. /\ UNCHANGED <<arrived, handled, parser, call, taken, lastRxError>>
      /\ UNCHANGED <<pc, next, slave, readData>>
  BY DEF HostSends, uart, receiver, main, bus
<1>3. Typed /\ Clean /\ Reading
  BY DEF Handling
<1>4. FrameShape(query)
  BY FramesShape
<1>5. PICK frame, size : frame = Framed(query) /\ frame \in Seq(Bytes) /\ Len(frame) = size
                         /\ size \in Nat /\ size > 0
  BY <1>4 DEF FrameShape
<1>6. PICK n, m, before, due :
        /\ n = Len(asked) /\ m = Len(handled) /\ before = Len(arrived) /\ due = Len(incoming)
        /\ n \in Nat /\ m \in Nat /\ before \in Nat /\ due \in Nat
  <2>1. /\ asked \in Seq(Queries) /\ handled \in Seq(Queries)
        /\ arrived \in Seq(Bytes) /\ incoming \in Seq(Bytes)
    BY <1>3 DEF Typed
  <2>2. /\ Len(asked) \in Nat /\ Len(handled) \in Nat
        /\ Len(arrived) \in Nat /\ Len(incoming) \in Nat
    BY <2>1, LenProperties
  <2> QED
    BY <2>2
<1>7. /\ asked' \in Seq(Queries) /\ Len(asked') = n + 1 /\ asked'[n + 1] = query
      /\ \A i \in 1 .. n : asked'[i] = asked[i] /\ asked[i] \in Queries
  BY <1>1, <1>3, <1>6, AppendProperties, ElementOfSeq DEF Typed
<1>8. /\ incoming' \in Seq(Bytes) /\ Len(incoming') = due + size
      /\ \A i \in 1 .. due + size :
           incoming'[i] = IF i <= due THEN incoming[i] ELSE frame[i - due]
  <2>1. incoming \in Seq(Bytes) /\ frame \in Seq(Bytes) /\ incoming' = incoming \o frame
    BY <1>1, <1>3, <1>5 DEF Typed
  <2>2. Len(incoming) = due /\ Len(frame) = size
    BY <1>5, <1>6
  <2> QED
    BY <2>1, <2>2, ConcatProperties
<1>9. PICK starts : Starts(starts) /\ Delivered(starts)
  BY DEF Handling
<1>10. PICK total \in Nat : total = Total /\ total = before + due
  BY <1>6 DEF Total
<1>11. /\ starts \in [1 .. n + 1 -> Nat] /\ starts[1] = 0 /\ starts[n + 1] = total
       /\ \A i, j \in 1 .. n + 1 : i < j => starts[i] < starts[j]
       /\ \A i \in 1 .. n :
            /\ starts[i + 1] = starts[i] + Len(Framed(asked[i]))
            /\ \A j \in 1 .. Len(Framed(asked[i])) : Stream(starts[i] + j) = Framed(asked[i])[j]
  BY <1>6, <1>9, <1>10 DEF Starts
<1>12. \A i \in 1 .. n + 1 : starts[i] <= total
  <2> SUFFICES ASSUME NEW i \in 1 .. n + 1 PROVE starts[i] <= total
    OBVIOUS
  <2>1. n + 1 \in 1 .. n + 1 /\ (i < n + 1 \/ i = n + 1)
    BY <1>6
  <2>2. i < n + 1 => starts[i] < starts[n + 1]
    BY <1>11, <2>1
  <2> QED
    BY <1>11, <2>1, <2>2
<1>13. PICK more : more = [i \in 1 .. n + 2 |-> IF i <= n + 1 THEN starts[i] ELSE total + size]
  OBVIOUS
<1>14. /\ more \in [1 .. n + 2 -> Nat] /\ more[n + 2] = total + size
       /\ \A i \in 1 .. n + 1 : more[i] = starts[i]
  BY <1>5, <1>6, <1>10, <1>11, <1>13
<1>15. /\ \A i \in 1 .. total : Stream(i)' = Stream(i)
       /\ \A j \in 1 .. size : Stream(total + j)' = frame[j]
  <2>1. ASSUME NEW i \in 1 .. total PROVE Stream(i)' = Stream(i)
    <3>1. CASE i <= before
      BY <1>2, <1>6, <3>1 DEF Stream
    <3>2. CASE ~(i <= before)
      <4>1. PICK k : k = i - before
        OBVIOUS
      <4>2. k \in 1 .. due /\ k \in 1 .. due + size /\ k <= due
        BY <1>5, <1>6, <1>10, <3>2, <4>1
      <4>3. incoming'[k] = incoming[k]
        BY <1>8, <4>2
      <4>4. Stream(i)' = incoming'[k] /\ Stream(i) = incoming[k]
        BY <1>2, <1>6, <3>2, <4>1 DEF Stream
      <4> QED
        BY <4>3, <4>4
    <3> QED
      BY <3>1, <3>2
  <2>2. ASSUME NEW j \in 1 .. size PROVE Stream(total + j)' = frame[j]
    <3>1. PICK k : k = due + j
      OBVIOUS
    <3>2. /\ k \in 1 .. due + size /\ ~(k <= due) /\ k - due = j
          /\ (total + j) - before = k /\ ~(total + j <= before)
      BY <1>5, <1>6, <1>10, <3>1
    <3>3. incoming'[k] = frame[j]
      BY <1>8, <3>2
    <3>4. Stream(total + j)' = IF total + j <= before THEN arrived[total + j]
                               ELSE incoming'[(total + j) - before]
      BY <1>2, <1>6 DEF Stream
    <3> QED
      BY <3>2, <3>3, <3>4
  <2> QED
    BY <2>1, <2>2
<1>16. Starts(more)'
  <2>1. \A i, j \in 1 .. n + 2 : i < j => more[i] < more[j]
    <3> SUFFICES ASSUME NEW i \in 1 .. n + 2, NEW j \in 1 .. n + 2, i < j
                 PROVE  more[i] < more[j]
      OBVIOUS
    <3>1. CASE j = n + 2
      <4>1. i \in 1 .. n + 1
        BY <1>6, <3>1
      <4>2. more[i] <= total /\ more[i] \in Nat
        BY <1>11, <1>12, <1>14, <4>1
      <4> QED
        BY <1>5, <1>10, <1>14, <3>1, <4>2
    <3>2. CASE j # n + 2
      <4>1. i \in 1 .. n + 1 /\ j \in 1 .. n + 1
        BY <1>6, <3>2
      <4> QED
        BY <1>11, <1>14, <4>1
    <3> QED
      BY <3>1, <3>2
  <2>2. ASSUME NEW i \in 1 .. n + 1
        PROVE  /\ more[i + 1] = more[i] + Len(Framed(asked'[i]))
               /\ \A j \in 1 .. Len(Framed(asked'[i])) :
                    Stream(more[i] + j)' = Framed(asked'[i])[j]
    <3>1. CASE i = n + 1
      <4>1. Framed(asked'[i]) = frame
        BY <1>5, <1>7, <3>1
      <4>2. more[i] = total /\ more[i + 1] = total + size
        <5>1. n + 1 \in 1 .. n + 1 /\ i + 1 = n + 2
          BY <1>6, <3>1
        <5> QED
          BY <1>11, <1>14, <3>1, <5>1
      <4>3. more[i + 1] = more[i] + Len(frame)
        BY <1>5, <4>2
      <4>4. \A j \in 1 .. Len(frame) : Stream(more[i] + j)' = frame[j]
        BY <1>5, <1>15, <4>2
      <4> QED
        BY <4>1, <4>3, <4>4
    <3>2. CASE i \in 1 .. n
      <4>1. asked'[i] = asked[i] /\ more[i] = starts[i] /\ more[i + 1] = starts[i + 1]
        <5>1. i \in 1 .. n + 1 /\ i + 1 \in 1 .. n + 1
          BY <1>6, <3>2
        <5> QED
          BY <1>7, <1>14, <3>2, <5>1
      <4>2. PICK length \in Nat : length = Len(Framed(asked[i]))
        <5>1. FrameShape(asked[i])
          BY <1>7, <3>2, FramesShape
        <5> QED
          BY <5>1 DEF FrameShape
      <4>3. /\ starts[i + 1] = starts[i] + length /\ starts[i] \in Nat
            /\ \A j \in 1 .. length : Stream(starts[i] + j) = Framed(asked[i])[j]
            /\ starts[i + 1] <= total
        <5>1. i \in 1 .. n + 1 /\ i + 1 \in 1 .. n + 1
          BY <1>6, <3>2
        <5> QED
          BY <1>11, <1>12, <3>2, <4>2, <5>1
      <4>4. ASSUME NEW j \in 1 .. length PROVE Stream(starts[i] + j)' = Framed(asked[i])[j]
        <5>1. starts[i] + j \in 1 .. total
          BY <1>10, <4>2, <4>3
        <5>2. Stream(starts[i] + j)' = Stream(starts[i] + j)
          BY <1>15, <5>1
        <5> QED
          BY <4>3, <5>2
      <4> QED
        BY <4>1, <4>2, <4>3, <4>4
    <3> QED
      BY <1>6, <3>1, <3>2
  <2>3. more[1] = 0 /\ more[(n + 1) + 1] = total + size /\ Total' = total + size
        /\ more \in [1 .. (n + 1) + 1 -> Nat]
    <3>1. 1 \in 1 .. n + 1 /\ (n + 1) + 1 = n + 2
      BY <1>6
    <3>2. Total' = total + size
      BY <1>2, <1>5, <1>6, <1>8, <1>10 DEF Total
    <3> QED
      BY <1>11, <1>14, <3>1, <3>2
  <2>4. \A i, j \in 1 .. (n + 1) + 1 : i < j => more[i] < more[j]
    BY <1>6, <2>1
  <2> QED
    BY <1>7, <2>2, <2>3, <2>4 DEF Starts
<1>17. Parsed' = Parsed
  BY <1>2 DEF Parsed
<1>18. Delivered(more)'
  <2>1. /\ m <= n /\ \A i \in 1 .. m : handled[i] = asked[i]
        /\ Parsed >= starts[m + 1]
        /\ Parsed = starts[m + 1] => expect \in {"NOTHING", "CMD"}
        /\ Parsed > starts[m + 1] => m < n /\ Within(asked[m + 1], Parsed - starts[m + 1])
    BY <1>6, <1>9 DEF Delivered
  <2>2. more[m + 1] = starts[m + 1]
    <3>1. m + 1 \in 1 .. n + 1
      BY <1>6, <2>1
    <3> QED
      BY <1>14, <3>1
  <2>3. m < n => asked'[m + 1] = asked[m + 1]
    <3>1. m < n => m + 1 \in 1 .. n
      BY <1>6
    <3> QED
      BY <1>7, <3>1
  <2>4. \A i \in 1 .. m : handled[i] = asked'[i]
    BY <1>6, <1>7, <2>1
  <2>5. m <= n + 1 /\ (m < n => m < n + 1)
    BY <1>6, <2>1
  <2>6. UNCHANGED <<expect, commandByte, data, dataIndex>>
    BY <1>2 DEF parser
  <2>7. \A query2, q : Within(query2, q)' <=> Within(query2, q)
    BY <2>6 DEF Within, WithinBody, AfterDelimiter
  <2>8. /\ handled' = handled /\ Len(handled) = m /\ Len(asked') = n + 1 /\ expect' = expect
    BY <1>2, <1>6, <1>7, <2>6
  <2>9. /\ Parsed' >= more[m + 1]
        /\ Parsed' = more[m + 1] => expect' \in {"NOTHING", "CMD"}
        /\ Parsed' > more[m + 1] => m < n + 1 /\ Within(asked'[m + 1], Parsed' - more[m + 1])
    BY <1>17, <2>1, <2>2, <2>3, <2>5, <2>6
  <2>10. \A q : Within(asked[m + 1], q)' <=> Within(asked'[m + 1], q)
    BY <2>6, <2>8 DEF Within, WithinBody, AfterDelimiter
  <2> QED
    BY <2>4, <2>5, <2>8, <2>9, <2>10 DEF Delivered
<1>19. Typed'
  <2>1. UNCHANGED <<data, handled, arrived>>
    BY <1>2 DEF parser
  <2> QED
    BY <1>3, <1>7, <1>8, <2>1 DEF Typed
<1>20. Clean' /\ Reading'
  BY <1>2, <1>3 DEF Clean, Reading, parser
<1> QED
  BY <1>16, <1>18, <1>19, <1>20 DEF Handling

\* A byte moves from the line into the ring.
LEMMA ArriveHandles ==
  ASSUME SerialInv, Handling, Arrive, ~damaged'
  PROVE  Handling'
<1>1. /\ incoming # <<>> /\ incoming' = Tail(incoming) /\ ~Overflow(Head(incoming), {})
      /\ UNCHANGED <<main, parser, interrupts, available, bus, asked, handled, call>>
      /\ ReceiveInterrupt(Head(incoming), {})
  BY DEF Arrive, Overflow, ReceiveInterrupt
<1>2. arrived' = Append(arrived, Head(incoming)) /\ lastRxError' = lastRxError /\ taken' = taken
  BY <1>1 DEF ReceiveInterrupt, Store
<1>3. Typed /\ Clean /\ Reading
  BY DEF Handling
<1>4. /\ arrived \in Seq(Bytes) /\ incoming \in Seq(Bytes)
      /\ Len(arrived) \in Nat /\ Len(incoming) \in Nat
  BY <1>3 DEF Typed
<1>5. /\ Head(incoming) \in Bytes /\ Head(incoming) = incoming[1]
      /\ Tail(incoming) \in Seq(Bytes) /\ Len(Tail(incoming)) = Len(incoming) - 1
      /\ \A i \in 1 .. Len(incoming) - 1 : Tail(incoming)[i] = incoming[i + 1]
      /\ Len(incoming) > 0
  <2>1. Head(incoming) = incoming[1] /\ Len(incoming) > 0
    BY <1>1, <1>4
  <2> QED
    BY <1>1, <1>4, <2>1, HeadTailProperties
<1>6. /\ arrived' \in Seq(Bytes) /\ Len(arrived') = Len(arrived) + 1
      /\ arrived'[Len(arrived) + 1] = incoming[1]
      /\ \A i \in 1 .. Len(arrived) : arrived'[i] = arrived[i]
  BY <1>2, <1>4, <1>5, AppendProperties
<1>7. Total' = Total /\ Total \in Nat
  BY <1>1, <1>4, <1>5, <1>6 DEF Total
<1>8. \A i \in 1 .. Total : Stream(i)' = Stream(i)
  <2> SUFFICES ASSUME NEW i \in 1 .. Total PROVE Stream(i)' = Stream(i)
    OBVIOUS
  <2>1. CASE i <= Len(arrived)
    BY <1>4, <1>6, <2>1 DEF Stream
  <2>2. CASE i = Len(arrived) + 1
    BY <1>4, <1>6, <2>2 DEF Stream
  <2>3. CASE i > Len(arrived) + 1
    <3> DEFINE k == i - (Len(arrived) + 1)
    <3>1. /\ k \in 1 .. Len(incoming) - 1 /\ k + 1 = i - Len(arrived)
          /\ ~(i <= Len(arrived)) /\ ~(i <= Len(arrived) + 1)
      BY <1>4, <2>3 DEF Total
    <3> HIDE DEF k
    <3>2. Tail(incoming)[k] = incoming[k + 1]
      BY <1>5, <3>1
    <3>3. Stream(i)' = Tail(incoming)[k]
      BY <1>1, <1>6, <3>1 DEF Stream, k
    <3>4. Stream(i) = incoming[k + 1]
      BY <3>1 DEF Stream
    <3> QED
      BY <3>2, <3>3, <3>4
  <2> QED
    BY <1>4, <2>1, <2>2, <2>3
<1>9. PICK starts : Starts(starts) /\ Delivered(starts)
  BY DEF Handling
<1>10. Starts(starts)'
  <2>1. asked' = asked /\ asked \in Seq(Queries) /\ Len(asked) \in Nat
    BY <1>1, <1>3 DEF Typed
  <2>2. ASSUME NEW i \in 1 .. Len(asked), NEW j \in 1 .. Len(Framed(asked[i]))
        PROVE  Stream(starts[i] + j)' = Framed(asked[i])[j]
    <3>1. starts[i + 1] = starts[i] + Len(Framed(asked[i])) /\ starts[i] \in Nat
      BY <1>9, <2>1 DEF Starts
    <3>2. starts[i + 1] <= Total
      <4>1. i + 1 \in 1 .. Len(asked) + 1 /\ Len(asked) + 1 \in 1 .. Len(asked) + 1
        BY <2>1
      <4>2. i + 1 < Len(asked) + 1 => starts[i + 1] < starts[Len(asked) + 1]
        BY <1>9, <4>1 DEF Starts
      <4>3. starts[Len(asked) + 1] = Total /\ starts[i + 1] \in Nat
        BY <1>9, <4>1 DEF Starts
      <4> QED
        BY <1>7, <2>1, <4>1, <4>2, <4>3
    <3>3. Len(Framed(asked[i])) \in Nat
      <4>1. asked[i] \in Queries
        BY <2>1, ElementOfSeq
      <4>2. FrameShape(asked[i])
        BY <4>1, FramesShape
      <4> QED
        BY <4>2 DEF FrameShape
    <3>4. starts[i] + j \in 1 .. Total
      BY <1>7, <3>1, <3>2, <3>3
    <3>5. Stream(starts[i] + j) = Framed(asked[i])[j]
      BY <1>9 DEF Starts
    <3> QED
      BY <1>8, <3>4, <3>5
  <2> QED
    BY <1>7, <1>9, <2>1, <2>2 DEF Starts
<1>11. Parsed' = Parsed
  BY <1>1, <1>2 DEF Parsed
<1>12. Delivered(starts)'
  BY <1>1, <1>9, <1>11, ParserKeepsDelivered
<1>13. Typed'
  BY <1>1, <1>3, <1>5, <1>6 DEF Typed, parser
<1>14. Clean' /\ Reading'
  BY <1>1, <1>2, <1>3 DEF Clean, Reading, parser, main, bus
<1> QED
  BY <1>10, <1>12, <1>13, <1>14 DEF Handling

\* uart_getc looks at the ring, and takes a byte from it.
LEMMA GetcHandles ==
  ASSUME SerialInv, Handling, Getc
  PROVE  Handling'
<1>1. /\ GetcRead \/ GetcAdvance
      /\ UNCHANGED <<main, parser, bus, incoming, asked, handled>>
  BY DEF Getc, line
<1>2. Typed /\ Clean /\ Reading
  BY DEF Handling
<1>3. Reading'
  BY <1>1, <1>2 DEF Reading, main, parser, bus
<1>4. CASE GetcRead
  <2>1. UNCHANGED <<arrived, taken, lastRxError>> /\ call' = [at |-> "read", byte |-> call'.byte, error |-> lastRxError]
    BY <1>4 DEF GetcRead, receiver
  <2>2. call.at = "none" /\ call'.at = "read" /\ call'.error = {}
    BY <1>2, <1>4, <2>1 DEF Clean, GetcRead, NoCall
  <2> QED
    BY <1>1, <1>3, <2>1, <2>2, ElsewhereHandles DEF flow
<1>5. CASE GetcAdvance
  <2>1. /\ UNCHANGED <<arrived, lastRxError>> /\ taken' = Append(taken, call.byte)
        /\ call.at = "read" /\ call' = [call EXCEPT !.at = "advanced"]
    BY <1>5 DEF GetcAdvance
  <2>2. CallShape /\ RxRing
    BY DEF SerialInv
  <2>3. call'.at = "advanced" /\ call'.byte = call.byte /\ call'.error = {}
    BY <1>2, <2>1, <2>2 DEF Clean, CallShape
  <2>4. PICK V : taken \in Seq(V)
    BY <2>2, TakenAreFirst DEF TakenFirst
  <2>5. taken \in Seq(V \cup {call.byte})
    BY <2>4, SeqOfMore
  <2>6. /\ Len(taken') = Len(taken) + 1 /\ taken'[Len(taken) + 1] = call.byte /\ Len(taken) \in Nat
    BY <2>1, <2>5, AppendProperties, LenProperties
  <2>7. Parsed' = Parsed
    BY <2>1, <2>3, <2>6 DEF Parsed
  <2>8. PICK starts : Starts(starts) /\ Delivered(starts)
    BY DEF Handling
  <2>9. Starts(starts)' /\ Delivered(starts)'
    BY <1>1, <2>1, <2>7, <2>8, FlowKeepsStarts, ParserKeepsDelivered
  <2>10. Clean'
    BY <1>2, <2>1, <2>3, <2>6 DEF Clean
  <2>11. Typed'
    BY <1>1, <1>2, <2>1 DEF Typed, parser
  <2> QED
    BY <1>3, <2>9, <2>10, <2>11 DEF Handling
<1> QED
  BY <1>1, <1>4, <1>5

-----------------------------------------------------------------------------
(* The byte that the parser gets is the next one of the frame it is in *)

Due(starts, query, q) ==
  /\ Starts(starts) /\ Delivered(starts)
  /\ Len(handled) \in Nat /\ Len(asked) \in Nat /\ Len(handled) < Len(asked)
  /\ query \in Queries /\ query = asked[Len(handled) + 1]
  /\ q \in Nat /\ q < Size(Len(query.data)) + 3
  /\ starts[Len(handled) + 1] \in Nat
  /\ starts[(Len(handled) + 1) + 1] = starts[Len(handled) + 1] + Size(Len(query.data)) + 3
  /\ Parsed = starts[Len(handled) + 1] + q /\ Parsed' = Parsed + 1
  /\ Byte = Framed(query)[q + 1]
  /\ q = 0 => expect \in {"NOTHING", "CMD"}
  /\ q > 0 => Within(query, q)

LEMMA NextByte ==
  ASSUME SerialInv, Handling, GetcByte
  PROVE  \E starts, query, q : Due(starts, query, q)
<1>1. Typed /\ Clean /\ TakenFirst /\ GetcReturn
  BY TakenAreFirst DEF Handling, SerialInv, GetcByte
<1>2. call.at = "advanced" /\ taken' = taken /\ call' = NoCall
  BY <1>1 DEF GetcReturn
<1>3. PICK p \in Nat : p = Parsed /\ p + 1 = Len(taken) /\ Parsed' = p + 1
  <2>1. Len(taken) \in Nat /\ Len(taken) > 0
    BY <1>1, <1>2 DEF TakenFirst, Clean
  <2>2. Parsed = Len(taken) - 1 /\ Parsed' = Len(taken)
    BY <1>2 DEF Parsed, NoCall
  <2> QED
    BY <2>1, <2>2
<1>4. PICK n, m, before, due :
        /\ n = Len(asked) /\ m = Len(handled) /\ before = Len(arrived) /\ due = Len(incoming)
        /\ n \in Nat /\ m \in Nat /\ before \in Nat /\ due \in Nat
  <2>1. /\ asked \in Seq(Queries) /\ handled \in Seq(Queries)
        /\ arrived \in Seq(Bytes) /\ incoming \in Seq(Bytes)
    BY <1>1 DEF Typed
  <2>2. /\ Len(asked) \in Nat /\ Len(handled) \in Nat
        /\ Len(arrived) \in Nat /\ Len(incoming) \in Nat
    BY <2>1, LenProperties
  <2> QED
    BY <2>2
<1>5. p + 1 <= before /\ call.byte = arrived[p + 1] /\ Total = before + due
  BY <1>1, <1>2, <1>3, <1>4 DEF TakenFirst, Clean, Total
<1>6. PICK starts : Starts(starts) /\ Delivered(starts)
  BY DEF Handling
<1>7. /\ starts \in [1 .. n + 1 -> Nat] /\ starts[n + 1] = before + due
      /\ \A i \in 1 .. n :
           /\ starts[i + 1] = starts[i] + Len(Framed(asked[i]))
           /\ \A j \in 1 .. Len(Framed(asked[i])) : Stream(starts[i] + j) = Framed(asked[i])[j]
  BY <1>4, <1>5, <1>6 DEF Starts
<1>8. /\ m <= n /\ p >= starts[m + 1]
      /\ p = starts[m + 1] => expect \in {"NOTHING", "CMD"}
      /\ p > starts[m + 1] => Within(asked[m + 1], p - starts[m + 1])
  BY <1>3, <1>4, <1>6 DEF Delivered
<1>9. m + 1 \in 1 .. n + 1 /\ starts[m + 1] \in Nat
  BY <1>4, <1>7, <1>8
<1>10. m < n /\ m + 1 \in 1 .. n
  <2>1. starts[n + 1] = before + due
    BY <1>7
  <2>2. m # n
    BY <1>4, <1>5, <1>8, <1>9, <2>1
  <2> QED
    BY <1>4, <1>8, <2>2
<1>11. PICK query \in Queries : query = asked[m + 1]
  BY <1>1, <1>4, <1>10, ElementOfSeq DEF Typed
<1>12. PICK size \in Nat : size = Size(Len(query.data)) /\ Len(Framed(query)) = size + 3
  BY <1>11, FramesShape DEF FrameShape
<1>13. PICK q \in Nat : q = p - starts[m + 1]
  BY <1>8, <1>9
<1>14. q > 0 => Within(query, q)
  BY <1>8, <1>9, <1>11, <1>13
<1>15. q < size + 3
  BY <1>12, <1>14 DEF Within
<1>16. Byte = Framed(query)[q + 1]
  <2>1. q + 1 \in 1 .. size + 3 /\ starts[m + 1] + (q + 1) = p + 1
    BY <1>9, <1>13, <1>15
  <2>2. Stream(p + 1) = Framed(query)[q + 1]
    BY <1>7, <1>10, <1>11, <1>12, <2>1
  <2>3. Stream(p + 1) = arrived[p + 1]
    BY <1>4, <1>5 DEF Stream
  <2> QED
    BY <1>5, <2>2, <2>3 DEF Byte
<1>17. starts[(m + 1) + 1] = starts[m + 1] + size + 3
  <2>1. starts[(m + 1) + 1] = starts[m + 1] + Len(Framed(query))
    BY <1>7, <1>10, <1>11
  <2> QED
    BY <1>9, <1>12, <2>1
<1>18. q = 0 => expect \in {"NOTHING", "CMD"}
  BY <1>8, <1>9, <1>13
<1>19. Parsed = starts[m + 1] + q /\ Parsed' = Parsed + 1
  BY <1>3, <1>9, <1>13
<1>20. Due(starts, query, q)
  BY <1>4, <1>6, <1>9, <1>10, <1>11, <1>12, <1>14, <1>15, <1>16, <1>17, <1>18, <1>19 DEF Due
<1> QED
  BY <1>20

\* The parser goes on within a frame.
LEMMA FrameGoesOn ==
  ASSUME Handling, GetcReturn, NEW starts, NEW query, NEW q, Due(starts, query, q),
         UNCHANGED <<incoming, asked, handled>>, Within(query, q + 1)',
         data' \in [0 .. DataSize - 1 -> Bytes], Reading'
  PROVE  Handling'
<1>1. Typed /\ UNCHANGED <<arrived, taken>> /\ lastRxError' = {} /\ call' = NoCall
  BY DEF Handling, GetcReturn
<1>2. Typed' /\ Clean'
  BY <1>1 DEF Typed, Clean, NoCall
<1>3. Starts(starts)'
  BY <1>1, FlowKeepsStarts DEF Due
<1>4. Delivered(starts)'
  <2>1. PICK m, start : m = Len(handled) /\ start = starts[m + 1] /\ start \in Nat
    BY DEF Due
  <2>2. /\ m < Len(asked) /\ query = asked[m + 1] /\ q \in Nat
        /\ Parsed' = start + q + 1
        /\ m <= Len(asked) /\ \A i \in 1 .. m : handled[i] = asked[i]
    BY <2>1 DEF Due, Delivered
  <2>3. Parsed' > start /\ Parsed' - start = q + 1
    BY <2>1, <2>2
  <2>4. /\ Len(handled') = m /\ asked' = asked /\ handled' = handled
    BY <2>1
  <2>5. Within(asked[m + 1], Parsed - start)'
    BY <2>2, <2>3, <2>4 DEF Within, WithinBody, AfterDelimiter
  <2>6. Len(handled') < Len(asked') /\ Len(handled') <= Len(asked')
    BY <2>2, <2>4
  <2>7. /\ Parsed' >= starts[Len(handled') + 1] /\ Parsed' # starts[Len(handled') + 1]
        /\ \A i \in 1 .. Len(handled') : handled'[i] = asked'[i]
    BY <2>1, <2>2, <2>3, <2>4
  <2>8. Within(asked[Len(handled) + 1], Parsed - starts[Len(handled) + 1])'
    BY <2>1, <2>4, <2>5
  <2> QED
    BY <2>6, <2>7, <2>8 DEF Delivered
<1> QED
  BY <1>2, <1>3, <1>4 DEF Handling

\* The frame ends, and the query is handled.
LEMMA FrameEnds ==
  ASSUME Handling, GetcReturn, NEW starts, NEW query, NEW q, Due(starts, query, q),
         UNCHANGED <<incoming, asked>>, handled' = Append(handled, query),
         q = Size(Len(query.data)) + 2, expect' = "CMD",
         data' \in [0 .. DataSize - 1 -> Bytes], Reading'
  PROVE  Handling'
<1>1. Typed /\ UNCHANGED <<arrived, taken>> /\ lastRxError' = {} /\ call' = NoCall
  BY DEF Handling, GetcReturn
<1>2. PICK m, start, size : /\ m = Len(handled) /\ start = starts[m + 1] /\ m \in Nat
                            /\ start \in Nat /\ size = Size(Len(query.data))
  BY DEF Due
<1>3. /\ m < Len(asked) /\ Len(asked) \in Nat /\ query = asked[m + 1] /\ query \in Queries
      /\ Parsed' = start + q + 1 /\ q \in Nat /\ q = size + 2
      /\ \A i \in 1 .. m : handled[i] = asked[i]
      /\ starts[(m + 1) + 1] = start + size + 3
  BY <1>2 DEF Due, Delivered
<1>4. /\ handled' \in Seq(Queries) /\ Len(handled') = m + 1 /\ handled'[m + 1] = query
      /\ \A i \in 1 .. m : handled'[i] = handled[i]
  BY <1>1, <1>2, <1>3, AppendProperties DEF Typed
<1>5. Typed' /\ Clean'
  BY <1>1, <1>4 DEF Typed, Clean, NoCall
<1>6. Starts(starts)'
  BY <1>1, FlowKeepsStarts DEF Due
<1>7. Delivered(starts)'
  <2>1. Parsed' = starts[(m + 1) + 1] /\ Parsed' \in Nat
    <3>1. size \in Nat
      BY <1>2, <1>3, FramesShape DEF FrameShape
    <3>2. start \in Nat
      BY <1>2
    <3>3. start + (size + 2) + 1 = start + size + 3 /\ start + size + 3 \in Nat
      BY <3>1, <3>2
    <3> QED
      BY <1>3, <3>3
  <2>2. \A i \in 1 .. m + 1 : handled'[i] = asked[i]
    BY <1>2, <1>3, <1>4
  <2>3. m + 1 <= Len(asked) /\ asked' = asked
    BY <1>2, <1>3
  <2>4. Parsed' >= starts[(m + 1) + 1] /\ ~(Parsed' > starts[(m + 1) + 1])
    BY <2>1
  <2> QED
    BY <1>4, <2>2, <2>3, <2>4 DEF Delivered
<1> QED
  BY <1>5, <1>6, <1>7 DEF Handling

\* The steps of the parser, by the byte it gets.
LEMMA FrameBegins ==
  ASSUME Handling, Parse, GetcReturn, NEW starts, NEW query, Due(starts, query, 0)
  PROVE  Handling'
<1>1. query \in Queries /\ Byte = Framed(query)[0 + 1] /\ expect \in {"NOTHING", "CMD"}
  BY DEF Due
<1>2. Byte = Delimiter
  BY <1>1, FramesShape DEF FrameShape
<1>3. ParseStart
  BY <1>1, <1>2 DEF Parse, ParseCommand, ParseData, ParseEscape, ParseUnexpected, NotHandled,
     HandledByNobody, Identify, HandleSilently, HandleTemperature, HandleI2C, ParseEnd
<1>4. expect' = "CMD" /\ UNCHANGED <<incoming, asked, handled, data, main, bus>>
  BY <1>3 DEF ParseStart, line
<1>5. Within(query, 0 + 1)'
  <2>1. Size(Len(query.data)) \in Nat
    BY <1>1, FramesShape DEF FrameShape
  <2> QED
    BY <1>4, <2>1 DEF Within, AfterDelimiter
<1>6. Typed /\ Reading
  BY DEF Handling
<1>7. Reading' /\ data' \in [0 .. DataSize - 1 -> Bytes]
  <2>1. pc = "getc"
    BY <1>3 DEF ParseStart, GetcByte
  <2> QED
    BY <1>4, <1>6, <2>1 DEF Typed, Reading, main, bus
<1> QED
  BY <1>4, <1>5, <1>7, FrameGoesOn

LEMMA CommandComes ==
  ASSUME Handling, Parse, GetcReturn, NEW starts, NEW query, Due(starts, query, 1)
  PROVE  Handling'
<1>1. query \in Queries /\ Byte = Framed(query)[1 + 1] /\ expect = "CMD"
  BY DEF Due, Within, AfterDelimiter
<1>2. Byte = query.command /\ Byte # Delimiter
  BY <1>1, FramesShape DEF FrameShape
<1>3. ParseCommand
  BY <1>1, <1>2 DEF Parse, ParseStart, ParseData, ParseEscape, ParseUnexpected, NotHandled,
     HandledByNobody, Identify, HandleSilently, HandleTemperature, HandleI2C, ParseEnd
<1>4. /\ commandByte' = query.command /\ dataIndex' = 0 /\ expect' = "DATA"
      /\ UNCHANGED <<incoming, asked, handled, data, main, bus>>
  BY <1>2, <1>3 DEF ParseCommand, line
<1>5. Within(query, 1 + 1)'
  <2>1. Size(Len(query.data)) \in Nat
    BY <1>1, FramesShape DEF FrameShape
  <2>2. Index(0) = 0 /\ 0 % (Block + 1) # Block /\ 0 .. 0 - 1 = {}
    BY BlockIs DEF Index
  <2>3. WithinBody(query, 0)'
    BY <1>4, <2>2 DEF WithinBody
  <2>4. (1 + 1) - 2 = 0 /\ 1 + 1 = 2
    OBVIOUS
  <2> QED
    BY <2>1, <2>3, <2>4 DEF Within
<1>6. Typed /\ Reading
  BY DEF Handling
<1>7. Reading' /\ data' \in [0 .. DataSize - 1 -> Bytes]
  <2>1. pc = "getc"
    BY <1>3 DEF ParseCommand, GetcByte
  <2> QED
    BY <1>4, <1>6, <2>1 DEF Typed, Reading, main, bus
<1> QED
  BY <1>4, <1>5, <1>7, FrameGoesOn

\* A byte of the body: the buffer fills up, and a 0 at an escape byte's place changes none.
LEMMA BodyGoesOn ==
  ASSUME Handling, Parse, GetcReturn, NEW starts, NEW query, NEW q, Due(starts, query, q),
         q > 1, q < Size(Len(query.data)) + 2
  PROVE  Handling'
<1>1. PICK n, size, b : /\ n = Len(query.data) /\ size = Size(n) /\ b = q - 2
                        /\ n \in Nat /\ size \in Nat /\ b \in 0 .. size - 1
                        /\ query \in Queries /\ q = b + 2
  <2>1. query \in Queries /\ q \in Nat
    BY DEF Due
  <2>2. Len(query.data) \in Nat /\ Size(Len(query.data)) \in Nat
    BY <2>1, QueriesOK, FramesShape DEF QueryOK, FrameShape
  <2>3. q - 2 \in 0 .. Size(Len(query.data)) - 1
    BY <2>1, <2>2
  <2> QED
    BY <2>1, <2>2, <2>3
<1>2. n > 0 /\ n % Block # 0 /\ n < DataSize /\ n < 65536 - 1 /\ DataSize \in Nat
  <2>1. QueryOK(query)
    BY <1>1, QueriesOK
  <2>2. query.data = <<>> => Size(n) = 0
    BY <1>1, BlockIs DEF Size
  <2>3. DataSize \in Nat /\ DataSize < 65536
    BY FirmwareAssumption
  <2>4. query.data # <<>>
    BY <1>1, <2>2
  <2>5. n % Block # 0 /\ n < DataSize
    BY <1>1, <2>1, <2>4 DEF QueryOK
  <2>6. n > 0
    BY <1>1, <2>1, <2>4, EmptySeq DEF QueryOK
  <2> QED
    BY <1>1, <2>3, <2>5, <2>6
<1>3. WithinBody(query, b)
  BY <1>1 DEF Due, Within
<1>4. PICK index, following :
        /\ index = Index(b) /\ following = Index(b + 1) /\ index \in Nat /\ index <= n
        /\ following = IF b % (Block + 1) = Block THEN index ELSE index + 1
        /\ b % (Block + 1) # Block =>
             /\ following % Block = 0 <=> (b + 1) % (Block + 1) = Block
             /\ b # size - 1 => index < n
        /\ b % (Block + 1) = Block => (b + 1) % (Block + 1) = 0
  <2>1. Index(b) <= n /\ (b # size - 1 /\ b % (Block + 1) # Block => Index(b) < n)
    BY <1>1, <1>2, BodyEnds
  <2>2. b \in Nat
    BY <1>1
  <2> QED
    BY <2>1, <2>2, IndexMoves
<1>5. /\ Byte = IF (b + 1) % (Block + 1) = 0 \/ b + 1 = size THEN 0 ELSE query.data[following]
      /\ Byte # Delimiter
  <2>1. b + 1 \in 1 .. size /\ (b + 1) + 2 = q + 1
    BY <1>1
  <2>2. Byte = Framed(query)[(b + 1) + 2]
    BY <2>1 DEF Due
  <2> QED
    BY <1>1, <1>4, <2>1, <2>2, FramesShape DEF FrameShape
<1>6. Typed /\ Reading
  BY DEF Handling
<1>7. data \in [0 .. DataSize - 1 -> Bytes] /\ 0 .. DataSize - 1 \subseteq Int
  BY <1>6 DEF Typed
<1>8. (q + 1) - 2 = b + 1 /\ q + 1 < size + 3 /\ q + 1 > 1 /\ q + 1 # 1
  BY <1>1
<1>9. /\ commandByte = query.command /\ dataIndex = index
      /\ expect = IF b % (Block + 1) = Block THEN "ESC" ELSE "DATA"
      /\ \A k \in 0 .. index - 1 : data[k] = IF k = n THEN 0 ELSE query.data[k + 1]
  BY <1>1, <1>3, <1>4 DEF WithinBody
<1>10. CASE b % (Block + 1) = Block
  <2>1. ParseEscape
    BY <1>5, <1>9, <1>10 DEF Parse, ParseStart, ParseData, ParseCommand, ParseUnexpected, NotHandled,
       HandledByNobody, Identify, HandleSilently, HandleTemperature, HandleI2C, ParseEnd
  <2>2. Byte = 0
    BY <1>4, <1>5, <1>10
  <2>3. Unescape(data, dataIndex, Block, Byte) = data
    <3>1. Block \in 0 .. 8
      BY BlockIs
    <3>2. data = [k \in DOMAIN data |-> data[k]] /\ DOMAIN data \subseteq Int
      BY <1>7
    <3>3. dataIndex \in Int
      BY <1>4, <1>9
    <3> QED
      BY <2>2, <3>1, <3>2, <3>3, NothingEscaped
  <2>4. /\ expect' = "DATA" /\ data' = data /\ UNCHANGED <<commandByte, dataIndex>>
        /\ UNCHANGED <<incoming, asked, handled, main, bus>>
    BY <2>1, <2>3 DEF ParseEscape, line
  <2>5. WithinBody(query, b + 1)'
    <3>1. (b + 1) % (Block + 1) # Block /\ Index(b + 1) = index
      BY <1>4, <1>10, BlockIs
    <3>2. WithinBody(query, b + 1)' <=>
            /\ commandByte' = query.command /\ dataIndex' = Index(b + 1)
            /\ expect' = IF (b + 1) % (Block + 1) = Block THEN "ESC" ELSE "DATA"
            /\ \A k \in 0 .. Index(b + 1) - 1 :
                 data'[k] = IF k = Len(query.data) THEN 0 ELSE query.data[k + 1]
      BY DEF WithinBody
    <3> QED
      BY <1>1, <1>9, <2>4, <3>1, <3>2
  <2>6. Within(query, q + 1)'
    BY <1>1, <1>8, <2>5 DEF Within
  <2>7. Reading' /\ data' \in [0 .. DataSize - 1 -> Bytes]
    BY <1>6, <1>7, <2>4 DEF Reading, main, bus
  <2> QED
    BY <2>4, <2>6, <2>7, FrameGoesOn
<1>11. CASE b % (Block + 1) # Block
  <2>1. ParseData
    BY <1>5, <1>9, <1>11 DEF Parse, ParseStart, ParseEscape, ParseCommand, ParseUnexpected, NotHandled,
       HandledByNobody, Identify, HandleSilently, HandleTemperature, HandleI2C, ParseEnd
  <2>2. following = index + 1 /\ following % 65536 = following
    <3>1. following = index + 1
      BY <1>4, <1>11
    <3>2. following \in Nat /\ following < 65536
      BY <1>1, <1>2, <1>4, <3>1
    <3>3. following % 65536 = following
      BY <3>2
    <3> QED
      BY <3>1, <3>3
  <2>3. /\ data' = [data EXCEPT ![index] = Byte] /\ dataIndex' = following
        /\ expect' = IF following % Block = 0 THEN "ESC" ELSE "DATA"
        /\ UNCHANGED <<commandByte, incoming, asked, handled, main, bus>>
    BY <1>9, <2>1, <2>2 DEF ParseData, line
  <2>4. Byte = IF index = n THEN 0 ELSE query.data[index + 1]
    <3>1. b + 1 = size <=> b = size - 1
      BY <1>1
    <3>2. (b + 1) % (Block + 1) # 0
      <4>1. b \in Nat
        BY <1>1
      <4>2. CASE Block = 2
        BY <1>11, <4>1, <4>2
      <4>3. CASE Block = 3
        BY <1>11, <4>1, <4>3
      <4>4. CASE Block = 4
        BY <1>11, <4>1, <4>4
      <4>5. CASE Block = 5
        BY <1>11, <4>1, <4>5
      <4>6. CASE Block = 6
        BY <1>11, <4>1, <4>6
      <4>7. CASE Block = 7
        BY <1>11, <4>1, <4>7
      <4>8. CASE Block = 8
        BY <1>11, <4>1, <4>8
      <4> QED
        BY <4>2, <4>3, <4>4, <4>5, <4>6, <4>7, <4>8, BlockIs
    <3>3. b = size - 1 => index = n
      <4>1. Index(Size(n)) = n + 1
        BY <1>1, <1>2, BodyEnds
      <4>2. b = size - 1 => following = n + 1
        BY <1>1, <1>4, <3>1, <4>1
      <4> QED
        <5>1. index \in Nat /\ n \in Nat /\ following = index + 1
          BY <1>1, <1>4, <2>2
        <5> QED
          BY <4>2, <5>1
    <3>4. b # size - 1 => index # n
      BY <1>1, <1>4, <1>11
    <3> QED
      BY <1>5, <2>2, <3>1, <3>2, <3>3, <3>4
  <2>5. index \in 0 .. DataSize - 1
    BY <1>1, <1>2, <1>4
  <2>6. data' \in [0 .. DataSize - 1 -> Bytes]
    <3>1. Byte \in Bytes
      <4>1. Framed(query) \in Seq(Bytes) /\ Len(Framed(query)) = size + 3
        BY <1>1, FramesShape DEF FrameShape
      <4>2. Byte = Framed(query)[q + 1] /\ q + 1 \in 1 .. size + 3
        BY <1>1 DEF Due
      <4> QED
        BY <4>1, <4>2, ElementOfSeq
    <3> QED
      BY <1>7, <2>3, <2>5, <3>1
  <2>7. WithinBody(query, b + 1)'
    <3>1. \A k \in 0 .. following - 1 : data'[k] = IF k = n THEN 0 ELSE query.data[k + 1]
      <4> SUFFICES ASSUME NEW k \in 0 .. following - 1
                   PROVE  data'[k] = IF k = n THEN 0 ELSE query.data[k + 1]
        OBVIOUS
      <4>1. k = index \/ k \in 0 .. index - 1
        BY <1>4, <2>2
      <4>2. k \in 0 .. DataSize - 1
        <5>1. DataSize \in Nat
          BY <1>2
        <5>2. index \in Nat /\ index < DataSize
          BY <1>4, <2>5, <5>1
        <5> QED
          BY <4>1, <5>1, <5>2
      <4>3. CASE k = index
        BY <1>7, <2>3, <2>4, <2>5, <4>3
      <4>4. CASE k \in 0 .. index - 1
        <5>1. k # index
          BY <1>4, <4>4
        <5>2. data'[k] = data[k]
          BY <1>7, <2>3, <4>2, <5>1
        <5> QED
          BY <1>9, <4>4, <5>2
      <4> QED
        BY <4>1, <4>3, <4>4
    <3>2. WithinBody(query, b + 1)' <=>
            /\ commandByte' = query.command /\ dataIndex' = Index(b + 1)
            /\ expect' = IF (b + 1) % (Block + 1) = Block THEN "ESC" ELSE "DATA"
            /\ \A k \in 0 .. Index(b + 1) - 1 :
                 data'[k] = IF k = Len(query.data) THEN 0 ELSE query.data[k + 1]
      BY DEF WithinBody
    <3> QED
      BY <1>1, <1>4, <1>9, <1>11, <2>3, <3>1, <3>2
  <2>8. Within(query, q + 1)'
    BY <1>1, <1>8, <2>7 DEF Within
  <2>9. Reading'
    <3>1. pc \notin {"readStart", "readRegister", "readBytes", "writeStart", "writeBytes"}
      BY <2>1 DEF ParseData, GetcByte
    <3> QED
      BY <1>6, <2>3, <3>1 DEF Reading, main, bus
  <2> QED
    BY <2>3, <2>6, <2>8, <2>9, FrameGoesOn
<1> QED
  BY <1>10, <1>11

\* What is below 0 wraps around, and what is not remains.
LEMMA WrapsBelow == \A m \in Nat, i \in Int : i < 0 /\ i + m >= 0 => i % m = i + m
OBVIOUS

LEMMA Remains == \A m \in Nat, i \in Nat : i < m => i % m = i
OBVIOUS

\* The second delimiter: the handler of the query's command gets the query's data.
LEMMA FrameHandled ==
  ASSUME Handling, Parse, GetcByte, NEW starts, NEW query, NEW q, Due(starts, query, q),
         q = Size(Len(query.data)) + 2
  PROVE  Handling'
<1>1. PICK n, size : /\ n = Len(query.data) /\ size = Size(n)
                     /\ n \in Nat /\ size \in Nat /\ query \in Queries /\ QueryOK(query)
  <2>1. query \in Queries
    BY DEF Due
  <2> QED
    BY <2>1, QueriesOK, FramesShape DEF QueryOK, FrameShape
<1>2. Byte = Delimiter
  <2>1. Byte = Framed(query)[size + 3]
    <3>1. q + 1 = size + 3
      BY <1>1
    <3> QED
      BY <3>1 DEF Due
  <2> QED
    BY <1>1, <2>1, FramesShape DEF FrameShape
<1>3. WithinBody(query, size)
  <2>1. q > 1 /\ q - 2 = size /\ q > 0
    BY <1>1
  <2> QED
    BY <2>1 DEF Due, Within
<1>4. Typed /\ Reading
  BY DEF Handling
<1>5. data \in [0 .. DataSize - 1 -> Bytes] /\ 0 .. DataSize - 1 \subseteq Int
  BY <1>4 DEF Typed
<1>6. commandByte = query.command /\ expect \in {"DATA", "ESC"} /\ dataIndex = Index(size)
  BY <1>3 DEF WithinBody
<1>7. \/ /\ n > 0 /\ n % Block # 0 /\ n < 65535 /\ dataIndex = n + 1
         /\ data[n] = 0 /\ \A k \in 0 .. n - 1 : data[k] = query.data[k + 1]
      \/ n = 0 /\ query.data = <<>> /\ dataIndex = 0
  <2>1. CASE query.data = <<>>
    <3>1. n = 0 /\ size = 0 /\ Index(0) = 0
      BY <1>1, <2>1, BlockIs DEF Size, Index
    <3> QED
      BY <1>6, <2>1, <3>1
  <2>2. CASE query.data # <<>>
    <3>1. n > 0 /\ n % Block # 0
      BY <1>1, <2>2, EmptySeq DEF QueryOK
    <3>2. n < 65535
      <4>1. DataSize \in Nat /\ DataSize < 65536 /\ n < DataSize
        BY <1>1, FirmwareAssumption DEF QueryOK
      <4> QED
        BY <1>1, <4>1
    <3>3. Index(size) = n + 1
      BY <1>1, <3>1, BodyEnds
    <3>4. \A k \in 0 .. (n + 1) - 1 : data[k] = IF k = n THEN 0 ELSE query.data[k + 1]
      BY <1>1, <1>3, <3>3 DEF WithinBody
    <3>5. data[n] = 0 /\ \A k \in 0 .. n - 1 : data[k] = query.data[k + 1]
      BY <1>1, <3>4
    <3> QED
      BY <1>6, <3>1, <3>2, <3>3, <3>5
  <2> QED
    BY <2>1, <2>2
<1>8. commandByte \in Attached /\ commandByte # 0
  <2>1. commandByte \in Attached
    BY <1>1, <1>6 DEF QueryOK
  <2>2. commandByte \in 1 .. 254
    BY <2>1, AttachedBytes
  <2> QED
    BY <2>1, <2>2
<1>9. Identify \/ HandleSilently \/ HandleTemperature \/ HandleI2C
  BY <1>2, <1>6, <1>8 DEF Parse, ParseStart, ParseData, ParseEscape, ParseCommand,
     ParseUnexpected, NotHandled, HandledByNobody, ParseEnd
<1>10. PICK m, last, rest :
         m = 65536 /\ last = (dataIndex - 1) % m /\ rest = last % Block
  OBVIOUS
<1>11. /\ IF rest = 0 THEN UNCHANGED <<data, dataIndex>>
          ELSE /\ dataIndex' = last
               /\ data' = IF dataIndex = 0 THEN data ELSE Unescape(data, last, rest, data[last])
       /\ expect' = "CMD" /\ UNCHANGED <<incoming, asked, commandByte>>
  <2>1. CASE Identify
    BY <1>10, <2>1 DEF Identify, ParseEnd, line
  <2>2. CASE HandleSilently
    BY <1>10, <2>2 DEF HandleSilently, ParseEnd, line
  <2>3. CASE HandleTemperature
    BY <1>10, <2>3 DEF HandleTemperature, ParseEnd, line
  <2>4. CASE HandleI2C
    BY <1>10, <2>4 DEF HandleI2C, ParseEnd, line
  <2> QED
    BY <1>9, <2>1, <2>2, <2>3, <2>4
<1>12. m \in Nat /\ m > 65535 /\ m - 1 = 65535
  BY <1>10
<1>13. last = IF n = 0 THEN 65535 ELSE n
  <2>1. CASE n > 0 /\ n < 65535 /\ dataIndex = n + 1
    <3>1. n \in Nat /\ n < m /\ n # 0
      <4>1. n \in Nat
        BY <1>1
      <4> QED
        BY <1>12, <2>1, <4>1
    <3>2. dataIndex - 1 = n
      BY <2>1, <3>1
    <3>3. last = n % m
      BY <1>10, <3>2
    <3>4. n % m = n
      BY <1>12, <3>1, Remains
    <3> QED
      BY <3>1, <3>3, <3>4
  <2>2. CASE n = 0 /\ dataIndex = 0
    <3>1. PICK i : i = dataIndex - 1
      OBVIOUS
    <3>2. i \in Int /\ i < 0 /\ i + m = m - 1 /\ i + m >= 0
      BY <1>12, <2>2, <3>1
    <3>3. i % m = i + m
      BY <1>12, <3>2, WrapsBelow
    <3>4. last = i % m
      BY <1>10, <3>1
    <3> QED
      BY <1>12, <2>2, <3>2, <3>3, <3>4
  <2> QED
    BY <1>7, <2>1, <2>2
<1>14. data' = data /\ IF n = 0 THEN dataIndex' \in {0, 65535} ELSE dataIndex' = n /\ n # 65535
  <2>1. CASE n > 0 /\ n % Block # 0 /\ n < 65535 /\ dataIndex = n + 1 /\ data[n] = 0
    <3>1. n \in Nat /\ n > 0 /\ n < 65535
      <4>1. n \in Nat
        BY <1>1
      <4>2. n > 0 /\ n < 65535
        BY <2>1
      <4> QED
        BY <4>1, <4>2
    <3>2. n # 0 /\ n # 65535 /\ dataIndex # 0 /\ last = n
      BY <1>13, <2>1, <3>1
    <3>3. rest = n % Block /\ rest # 0
      BY <1>10, <2>1, <3>2
    <3>4. n % Block \in 0 .. 8
      <4>1. Block \in Nat /\ Block > 0 /\ Block <= 8
        BY BlockIs
      <4>2. n % Block \in 0 .. Block - 1
        BY <3>1, <4>1
      <4> QED
        BY <4>1, <4>2
    <3>5. dataIndex' = n /\ data' = Unescape(data, n, rest, 0)
      BY <1>11, <2>1, <3>2, <3>3
    <3>6. data = [k \in DOMAIN data |-> data[k]] /\ DOMAIN data \subseteq Int
      BY <1>5
    <3>7. n \in Int
      BY <3>1
    <3>8. Unescape(data, n, rest, 0) = data
      BY <3>3, <3>4, <3>6, <3>7, NothingEscaped
    <3> QED
      BY <3>2, <3>5, <3>8
  <2>2. CASE n = 0 /\ dataIndex = 0
    <3>1. last = 65535
      BY <1>13, <2>2
    <3> QED
      BY <1>11, <2>2, <3>1
  <2> QED
    BY <1>7, <2>1, <2>2
<1>15. Payload = query.data
  <2>1. query.data \in Seq(Bytes \ {Delimiter})
    BY <1>1 DEF QueryOK
  <2>2. query.data = [i \in 1 .. n |-> query.data[i]]
    BY <1>1, <2>1
  <2>3. CASE n = 0
    <3>1. (IF dataIndex' = 65535 THEN 0 ELSE dataIndex') = n
      BY <1>14, <2>3
    <3>2. Payload = [i \in 1 .. n |-> data'[i - 1]]
      BY <3>1 DEF Payload
    <3>3. 1 .. n = {}
      BY <2>3
    <3> QED
      BY <2>2, <3>2, <3>3
  <2>4. CASE n # 0
    <3>1. (IF dataIndex' = 65535 THEN 0 ELSE dataIndex') = n /\ data' = data
      BY <1>14, <2>4
    <3>2. Payload = [i \in 1 .. n |-> data[i - 1]]
      BY <3>1 DEF Payload
    <3>3. \A i \in 1 .. n : data[i - 1] = query.data[i]
      <4> SUFFICES ASSUME NEW i \in 1 .. n PROVE data[i - 1] = query.data[i]
        OBVIOUS
      <4>1. i - 1 \in 0 .. n - 1 /\ (i - 1) + 1 = i
        BY <1>1
      <4> QED
        BY <1>7, <2>4, <4>1
    <3> QED
      BY <2>2, <3>2, <3>3
  <2> QED
    BY <2>3, <2>4
<1>16. handled' = Append(handled, query)
  <2>1. handled' = Append(handled, [command |-> commandByte, data |-> Payload])
    <3>1. CASE Identify
      BY <3>1 DEF Identify, ParseEnd, Handle
    <3>2. CASE HandleSilently
      BY <3>2 DEF HandleSilently, ParseEnd, Handle
    <3>3. CASE HandleTemperature
      BY <3>3 DEF HandleTemperature, ParseEnd, Handle
    <3>4. CASE HandleI2C
      BY <3>4 DEF HandleI2C, ParseEnd, Handle
    <3> QED
      BY <1>9, <3>1, <3>2, <3>3, <3>4
  <2> QED
    BY <1>1, <1>6, <1>15, <2>1 DEF QueryOK
<1>17. data' \in [0 .. DataSize - 1 -> Bytes]
  BY <1>5, <1>14
<1>18. Reading'
  <2>1. pc = "getc" /\ next \in {"getc", "rc", "rcReset", "irReset"}
    BY <1>4 DEF Reading, GetcByte
  <2>2. CASE Identify \/ HandleSilently \/ HandleTemperature
    <3>1. pc' \in {"getc", "transmit"} /\ next' \in {next, "getc"}
      BY <2>2 DEF Identify, HandleSilently, HandleTemperature, ParseEnd, Transmit, GetcByte
    <3> QED
      BY <2>1, <3>1 DEF Reading
  <2>3. CASE HandleI2C
    <3>1. /\ commandByte = CMB_I2C /\ readData' = <<>> /\ next' = next
          /\ pc' = (CASE data'[0] \div 64 = 0 -> "writeStart"
                      [] data'[0] \div 64 = 1 -> "readStart"
                      [] OTHER -> "getc")
      BY <2>3 DEF HandleI2C, ParseEnd, Handle
    <3>2. n > 3 /\ (query.data[1] \div 64 = 1 => query.data[4] > 0)
      BY <1>1, <1>6, <3>1 DEF QueryOK
    <3>3. data'[0] = query.data[1] /\ data'[3] = query.data[4]
      <4>1. 0 \in 0 .. n - 1 /\ 3 \in 0 .. n - 1 /\ n # 0
        BY <1>1, <3>2
      <4>2. data[0] = query.data[0 + 1] /\ data[3] = query.data[3 + 1]
        BY <1>7, <4>1
      <4> QED
        BY <1>14, <4>2
    <3>4. pc' \in {"writeStart", "readStart", "getc"} /\ (pc' = "readStart" => data'[3] > 0)
      BY <3>1, <3>2, <3>3
    <3>5. dataIndex' \in 0 .. DataSize
      <4>1. n < DataSize /\ n \in Nat /\ n # 0 /\ DataSize \in Nat
        BY <1>1, <3>2, FirmwareAssumption DEF QueryOK
      <4>2. dataIndex' = n
        BY <1>14, <4>1
      <4> QED
        BY <4>1, <4>2
    <3> QED
      BY <2>1, <3>1, <3>4, <3>5 DEF Reading
  <2> QED
    BY <1>9, <2>2, <2>3
<1> QED
  BY <1>1, <1>11, <1>16, <1>17, <1>18, FrameEnds DEF GetcByte

LEMMA ParseHandles ==
  ASSUME SerialInv, Handling, Parse
  PROVE  Handling'
<1>1. GetcByte
  BY DEF Parse, ParseCommand, ParseData, ParseEscape, ParseUnexpected, ParseStart, NotHandled,
     HandledByNobody, Identify, HandleSilently, HandleTemperature, HandleI2C, ParseEnd
<1>2. PICK starts, query, q : Due(starts, query, q)
  BY <1>1, NextByte
<1>3. GetcReturn
  BY <1>1 DEF GetcByte
<1>4. q \in Nat /\ q < Size(Len(query.data)) + 3 /\ Size(Len(query.data)) \in Nat
  BY <1>2, FramesShape DEF Due, FrameShape
<1>5. CASE q = 0
  BY <1>2, <1>3, <1>5, FrameBegins
<1>6. CASE q = 1
  BY <1>2, <1>3, <1>6, CommandComes
<1>7. CASE q > 1 /\ q < Size(Len(query.data)) + 2
  BY <1>2, <1>3, <1>7, BodyGoesOn
<1>8. CASE q = Size(Len(query.data)) + 2
  BY <1>1, <1>2, <1>8, FrameHandled
<1> QED
  BY <1>4, <1>5, <1>6, <1>7, <1>8

-----------------------------------------------------------------------------
\* No error is found as long as nothing was damaged.
LEMMA GetcErrorNever ==
  ASSUME Handling
  PROVE  ~GetcError
BY DEF Handling, Clean, GetcError

\* A chip that sends hears in time that enough was read.
LEMMA I2cHandles ==
  ASSUME Handling, I2c
  PROVE  Handling'
<1>1. Typed /\ Clean /\ Reading
  BY DEF Handling
<1>2. UNCHANGED <<flow, parser, taken, lastRxError, call>>
  BY DEF I2c, I2cStartWait, I2cWrite, I2cRepStart, I2cRead, I2cStop, Here, flow, uart, receiver, line
<1>3. data' = data /\ dataIndex' = dataIndex /\ DataSize > 3 /\ DataSize \in Nat
  BY <1>2, FirmwareAssumption DEF parser
<1>4. Reading'
  <2>1. CASE I2cStartWait
    BY <1>1, <1>3, <2>1 DEF Reading, I2cStartWait
  <2>2. CASE I2cWrite
    BY <1>1, <2>2 DEF Reading, I2cWrite
  <2>3. CASE I2cRepStart
    <3>1. pc' = "readBytes" /\ readData' = <<>> /\ data[3] > 0 /\ slave' = "sending" /\ next' = next
      BY <1>1, <2>3 DEF Reading, I2cRepStart
    <3>2. readData' \in Seq({0}) /\ Len(readData') = 0
      BY <3>1
    <3> QED
      BY <1>1, <1>3, <3>1, <3>2 DEF Reading
  <2>4. CASE I2cRead
    <3>1. PICK V : readData \in Seq(V)
      BY <1>1, <2>4 DEF Reading, I2cRead
    <3>2. PICK k, limit : k = Len(readData) /\ limit = data[3] /\ k \in Nat /\ limit \in Int /\ limit > 0
      <4>1. 3 \in 0 .. DataSize - 1 /\ Bytes \subseteq Int
        BY <1>3, FirmwareAssumption
      <4>2. data[3] \in Int
        BY <1>1, <4>1 DEF Typed
      <4>3. data[3] > 0
        BY <1>1, <2>4 DEF Reading, I2cRead
      <4> QED
        BY <3>1, <4>2, <4>3, LenProperties
    <3>3. CASE k < limit
      <4>1. PICK value : readData' = Append(readData, value)
        BY <2>4, <3>2, <3>3 DEF I2cRead
      <4>2. readData \in Seq(V \cup {value})
        BY <3>1, SeqOfMore
      <4>3. readData' \in Seq(V \cup {value}) /\ Len(readData') = k + 1
        BY <3>2, <4>1, <4>2, AppendProperties
      <4>4. pc = "readBytes" /\ pc' = "readBytes" /\ next' = next
            /\ slave' = IF k # limit - 1 THEN "sending" ELSE "listening"
        BY <2>4, <3>2, <3>3 DEF I2cRead
      <4>5. IF k + 1 < limit THEN slave' = "sending" ELSE k + 1 = limit /\ slave' = "listening"
        BY <3>2, <3>3, <4>4
      <4>6. data'[3] = limit
        BY <1>3, <3>2
      <4> QED
        BY <1>1, <3>2, <4>3, <4>4, <4>5, <4>6 DEF Reading
    <3>4. CASE ~(k < limit)
      <4>1. pc = "readBytes" /\ pc' = "readStop" /\ next' = next /\ slave' = slave
        BY <2>4, <3>2, <3>4 DEF I2cRead
      <4>2. slave = "listening"
        BY <1>1, <3>2, <3>4, <4>1 DEF Reading
      <4> QED
        BY <1>1, <4>1, <4>2 DEF Reading
    <3> QED
      BY <3>3, <3>4
  <2>5. CASE I2cStop
    BY <1>1, <2>5 DEF Reading, I2cStop, Transmit
  <2> QED
    BY <2>1, <2>2, <2>3, <2>4, <2>5 DEF I2c
<1> QED
  BY <1>2, <1>4, ElsewhereHandles

\* The other steps of main leave what was received and parsed alone.
LEMMA PutcHandles ==
  ASSUME SerialInv, Handling, Putc
  PROVE  Handling'
<1>1. Clean /\ Reading /\ CallShape
  BY DEF Handling, SerialInv
<1>2. /\ pc = "transmit" /\ pc' \in {"transmit", next} /\ next' = next
      /\ UNCHANGED <<flow, parser, taken, lastRxError, bus>>
  BY DEF Putc, PutcStore, PutcPublish, PutcEnable, main, flow, line, receiver
<1>3. call.at # "advanced" /\ call'.at # "advanced" /\ call'.error = {}
  <2>1. CASE \E byte : PutcStore(byte)
    BY <2>1 DEF PutcStore, NoCall
  <2>2. CASE PutcPublish
    BY <1>1, <2>2 DEF PutcPublish, Clean, CallShape
  <2>3. CASE PutcEnable
    BY <2>3 DEF PutcEnable, NoCall
  <2> QED
    BY <2>1, <2>2, <2>3 DEF Putc
<1>4. Reading'
  BY <1>1, <1>2 DEF Reading
<1> QED
  BY <1>2, <1>3, <1>4, ElsewhereHandles

LEMMA LoopHandles ==
  ASSUME Handling, Loop \/ NoData
  PROVE  Handling'
<1>1. Reading
  BY DEF Handling
<1>2. UNCHANGED <<flow, parser, taken, lastRxError, call, bus>>
  BY DEF Loop, NoInterrupts, LoadCounter, StoreCounter, NoCode, SendCode, ResetCode, Elsewhere,
         NoData, flow, line, uart, receiver
<1>3. /\ pc' \in {"interrupts", "decrement", "transmit", "rc", "ir", "getc"}
      /\ next' \in {next, "rc", "rcReset", "irReset"}
  <2>1. CASE NoData \/ NoInterrupts \/ LoadCounter \/ StoreCounter
    BY <2>1 DEF NoData, NoInterrupts, LoadCounter, StoreCounter, Transmit
  <2>2. CASE \E kind \in {"rc", "ir"} : NoCode(kind) \/ SendCode(kind) \/ ResetCode(kind)
    BY <2>2 DEF NoCode, SendCode, ResetCode, Transmit, Following, Reset
  <2> QED
    BY <2>1, <2>2 DEF Loop
<1>4. Reading'
  BY <1>1, <1>3 DEF Reading
<1> QED
  BY <1>2, <1>4, ElsewhereHandles

LEMMA InterruptsHandle ==
  ASSUME Handling, DataRegisterEmpty \/ PinChange \/ CodeReceived \/ UNCHANGED vars
  PROVE  Handling'
<1>1. UNCHANGED <<flow, parser, taken, lastRxError, call, bus, main>>
  BY DEF DataRegisterEmpty, PinChange, CodeReceived, TransmitInterrupt, flow, line, uart, receiver,
         vars
<1>2. Reading'
  BY <1>1 DEF Handling, Reading, bus, main, parser
<1> QED
  BY <1>1, <1>2, ElsewhereHandles

\* Nothing repairs what was damaged.
LEMMA DamageStays ==
  ASSUME [Next]_vars, damaged
  PROVE  damaged'
<1>1. CASE UNCHANGED damaged
  BY <1>1
<1>2. CASE Getc \/ NoData \/ GetcError \/ Putc
  BY <1>2 DEF Getc, NoData, GetcError, Putc, line
<1>3. CASE Parse
  <2>1. CASE ParseCommand \/ ParseData \/ ParseEscape \/ ParseUnexpected \/ ParseStart
    <3>1. UNCHANGED line
      BY <2>1 DEF ParseCommand, ParseData, ParseEscape, ParseUnexpected, ParseStart
    <3> QED
      BY <3>1 DEF line
  <2>2. CASE NotHandled
    BY <2>2 DEF NotHandled, ParseEnd, line
  <2>3. CASE HandledByNobody
    BY <2>3 DEF HandledByNobody, ParseEnd, line
  <2>4. CASE Identify
    BY <2>4 DEF Identify, ParseEnd, line
  <2>5. CASE HandleSilently
    BY <2>5 DEF HandleSilently, ParseEnd, line
  <2>6. CASE HandleTemperature
    BY <2>6 DEF HandleTemperature, ParseEnd, line
  <2>7. CASE HandleI2C
    BY <2>7 DEF HandleI2C, ParseEnd, line
  <2> QED
    BY <1>3, <2>1, <2>2, <2>3, <2>4, <2>5, <2>6, <2>7 DEF Parse
<1>4. CASE I2c
  BY <1>4 DEF I2c, I2cStartWait, I2cWrite, I2cRepStart, I2cRead, I2cStop, Here, line
<1>5. CASE Loop
  BY <1>5 DEF Loop, NoInterrupts, LoadCounter, StoreCounter, NoCode, SendCode, ResetCode,
     Elsewhere, line
<1>6. CASE Arrive \/ DataRegisterEmpty \/ Environment
  BY <1>6 DEF Arrive, DataRegisterEmpty, Environment, HostSends, ArriveDamaged, PinChange,
     CodeReceived, line
<1> QED
  BY <1>1, <1>2, <1>3, <1>4, <1>5, <1>6 DEF Next, Main, vars, line

LEMMA HandlingStep ==
  ASSUME SerialInv, HandlingInv, [Next]_vars
  PROVE  HandlingInv'
<1> SUFFICES ASSUME ~damaged' PROVE Handling'
  BY DEF HandlingInv
<1>1. Handling
  BY DamageStays DEF HandlingInv
<1>2. CASE Getc
  BY <1>1, <1>2, GetcHandles
<1>3. CASE GetcError
  BY <1>1, <1>3, GetcErrorNever
<1>4. CASE Parse
  BY <1>1, <1>4, ParseHandles
<1>5. CASE I2c
  BY <1>1, <1>5, I2cHandles
<1>6. CASE Putc
  BY <1>1, <1>6, PutcHandles
<1>7. CASE Loop \/ NoData
  BY <1>1, <1>7, LoopHandles
<1>8. CASE Arrive
  BY <1>1, <1>8, ArriveHandles
<1>9. CASE DataRegisterEmpty \/ PinChange \/ CodeReceived \/ UNCHANGED vars
  BY <1>1, <1>9, InterruptsHandle
<1>10. CASE HostSends
  BY <1>1, <1>10, HostSendsHandles
<1>11. CASE ArriveDamaged
  BY <1>11 DEF ArriveDamaged
<1> QED
  BY <1>2, <1>3, <1>4, <1>5, <1>6, <1>7, <1>8, <1>9, <1>10, <1>11 DEF Next, Main, Environment

LEMMA HandlingInvariant == Spec => [](SerialInv /\ HandlingInv)
<1>1. Init => SerialInv /\ HandlingInv
  BY SerialInvInit, HandlingInit
<1>2. SerialInv /\ HandlingInv /\ [Next]_vars => (SerialInv /\ HandlingInv)'
  BY SerialStep, HandlingStep
<1> QED
  BY <1>1, <1>2, PTL DEF Spec

\* What StuckOnlyAfterDamage says of the board's main program: without a damaged byte no
\* query leads to the empty slot of the handler table or to a stop condition that never comes.
THEOREM StuckByDamageOnly == Spec => []StuckOnlyAfterDamage
<1>1. HandlingInv => StuckOnlyAfterDamage
  <2> SUFFICES ASSUME HandlingInv, ~damaged
               PROVE  /\ pc # "crashed" /\ ~(pc = "readStop" /\ slave = "sending")
                      /\ ~(pc = "writeBytes" /\ dataIndex > DataSize)
    BY DEF StuckOnlyAfterDamage
  <2>1. Reading /\ DataSize \in Nat
    BY FirmwareAssumption DEF HandlingInv, Handling
  <2> QED
    BY <2>1 DEF Reading
<1> QED
  BY <1>1, HandlingInvariant, PTL

\* What HandledAsAsked says of parser and handlers, for any queries.
THEOREM QueriesHandled == Spec => []HandledAsAsked
<1>1. ASSUME SerialInv, HandlingInv PROVE HandledAsAsked
  <2> SUFFICES ASSUME ~damaged
               PROVE  /\ IsPrefix(handled, asked)
                      /\ incoming = <<>> /\ Received = <<>> /\ call = NoCall => handled = asked
    BY DEF HandledAsAsked
  <2>1. Typed /\ TakenFirst
    BY <1>1, TakenAreFirst DEF HandlingInv, Handling, SerialInv
  <2>2. PICK starts : Starts(starts) /\ Delivered(starts)
    BY <1>1 DEF HandlingInv, Handling
  <2>3. PICK n, m : n = Len(asked) /\ m = Len(handled) /\ n \in Nat /\ m \in Nat
    <3>1. asked \in Seq(Queries) /\ handled \in Seq(Queries)
      BY <2>1 DEF Typed
    <3> QED
      BY <3>1, LenProperties
  <2>4. m <= n /\ \A i \in 1 .. m : handled[i] = asked[i]
    BY <2>2, <2>3 DEF Delivered
  <2>5. handled = [i \in 1 .. m |-> handled[i]] /\ asked = [i \in 1 .. n |-> asked[i]]
    BY <2>1, <2>3 DEF Typed
  <2>6. IsPrefix(handled, asked)
    <3>1. SubSeq(asked, 1, m) = [i \in 1 .. m |-> asked[i]]
      BY <2>1, <2>3, <2>4 DEF Typed
    <3>2. handled = SubSeq(asked, 1, m)
      BY <2>4, <2>5, <3>1
    <3> QED
      BY <2>3, <2>4, <3>2 DEF IsPrefix
  <2>7. ASSUME incoming = <<>>, Received = <<>>, call = NoCall PROVE handled = asked
    <3>1. Parsed = Len(taken) /\ Len(taken) = Len(arrived) /\ Len(arrived) \in Nat
      BY <2>1, <2>7 DEF TakenFirst, Parsed, NoCall
    <3>2. Total = Parsed /\ Parsed \in Nat
      BY <2>7, <3>1 DEF Total
    <3>3. m = n
      <4> SUFFICES ASSUME m < n PROVE FALSE
        BY <2>3, <2>4
      <4>1. m + 1 \in 1 .. n + 1 /\ n + 1 \in 1 .. n + 1 /\ m + 1 < n + 1 /\ m + 1 \in 1 .. n
        BY <2>3
      <4>2. /\ starts[n + 1] = Parsed /\ starts[m + 1] < starts[n + 1] /\ starts[m + 1] \in Nat
            /\ (m + 1) + 1 \in 1 .. n + 1 /\ starts[(m + 1) + 1] \in Nat
            /\ starts[(m + 1) + 1] = starts[m + 1] + Len(Framed(asked[m + 1]))
            /\ (m + 1) + 1 < n + 1 => starts[(m + 1) + 1] < starts[n + 1]
        BY <2>2, <2>3, <3>2, <4>1 DEF Starts
      <4>3. Within(asked[m + 1], Parsed - starts[m + 1])
        BY <2>2, <2>3, <3>2, <4>2 DEF Delivered
      <4>4. asked[m + 1] \in Queries
        BY <2>1, <2>3, <4>1, ElementOfSeq DEF Typed
      <4>5. PICK size \in Nat : size = Len(Framed(asked[m + 1])) /\ Parsed - starts[m + 1] < size
        BY <4>3, <4>4, FramesShape DEF FrameShape, Within
      <4>6. starts[(m + 1) + 1] <= Parsed
        BY <2>3, <3>2, <4>1, <4>2
      <4> QED
        BY <3>2, <4>2, <4>5, <4>6
    <3> QED
      BY <2>4, <2>5, <3>3
  <2> QED
    BY <2>6, <2>7
<1> QED
  BY <1>1, HandlingInvariant, PTL

-----------------------------------------------------------------------------
(* The host's parser: escape bytes *)

\* The flags of a block have the bits of the bytes that are 0xFF.
Says(flags, bytes, last, n) ==
  \A i \in 0 .. n - 1 : Host!Bit(flags, i) <=> bytes[last - i] = 255

LEMMA FlagsSayIt ==
  ASSUME NEW bytes, NEW last \in Nat, NEW n \in 0 .. 8
  PROVE  /\ Host!FullFlags(bytes, last, n) \in 0 .. 255
         /\ Says(Host!FullFlags(bytes, last, n), bytes, last, n)
         /\ Host!FullFlags(bytes, last, n) = 255 <=>
              n = 8 /\ \A i \in 0 .. 7 : bytes[last - i] = 255
<1> DEFINE marked(i) == i < n /\ bytes[last - i] = 255
           f(i) == IF marked(i) THEN 1 ELSE 0
           s == Host!FullFlags(bytes, last, n)
<1>1. PICK f0, f1, f2, f3, f4, f5, f6, f7 :
        /\ f0 = f(0) /\ f1 = f(1) /\ f2 = f(2) /\ f3 = f(3)
        /\ f4 = f(4) /\ f5 = f(5) /\ f6 = f(6) /\ f7 = f(7)
  OBVIOUS
<1>2. /\ f0 \in {0, 1} /\ f1 \in {0, 1} /\ f2 \in {0, 1} /\ f3 \in {0, 1}
      /\ f4 \in {0, 1} /\ f5 \in {0, 1} /\ f6 \in {0, 1} /\ f7 \in {0, 1}
  BY <1>1
<1>3. /\ 2^0 = 1 /\ 2^1 = 2 /\ 2^2 = 4 /\ 2^3 = 8 /\ 2^4 = 16 /\ 2^5 = 32 /\ 2^6 = 64 /\ 2^7 = 128
  OBVIOUS
<1>4. s = f0 + 2 * f1 + 4 * f2 + 8 * f3 + 16 * f4 + 32 * f5 + 64 * f6 + 128 * f7
  <2> DEFINE flag(i) == IF i < n /\ bytes[last - i] = 255 THEN 2^i ELSE 0
  <2>1. /\ flag(0) = f0 /\ flag(1) = 2 * f1 /\ flag(2) = 4 * f2 /\ flag(3) = 8 * f3
        /\ flag(4) = 16 * f4 /\ flag(5) = 32 * f5 /\ flag(6) = 64 * f6 /\ flag(7) = 128 * f7
    BY <1>1, <1>3
  <2>2. s = flag(0) + flag(1) + flag(2) + flag(3) + flag(4) + flag(5) + flag(6) + flag(7)
    BY DEF Host!FullFlags
  <2> HIDE DEF flag, s
  <2> QED
    BY <2>1, <2>2
<1>5. /\ s \in 0 .. 255
      /\ (s \div 1) % 2 = f0 /\ (s \div 2) % 2 = f1 /\ (s \div 4) % 2 = f2
      /\ (s \div 8) % 2 = f3 /\ (s \div 16) % 2 = f4 /\ (s \div 32) % 2 = f5
      /\ (s \div 64) % 2 = f6 /\ (s \div 128) % 2 = f7
      /\ s = 255 <=> /\ f0 = 1 /\ f1 = 1 /\ f2 = 1 /\ f3 = 1
                     /\ f4 = 1 /\ f5 = 1 /\ f6 = 1 /\ f7 = 1
  <2> HIDE DEF s, f, marked
  <2> QED
    BY <1>2, <1>4
<1>6. /\ Host!Bit(s, 0) <=> marked(0)
      /\ Host!Bit(s, 1) <=> marked(1)
      /\ Host!Bit(s, 2) <=> marked(2)
      /\ Host!Bit(s, 3) <=> marked(3)
      /\ Host!Bit(s, 4) <=> marked(4)
      /\ Host!Bit(s, 5) <=> marked(5)
      /\ Host!Bit(s, 6) <=> marked(6)
      /\ Host!Bit(s, 7) <=> marked(7)
  <2> HIDE DEF s
  <2> QED
    BY <1>1, <1>2, <1>3, <1>5 DEF Host!Bit
<1>7. ASSUME NEW i \in 0 .. n - 1 PROVE Host!Bit(s, i) <=> bytes[last - i] = 255
  <2>1. i \in {0, 1, 2, 3, 4, 5, 6, 7} /\ i < n
    OBVIOUS
  <2>2. Host!Bit(s, i) <=> marked(i)
    <3> HIDE DEF marked, s
    <3> QED
      BY <1>6, <2>1
  <2> QED
    BY <2>1, <2>2
<1>8. s = 255 <=> n = 8 /\ \A i \in 0 .. 7 : bytes[last - i] = 255
  <2>1. s = 255 <=> /\ marked(0) /\ marked(1) /\ marked(2) /\ marked(3)
                    /\ marked(4) /\ marked(5) /\ marked(6) /\ marked(7)
    <3> HIDE DEF marked, s
    <3> QED
      BY <1>1, <1>5
  <2>2. marked(7) => n = 8
    OBVIOUS
  <2>3. n = 8 => \A i \in 0 .. 7 : marked(i) <=> bytes[last - i] = 255
    OBVIOUS
  <2>4. \A i \in 0 .. 7 : i \in {0, 1, 2, 3, 4, 5, 6, 7}
    OBVIOUS
  <2> HIDE DEF marked, s
  <2> QED
    BY <2>1, <2>2, <2>3, <2>4
<1>9. Says(s, bytes, last, n)
  BY <1>7 DEF Says
<1> QED
  BY <1>5, <1>8, <1>9

\* No byte is sent as 0xFF but the delimiters.
LEMMA FlagsAreBytes ==
  ASSUME NEW bytes, NEW last \in Nat, NEW n \in 0 .. 8
  PROVE  Host!Flags(bytes, last, n) \in 0 .. 254
<1>1. Host!FullFlags(bytes, last, n) \in 0 .. 255
  BY FlagsSayIt
<1> DEFINE s == Host!FullFlags(bytes, last, n)
<1>2. Host!Flags(bytes, last, n) = IF s = 255 THEN 127 ELSE s
  BY DEF Host!Flags
<1> HIDE DEF s
<1> QED
  BY <1>1, <1>2 DEF s

\* The flags of an incomplete block, and of one that is not all 0xFF, say which are.
LEMMA FlagsDecode ==
  ASSUME NEW bytes, NEW last \in Nat, NEW n \in 0 .. 8,
         n < 8 \/ \E i \in 0 .. 7 : bytes[last - i] # 255
  PROVE  Says(Host!Flags(bytes, last, n), bytes, last, n)
<1>1. Host!FullFlags(bytes, last, n) # 255
  BY FlagsSayIt
<1>2. Host!Flags(bytes, last, n) = Host!FullFlags(bytes, last, n)
  BY <1>1 DEF Host!Flags
<1>3. Says(Host!FullFlags(bytes, last, n), bytes, last, n)
  BY FlagsSayIt
<1> QED
  BY <1>2, <1>3

\* A block of nothing but 0xFF has the flags of seven.
LEMMA FlagsOfFull ==
  ASSUME NEW bytes, NEW last \in Nat, Host!FullBlock(bytes, last)
  PROVE  /\ Host!Flags(bytes, last, 8) = 127
         /\ \A i \in 0 .. 6 : Host!Bit(127, i)
<1>1. Host!FullFlags(bytes, last, 8) = 255
  BY FlagsSayIt DEF Host!FullBlock
<1>2. Host!Flags(bytes, last, 8) = 127
  BY <1>1 DEF Host!Flags
<1>3. ASSUME NEW i \in 0 .. 6 PROVE Host!Bit(127, i)
  <2>1. i \in {0, 1, 2, 3, 4, 5, 6} /\ i \in 0 .. 7
    OBVIOUS
  <2>2. PICK weight : weight = 2^i
    OBVIOUS
  <2>3. weight \in {1, 2, 4, 8, 16, 32, 64}
    <3>1. 2^i = CASE i = 0 -> 1 [] i = 1 -> 2 [] i = 2 -> 4 [] i = 3 -> 8
                  [] i = 4 -> 16 [] i = 5 -> 32 [] i = 6 -> 64 [] i = 7 -> 128
      BY <2>1, Weights
    <3> QED
      BY <2>1, <2>2, <3>1
  <2>4. (127 \div weight) % 2 = 1
    BY <2>3
  <2> QED
    BY <2>2, <2>4 DEF Host!Bit
<1> QED
  BY <1>2, <1>3

-----------------------------------------------------------------------------
(* The host's parser: the body of a frame *)

\* The bytes of a body for n of data, and those of the data among the first b of a body.
BodySize(n) == n + (n + 7) \div 8
Before(b) == b - b \div 9

LEMMA BeforeMoves ==
  ASSUME NEW b \in Nat
  PROVE  /\ Before(b) \in Nat /\ 8 * (b \div 9) <= Before(b) /\ b \div 9 \in Nat
         /\ b % 9 # 8 => /\ Before(b + 1) = Before(b) + 1 /\ (b + 1) % 9 # 0
                         /\ (b + 1) \div 9 = b \div 9
                         /\ Before(b + 1) % 8 = 0 <=> (b + 1) % 9 = 8
         /\ b % 9 = 8 => /\ Before(b + 1) = Before(b) /\ (b + 1) % 9 = 0
                         /\ (b + 1) \div 9 = b \div 9 + 1
                         /\ Before(b) = 8 * (b \div 9) + 8
BY DEF Before

LEMMA BeforeEnds ==
  ASSUME NEW n \in Nat, n > 0
  PROVE  /\ BodySize(n) \in Nat /\ BodySize(n) > n
         /\ \A b \in 0 .. BodySize(n) - 1 :
              /\ Before(b) <= n
              /\ b # BodySize(n) - 1 /\ b % 9 # 8 => Before(b) < n
         /\ n % 8 # 0 => /\ Before(BodySize(n)) = n + 1 /\ (BodySize(n) - 1) % 9 # 8
                         /\ Before(BodySize(n) - 1) = n
                         /\ 8 * (BodySize(n) \div 9) + (n % 8) = n
         /\ n % 8 = 0 => (BodySize(n) - 1) % 9 = 8
<1>1. PICK t, r : t = n \div 8 /\ r = n % 8
  OBVIOUS
<1>2. t \in Nat /\ r \in 0 .. 7 /\ n = 8 * t + r
  BY <1>1
<1>3. BodySize(n) = IF r = 0 THEN 9 * t ELSE 9 * t + r + 1
  <2>1. (8 * t + r + 7) \div 8 = IF r = 0 THEN t ELSE t + 1
    BY <1>2
  <2> QED
    BY <1>2, <2>1 DEF BodySize
<1>4. BodySize(n) \in Nat /\ BodySize(n) > n
  BY <1>2, <1>3
<1>5. ASSUME NEW b \in 0 .. BodySize(n) - 1
      PROVE  Before(b) <= n /\ (b # BodySize(n) - 1 /\ b % 9 # 8 => Before(b) < n)
  <2>1. PICK u, v : u = b \div 9 /\ v = b % 9
    OBVIOUS
  <2>2. b \in Nat /\ b < BodySize(n)
    BY <1>4
  <2>3. u \in Nat /\ v \in 0 .. 8 /\ b = 9 * u + v /\ Before(b) = 8 * u + v
    BY <2>1, <2>2 DEF Before
  <2>4. (b # BodySize(n) - 1 => b < BodySize(n) - 1)
    BY <1>4, <2>2
  <2> QED
    BY <1>2, <1>3, <2>1, <2>2, <2>3, <2>4
<1>6. ASSUME n % 8 # 0
      PROVE  /\ Before(BodySize(n)) = n + 1 /\ (BodySize(n) - 1) % 9 # 8
             /\ Before(BodySize(n) - 1) = n
             /\ 8 * (BodySize(n) \div 9) + (n % 8) = n
  <2>1. BodySize(n) = 9 * t + (r + 1) /\ r \in 1 .. 7 /\ r = n % 8 /\ n = 8 * t + r
    BY <1>1, <1>2, <1>3, <1>6
  <2>2. PICK e : e = BodySize(n)
    OBVIOUS
  <2>3. e \div 9 = t /\ (e - 1) \div 9 = t /\ (e - 1) % 9 = r
    BY <1>2, <2>1, <2>2
  <2>4. Before(e) = e - t /\ Before(e - 1) = (e - 1) - t
    BY <2>3 DEF Before
  <2> QED
    BY <1>2, <2>1, <2>2, <2>3, <2>4
<1>7. ASSUME n % 8 = 0 PROVE (BodySize(n) - 1) % 9 = 8
  BY <1>1, <1>2, <1>3, <1>7
<1> QED
  BY <1>4, <1>5, <1>6, <1>7

PacketOK(packet) ==
  /\ packet = [command |-> packet.command, data |-> packet.data]
  /\ packet.command \in Commands /\ packet.command \in 0 .. 254 /\ packet.data \in Payloads
  /\ packet.data \in Seq(0 .. 255) /\ Len(packet.data) \in Nat /\ Len(packet.data) > 0

LEMMA PacketsOK == \A packet \in Host!Packets : PacketOK(packet)
<1> SUFFICES ASSUME NEW packet \in Host!Packets PROVE PacketOK(packet)
  OBVIOUS
<1>1. /\ packet \in [command : Commands, data : Payloads]
      /\ Payloads \subseteq Seq(0 .. 255) \ {<<>>} /\ Commands \subseteq (0 .. 255) \ {255}
  BY HostAssumption DEF Host!Packets, Host!FramingAssumption, Host!Byte
<1>2. PICK code \in Commands, payload \in Payloads : packet = [command |-> code, data |-> payload]
  BY <1>1
<1>3. packet.command = code /\ packet.data = payload
  BY <1>2
<1>4. code \in 0 .. 254
  BY <1>1
<1>5. payload \in Seq(0 .. 255) /\ payload # <<>>
  BY <1>1
<1>6. Len(payload) \in Nat /\ Len(payload) > 0
  BY <1>5, EmptySeq, LenProperties
<1> QED
  BY <1>2, <1>3, <1>4, <1>5, <1>6 DEF PacketOK

\* Byte j of a body.
BodyByte(bytes, j) ==
  IF j % 9 = 0 THEN Host!Flags(bytes, Before(j - 1), 8)
  ELSE IF j = BodySize(Len(bytes)) THEN Host!Flags(bytes, Len(bytes), Len(bytes) % 8)
  ELSE Host!Encoded(bytes, Before(j - 1) + 1)

\* What encloses a body.
LEMMA Enclosed ==
  ASSUME NEW V, NEW mark \in V, NEW code \in V, NEW body \in Seq(V), NEW size, size = Len(body)
  PROVE  LET frame == <<mark, code>> \o body \o <<mark>>
         IN /\ frame \in Seq(V) /\ Len(frame) = size + 3
            /\ frame[1] = mark /\ frame[2] = code /\ frame[size + 3] = mark
            /\ \A j \in 1 .. size : frame[j + 2] = body[j]
<1>1. PICK front, back : front = <<mark, code>> /\ back = <<mark>>
  OBVIOUS
<1>2. /\ front \in Seq(V) /\ Len(front) = 2 /\ front[1] = mark /\ front[2] = code
      /\ back \in Seq(V) /\ Len(back) = 1 /\ back[1] = mark
  BY <1>1
<1>3. size \in Nat
  BY LenProperties
<1>4. PICK begun : begun = front \o body
  OBVIOUS
<1>5. /\ begun \in Seq(V) /\ Len(begun) = 2 + size
      /\ \A i \in 1 .. 2 + size : begun[i] = IF i <= 2 THEN front[i] ELSE body[i - 2]
  <2>1. front \in Seq(V) /\ Len(front) = 2 /\ size = Len(body)
    BY <1>2
  <2>2. /\ begun \in Seq(V) /\ Len(begun) = Len(front) + Len(body)
        /\ \A i \in 1 .. Len(front) + Len(body) :
             begun[i] = IF i <= Len(front) THEN front[i] ELSE body[i - Len(front)]
    BY <1>4, <2>1, ConcatProperties
  <2> QED
    BY <2>1, <2>2
<1>6. PICK frame : frame = begun \o back
  OBVIOUS
<1>7. /\ frame \in Seq(V) /\ Len(frame) = (2 + size) + 1
      /\ \A i \in 1 .. (2 + size) + 1 :
           frame[i] = IF i <= 2 + size THEN begun[i] ELSE back[i - (2 + size)]
  <2>1. begun \in Seq(V) /\ back \in Seq(V)
    BY <1>2, <1>5
  <2>2. /\ frame \in Seq(V) /\ Len(frame) = Len(begun) + Len(back)
        /\ \A i \in 1 .. Len(begun) + Len(back) :
             frame[i] = IF i <= Len(begun) THEN begun[i] ELSE back[i - Len(begun)]
    BY <1>6, <2>1, ConcatProperties
  <2>3. Len(begun) = 2 + size /\ Len(back) = 1
    BY <1>2, <1>5
  <2> QED
    BY <2>2, <2>3
<1>8. frame[1] = mark /\ frame[2] = code
  <2>1. /\ 1 \in 1 .. (2 + size) + 1 /\ 2 \in 1 .. (2 + size) + 1 /\ 1 <= 2 + size /\ 2 <= 2 + size
        /\ 1 \in 1 .. 2 + size /\ 2 \in 1 .. 2 + size
    BY <1>3
  <2> QED
    BY <1>2, <1>5, <1>7, <2>1
<1>9. frame[size + 3] = mark
  <2>1. /\ size + 3 \in 1 .. (2 + size) + 1 /\ ~(size + 3 <= 2 + size)
        /\ (size + 3) - (2 + size) = 1
    BY <1>3
  <2> QED
    BY <1>2, <1>7, <2>1
<1>10. ASSUME NEW j \in 1 .. size PROVE frame[j + 2] = body[j]
  <2>1. /\ j + 2 \in 1 .. (2 + size) + 1 /\ j + 2 <= 2 + size /\ j + 2 \in 1 .. 2 + size
        /\ ~(j + 2 <= 2) /\ (j + 2) - 2 = j
    BY <1>3
  <2> QED
    BY <1>5, <1>7, <2>1
<1>11. Len(frame) = size + 3
  BY <1>3, <1>7
<1>12. frame = <<mark, code>> \o body \o <<mark>>
  BY <1>1, <1>4, <1>6
<1> QED
  BY <1>7, <1>8, <1>9, <1>10, <1>11, <1>12

\* A byte of a body is none of the delimiters.
LEMMA BodyBytes ==
  ASSUME NEW bytes \in Seq(Host!Byte), NEW n, n = Len(bytes), n > 0, NEW j \in 1 .. BodySize(n)
  PROVE  /\ Host!Body(bytes)[j] = BodyByte(bytes, j)
         /\ BodyByte(bytes, j) \in Host!Byte /\ BodyByte(bytes, j) # 255
<1>1. n \in Nat
  BY LenProperties
<1>2. PICK size : size = BodySize(n) /\ size \in Nat /\ size > n
  BY <1>1, BeforeEnds
<1>3. PICK k, b : k = j - (j - 1) \div 9 /\ b = j - 1
  OBVIOUS
<1>4. b \in Nat /\ b \in 0 .. size - 1 /\ j = b + 1 /\ b + 1 = j
  BY <1>2, <1>3
<1>5. Before(b) \in Nat /\ k = Before(b) + 1 /\ k - 1 = Before(b)
  <2>1. Before(b) \in Nat
    BY <1>4, BeforeMoves
  <2>2. k = Before(b) + 1
    BY <1>3, <1>4 DEF Before
  <2> QED
    BY <2>1, <2>2
<1>6. Host!Body(bytes)[j] = IF j % 9 = 0 THEN Host!Flags(bytes, k - 1, 8)
                            ELSE IF j = size THEN Host!Flags(bytes, n, n % 8)
                            ELSE Host!Encoded(bytes, k)
  BY <1>2, <1>3 DEF Host!Body, BodySize
<1>7. BodyByte(bytes, j) = IF j % 9 = 0 THEN Host!Flags(bytes, Before(b), 8)
                           ELSE IF j = size THEN Host!Flags(bytes, n, n % 8)
                           ELSE Host!Encoded(bytes, Before(b) + 1)
  BY <1>2, <1>3 DEF BodyByte
<1>8. Host!Flags(bytes, Before(b), 8) \in 0 .. 254
  <2>1. 8 \in 0 .. 8
    OBVIOUS
  <2> QED
    BY <1>5, <2>1, FlagsAreBytes
<1>9. Host!Flags(bytes, n, n % 8) \in 0 .. 254
  <2>1. n % 8 \in 0 .. 8
    BY <1>1
  <2> QED
    BY <1>1, <2>1, FlagsAreBytes
<1>10. ASSUME j % 9 # 0, j # size PROVE Host!Encoded(bytes, Before(b) + 1) \in 0 .. 254
  <2>1. b # size - 1 /\ b % 9 # 8
    <3>1. b % 9 = 8 => (b + 1) % 9 = 0
      BY <1>4, BeforeMoves
    <3> QED
      BY <1>2, <1>4, <1>10, <3>1
  <2>2. Before(b) < n
    BY <1>1, <1>2, <1>4, <2>1, BeforeEnds
  <2>3. k \in 1 .. n
    BY <1>1, <1>5, <2>2
  <2>4. bytes[k] \in Host!Byte
    BY <2>3, ElementOfSeq
  <2>5. Host!Encoded(bytes, k) \in 0 .. 254
    BY <2>4 DEF Host!Encoded, Host!Byte
  <2> QED
    BY <1>5, <2>5
<1>11. BodyByte(bytes, j) \in 0 .. 254
  BY <1>7, <1>8, <1>9, <1>10
<1>12. Host!Body(bytes)[j] = BodyByte(bytes, j)
  BY <1>5, <1>6, <1>7
<1>13. BodyByte(bytes, j) \in Host!Byte /\ BodyByte(bytes, j) # 255
  <2>1. PICK v : v = BodyByte(bytes, j)
    OBVIOUS
  <2>2. v \in 0 .. 254
    BY <1>11, <2>1
  <2>3. v \in Host!Byte /\ v # 255
    BY <2>2 DEF Host!Byte
  <2> QED
    BY <2>1, <2>3
<1> QED
  BY <1>12, <1>13

PacketShape(packet) ==
  LET frame == Host!Frame(packet)
      size == BodySize(Len(packet.data))
  IN /\ frame \in Seq(Host!Byte) /\ Len(frame) = size + 3 /\ size \in Nat /\ size > 1
     /\ frame[1] = 255 /\ frame[size + 3] = 255
     /\ frame[2] = packet.command /\ packet.command # 255
     /\ \A j \in 1 .. size :
          frame[j + 2] = BodyByte(packet.data, j) /\ frame[j + 2] # 255

LEMMA PacketsShape ==
  ASSUME NEW packet \in Host!Packets
  PROVE  PacketShape(packet)
<1>1. PICK bytes, n, size, body :
        /\ bytes = packet.data /\ n = Len(bytes) /\ size = BodySize(n) /\ body = Host!Body(bytes)
  OBVIOUS
<1>2. PacketOK(packet)
  BY PacketsOK
<1>3. n \in Nat /\ n > 0 /\ bytes \in Seq(Host!Byte)
  BY <1>1, <1>2 DEF PacketOK, Host!Byte
<1>4. size \in Nat /\ size > n /\ size > 1
  <2>1. size \in Nat /\ size > n
    BY <1>1, <1>3, BeforeEnds
  <2> QED
    BY <1>3, <2>1
<1>5. \A j \in 1 .. size :
        /\ body[j] = BodyByte(bytes, j)
        /\ BodyByte(bytes, j) \in Host!Byte /\ BodyByte(bytes, j) # 255
  BY <1>1, <1>3, BodyBytes
<1>6. body = [j \in 1 .. size |-> body[j]]
  BY <1>1 DEF Host!Body, BodySize
<1>7. body \in Seq(Host!Byte) /\ Len(body) = size
  <2>1. \A j \in 1 .. size : body[j] \in Host!Byte
    BY <1>5
  <2>2. [j \in 1 .. size |-> body[j]] \in Seq(Host!Byte)
    BY <1>4, <2>1, IsASeq
  <2>3. Len([j \in 1 .. size |-> body[j]]) = size
    BY <1>4
  <2> QED
    BY <1>6, <2>2, <2>3
<1>8. 255 \in Host!Byte /\ packet.command \in Host!Byte /\ packet.command # 255
  <2>1. PICK v : v = packet.command
    OBVIOUS
  <2>2. v \in 0 .. 254
    BY <1>2, <2>1 DEF PacketOK
  <2>3. 255 \in Host!Byte /\ v \in Host!Byte /\ v # 255
    BY <2>2 DEF Host!Byte
  <2> QED
    BY <2>1, <2>3
<1>9. PICK frame : frame = Host!Frame(packet)
  OBVIOUS
<1>10. /\ frame \in Seq(Host!Byte) /\ Len(frame) = size + 3
       /\ frame[1] = 255 /\ frame[2] = packet.command /\ frame[size + 3] = 255
       /\ \A j \in 1 .. size : frame[j + 2] = body[j]
  <2>1. frame = <<255, packet.command>> \o body \o <<255>>
    BY <1>1, <1>9 DEF Host!Frame
  <2> QED
    BY <1>7, <1>8, <2>1, Enclosed
<1> QED
  BY <1>1, <1>4, <1>5, <1>8, <1>9, <1>10 DEF PacketShape

-----------------------------------------------------------------------------
(* The host's parser: what it makes of the escape bytes *)

\* The data that are received: those of complete blocks as they were, then as they are sent.
Arrives(buffer, bytes, decoded) ==
  \A k \in 1 .. Len(bytes) :
    k \in DOMAIN buffer => buffer[k] = IF k <= decoded THEN bytes[k] ELSE Host!Encoded(bytes, k)

\* The data after an escape byte, see ParseEscape.
Escaped(buffer, byte) ==
  [Host!Unescape(buffer, 8, byte) EXCEPT ![Len(buffer) - 7] =
     IF byte = 127 /\ buffer[Len(buffer)] = 240 THEN 255 ELSE @]

LEMMA EscapedShape ==
  ASSUME NEW buffer \in Seq(Host!Byte), NEW byte
  PROVE  /\ Escaped(buffer, byte) \in Seq(Host!Byte) /\ Len(Escaped(buffer, byte)) = Len(buffer)
         /\ \A k \in 1 .. Len(buffer) :
              Escaped(buffer, byte)[k] =
                IF k = Len(buffer) - 7 /\ byte = 127 /\ buffer[Len(buffer)] = 240 THEN 255
                ELSE IF Len(buffer) - k < 8 /\ Host!Bit(byte, Len(buffer) - k) THEN 255
                ELSE buffer[k]
<1>1. PICK n, new : n = Len(buffer) /\ new = Escaped(buffer, byte)
  OBVIOUS
<1>2. n \in Nat /\ DOMAIN buffer = 1 .. n /\ \A k \in 1 .. n : buffer[k] \in Host!Byte
  BY <1>1
<1>3. PICK unescaped : unescaped = Host!Unescape(buffer, 8, byte)
  OBVIOUS
<1>4. unescaped = [k \in 1 .. n |-> IF n - k < 8 /\ Host!Bit(byte, n - k) THEN 255 ELSE buffer[k]]
  BY <1>1, <1>2, <1>3 DEF Host!Unescape
<1>5. new = [unescaped EXCEPT ![n - 7] = IF byte = 127 /\ buffer[n] = 240 THEN 255 ELSE @]
  BY <1>1, <1>3 DEF Escaped
<1>6. new = [k \in 1 .. n |-> IF k = n - 7 /\ byte = 127 /\ buffer[n] = 240 THEN 255
                              ELSE IF n - k < 8 /\ Host!Bit(byte, n - k) THEN 255 ELSE buffer[k]]
  <2>1. DOMAIN unescaped = 1 .. n
    BY <1>4
  <2>2. new = [k \in 1 .. n |-> IF k = n - 7
                               THEN IF byte = 127 /\ buffer[n] = 240 THEN 255 ELSE unescaped[k]
                               ELSE unescaped[k]]
    BY <1>5, <2>1, Zenon
  <2>3. \A k \in 1 .. n :
          unescaped[k] = IF n - k < 8 /\ Host!Bit(byte, n - k) THEN 255 ELSE buffer[k]
    BY <1>4
  <2>4. \A k \in 1 .. n : new[k] =
          IF k = n - 7 /\ byte = 127 /\ buffer[n] = 240 THEN 255
          ELSE IF n - k < 8 /\ Host!Bit(byte, n - k) THEN 255 ELSE buffer[k]
    BY <2>2, <2>3
  <2>5. new = [k \in 1 .. n |-> new[k]]
    BY <2>2
  <2> QED
    BY <2>4, <2>5
<1>7. 255 \in Host!Byte
  BY DEF Host!Byte
<1>8. \A k \in 1 .. n : new[k] \in Host!Byte
  BY <1>2, <1>6, <1>7
<1>9. new \in Seq(Host!Byte) /\ Len(new) = n
  <2>1. new = [k \in 1 .. n |-> new[k]]
    BY <1>6
  <2>2. [k \in 1 .. n |-> new[k]] \in Seq(Host!Byte)
    BY <1>2, <1>8, IsASeq
  <2>3. Len([k \in 1 .. n |-> new[k]]) = n
    BY <1>2
  <2> QED
    BY <2>1, <2>2, <2>3
<1> QED
  BY <1>1, <1>6, <1>9

LEMMA BlockDecoded ==
  ASSUME NEW bytes \in Seq(Host!Byte), NEW buffer \in Seq(Host!Byte), NEW last \in Nat,
         Len(buffer) = last, last <= Len(bytes), last % 8 = 0, last > 0,
         Arrives(buffer, bytes, last - 8)
  PROVE  Arrives(Escaped(buffer, Host!Flags(bytes, last, 8)), bytes, last)
<1>1. PICK n, byte : n = Len(bytes) /\ byte = Host!Flags(bytes, last, 8)
  OBVIOUS
<1>2. n \in Nat /\ last <= n /\ last \in 1 .. n /\ last - 7 \in 1 .. last /\ last >= 8
  <2>1. n \in Nat
    BY <1>1, LenProperties
  <2>2. last >= 8
    OBVIOUS
  <2> QED
    BY <1>1, <2>1, <2>2
<1>3. PICK new : new = Escaped(buffer, byte)
  OBVIOUS
<1>4. /\ DOMAIN new = 1 .. last
      /\ \A k \in 1 .. last :
           new[k] = IF k = last - 7 /\ byte = 127 /\ buffer[last] = 240 THEN 255
                    ELSE IF last - k < 8 /\ Host!Bit(byte, last - k) THEN 255 ELSE buffer[k]
  <2>1. new \in Seq(Host!Byte) /\ Len(new) = last
    BY <1>3, EscapedShape
  <2>2. DOMAIN new = 1 .. last
    BY <2>1
  <2>3. /\ Len(buffer) = last
        /\ \A k \in 1 .. Len(buffer) :
             new[k] = IF k = Len(buffer) - 7 /\ byte = 127 /\ buffer[Len(buffer)] = 240 THEN 255
                      ELSE IF Len(buffer) - k < 8 /\ Host!Bit(byte, Len(buffer) - k) THEN 255
                      ELSE buffer[k]
    BY <1>3, EscapedShape
  <2> QED
    BY <2>2, <2>3
<1>5. \A k \in 1 .. last :
        buffer[k] = IF k <= last - 8 THEN bytes[k] ELSE Host!Encoded(bytes, k)
  <2>1. DOMAIN buffer = 1 .. last
    OBVIOUS
  <2>2. \A k \in 1 .. last : k \in 1 .. n
    BY <1>2
  <2> QED
    BY <1>1, <2>1, <2>2 DEF Arrives
<1>6. ASSUME NEW k \in 1 .. last PROVE new[k] = bytes[k]
  <2>1. CASE k <= last - 8
    <3>1. ~(last - k < 8) /\ k # last - 7
      BY <2>1
    <3> QED
      BY <1>4, <1>5, <2>1, <3>1
  <2>2. CASE ~(k <= last - 8)
    <3>1. PICK i : i = last - k
      OBVIOUS
    <3>2. i \in 0 .. 7 /\ k = last - i /\ (k # last - 7 => i \in 0 .. 6) /\ i < 8
      BY <2>2, <3>1
    <3>3. buffer[k] = Host!Encoded(bytes, k)
      BY <1>5, <2>2
    <3>4. CASE \A j \in 0 .. 7 : bytes[last - j] = 255
      <4>1. byte = 127 /\ \A j \in 0 .. 6 : Host!Bit(byte, j)
        <5>1. Host!FullBlock(bytes, last)
          BY <3>4 DEF Host!FullBlock
        <5>2. Host!Flags(bytes, last, 8) = 127
          BY <5>1, FlagsOfFull
        <5>3. \A j \in 0 .. 6 : Host!Bit(127, j)
          BY <5>1, FlagsOfFull
        <5> QED
          BY <1>1, <5>2, <5>3
      <4>2. bytes[k] = 255
        BY <3>2, <3>4
      <4>3. buffer[last] = 240
        <5>1. bytes[last] = 255
          <6>1. 0 \in 0 .. 7 /\ last - 0 = last
            OBVIOUS
          <6> QED
            BY <3>4, <6>1
        <5>2. Host!FullBlock(bytes, last)
          BY <3>4 DEF Host!FullBlock
        <5>3. Host!Encoded(bytes, last) = 240
          BY <5>1, <5>2 DEF Host!Encoded
        <5>4. last \in 1 .. last /\ ~(last <= last - 8)
          BY <1>2
        <5>5. buffer[last] = IF last <= last - 8 THEN bytes[last] ELSE Host!Encoded(bytes, last)
          BY <1>5, <5>4
        <5> QED
          BY <5>3, <5>4, <5>5
      <4>4. new[k] = IF k = last - 7 THEN 255
                     ELSE IF last - k < 8 /\ Host!Bit(byte, last - k) THEN 255 ELSE buffer[k]
        BY <1>4, <4>1, <4>3
      <4>5. k # last - 7 => last - k < 8 /\ Host!Bit(byte, last - k)
        BY <3>1, <3>2, <4>1
      <4> QED
        BY <4>2, <4>4, <4>5
    <3>5. CASE \E j \in 0 .. 7 : bytes[last - j] # 255
      <4>1. Says(byte, bytes, last, 8)
        <5>1. 8 \in 0 .. 8
          OBVIOUS
        <5> QED
          BY <1>1, <3>5, <5>1, FlagsDecode
      <4>2. \A j \in 0 .. 7 : Host!Bit(byte, j) <=> bytes[last - j] = 255
        <5>1. \A j \in 0 .. 8 - 1 : Host!Bit(byte, j) <=> bytes[last - j] = 255
          BY <4>1 DEF Says
        <5>2. 8 - 1 = 7
          OBVIOUS
        <5> QED
          BY <5>1, <5>2
      <4>3. ~Host!FullBlock(bytes, last)
        BY <3>5 DEF Host!FullBlock
      <4>4. ~(byte = 127 /\ buffer[last] = 240)
        <5> SUFFICES ASSUME byte = 127, buffer[last] = 240 PROVE FALSE
          OBVIOUS
        <5>1. Host!Bit(127, 0)
          <6>1. 2^0 = 1
            OBVIOUS
          <6>2. (127 \div 1) % 2 = 1
            OBVIOUS
          <6> QED
            BY <6>1, <6>2 DEF Host!Bit
        <5>2. 0 \in 0 .. 7 /\ last - 0 = last /\ last \in 1 .. last /\ ~(last <= last - 8)
          BY <1>2
        <5>3. bytes[last] = 255
          BY <4>2, <5>1, <5>2
        <5>4. Host!Encoded(bytes, last) = 0
          BY <4>3, <5>3 DEF Host!Encoded
        <5> QED
          BY <1>5, <5>2, <5>4
      <4>5. new[k] = IF Host!Bit(byte, i) THEN 255 ELSE buffer[k]
        BY <1>4, <3>1, <3>2, <4>4
      <4>6. CASE bytes[k] = 255
        BY <3>2, <4>2, <4>5, <4>6
      <4>7. CASE bytes[k] # 255
        <5>1. buffer[k] = bytes[k]
          BY <3>3, <4>7 DEF Host!Encoded
        <5> QED
          BY <3>2, <4>2, <4>5, <4>7, <5>1
      <4> QED
        BY <4>6, <4>7
    <3> QED
      BY <3>4, <3>5
  <2> QED
    BY <2>1, <2>2
<1>7. Arrives(new, bytes, last)
  BY <1>4, <1>6 DEF Arrives
<1> QED
  BY <1>1, <1>3, <1>7

LEMMA LastBlockDecoded ==
  ASSUME NEW bytes \in Seq(Host!Byte), NEW buffer \in Seq(Host!Byte), NEW n,
         n = Len(bytes), n % 8 # 0, Len(buffer) = n + 1,
         Arrives(buffer, bytes, n - (n % 8)), buffer[n + 1] = Host!Flags(bytes, n, n % 8)
  PROVE  Host!Complete(buffer) = bytes
<1>1. n \in Nat
  BY LenProperties
<1>2. PICK rest, flags : rest = n % 8 /\ flags = buffer[n + 1]
  OBVIOUS
<1>3. rest \in 0 .. 8 /\ rest < 8 /\ rest # 0 /\ rest \in 1 .. 7
  <2>1. n % 8 \in 0 .. 7
    BY <1>1
  <2> QED
    BY <1>2, <2>1
<1>4. Says(flags, bytes, n, rest)
  BY <1>1, <1>2, <1>3, FlagsDecode
<1>5. PICK front : front = SubSeq(buffer, 1, n)
  OBVIOUS
<1>6. front = [k \in 1 .. n |-> buffer[k]] /\ Len(front) = n /\ DOMAIN front = 1 .. n
  BY <1>1, <1>5
<1>7. Host!Complete(buffer) = Host!Unescape(front, rest, flags)
  <2>1. (n + 1) - 1 = n
    BY <1>1
  <2> QED
    BY <1>2, <1>3, <1>5, <2>1 DEF Host!Complete
<1>8. Host!Unescape(front, rest, flags) =
        [k \in 1 .. n |-> IF n - k < rest /\ Host!Bit(flags, n - k) THEN 255 ELSE buffer[k]]
  BY <1>6 DEF Host!Unescape
<1>9. ASSUME NEW k \in 1 .. n
      PROVE  (IF n - k < rest /\ Host!Bit(flags, n - k) THEN 255 ELSE buffer[k]) = bytes[k]
  <2>1. buffer[k] = IF k <= n - rest THEN bytes[k] ELSE Host!Encoded(bytes, k)
    <3>1. k \in DOMAIN buffer
      BY <1>1
    <3> QED
      BY <1>2, <3>1 DEF Arrives
  <2>2. CASE k <= n - rest
    <3>1. ~(n - k < rest)
      BY <1>1, <1>3, <2>2
    <3> QED
      BY <2>1, <2>2, <3>1
  <2>3. CASE ~(k <= n - rest)
    <3>1. PICK i : i = n - k
      OBVIOUS
    <3>2. i \in 0 .. rest - 1 /\ n - i = k /\ i < rest
      BY <1>1, <1>3, <2>3, <3>1
    <3>3. Host!Bit(flags, i) <=> bytes[k] = 255
      BY <1>4, <3>2 DEF Says
    <3>4. bytes[k] # 255 => Host!Encoded(bytes, k) = bytes[k]
      BY DEF Host!Encoded
    <3> QED
      BY <2>1, <2>3, <3>1, <3>2, <3>3, <3>4
  <2> QED
    BY <2>2, <2>3
<1>10. bytes = [k \in 1 .. n |-> bytes[k]]
  OBVIOUS
<1> QED
  BY <1>7, <1>8, <1>9, <1>10

-----------------------------------------------------------------------------
(* The host's parser: the types of its variables *)

HostTypes ==
  /\ hostLine \in Seq(Host!Byte) /\ hostData \in Seq(Host!Byte)
  /\ hostDamaged \in BOOLEAN /\ damagedLast \in BOOLEAN
  /\ hostExpect \in {"NOTHING", "CMD", "DATA", "ESC"}
  /\ command \in Host!Byte
  /\ frames \in 0 .. MaxFrames /\ faults \in 0 .. MaxFaults
  /\ frames = 0 => hostSent = None /\ hostLine = <<>>
  /\ frames > 0 => hostSent \in Host!Packets
  /\ fired \in Seq([command : Commands, data : Seq(Host!Byte)])
  /\ hostExpect = "ESC" => hostData # <<>>
  /\ Len(hostData) <= BufferSize

LEMMA BufferIs ==
  BufferSize \in Nat \ {0} /\ \A payload \in Payloads : Len(payload) < BufferSize
BY HostAssumption DEF Host!FramingAssumption

\* What a byte that arrives leaves of the line.
LEMMA LineTypes ==
  ASSUME HostTypes, NEW byte \in Host!Byte, Host!ByteArrives(byte), UNCHANGED <<hostSent, frames>>
  PROVE  /\ hostLine' \in Seq(Host!Byte) /\ hostDamaged' \in BOOLEAN /\ faults' \in 0 .. MaxFaults
         /\ frames' = 0 => hostSent' = None /\ hostLine' = <<>>
<1>1. CASE hostLine # <<>> /\ hostLine' = Tail(hostLine) /\ UNCHANGED <<faults, hostDamaged>>
  <2>1. Tail(hostLine) \in Seq(Host!Byte)
    BY <1>1, HeadTailProperties DEF HostTypes
  <2> QED
    BY <1>1, <2>1 DEF HostTypes
<1>2. CASE hostLine = <<>> /\ faults < MaxFaults /\ faults' = faults + 1 /\ hostDamaged' = TRUE /\ UNCHANGED hostLine
  <2>1. faults + 1 \in 0 .. MaxFaults
    BY <1>2, HostAssumption DEF HostTypes, Host!FramingAssumption
  <2> QED
    BY <1>2, <2>1 DEF HostTypes
<1> QED
  BY <1>1, <1>2 DEF Host!ByteArrives

LEMMA UnescapedTypes ==
  ASSUME NEW bytes \in Seq(Host!Byte), NEW n, NEW escape
  PROVE  /\ Host!Unescape(bytes, n, escape) \in Seq(Host!Byte)
         /\ Len(Host!Unescape(bytes, n, escape)) = Len(bytes)
<1>1. PICK new : new = Host!Unescape(bytes, n, escape)
  OBVIOUS
<1>2. PICK length : length = Len(bytes) /\ length \in Nat /\ DOMAIN bytes = 1 .. length
  BY LenProperties
<1>3. \A k \in 1 .. length : bytes[k] \in Host!Byte
  BY <1>2
<1>4. 255 \in Host!Byte
  BY DEF Host!Byte
<1>5. new = [k \in 1 .. length |->
               IF length - k < n /\ Host!Bit(escape, length - k) THEN 255 ELSE bytes[k]]
  BY <1>1, <1>2 DEF Host!Unescape
<1>6. \A k \in 1 .. length : new[k] \in Host!Byte
  BY <1>3, <1>4, <1>5
<1>7. new = [k \in 1 .. length |-> new[k]]
  BY <1>5
<1>8. new \in Seq(Host!Byte)
  BY <1>2, <1>6, <1>7, IsASeq
<1>9. Len(new) = length
  BY <1>2, <1>5
<1> QED
  BY <1>1, <1>2, <1>8, <1>9

LEMMA CompleteTypes ==
  ASSUME NEW bytes \in Seq(Host!Byte), bytes # <<>>
  PROVE  Host!Complete(bytes) \in Seq(Host!Byte) /\ Len(Host!Complete(bytes)) <= Len(bytes)
<1>1. PICK length : length = Len(bytes)
  OBVIOUS
<1>2. length \in Nat /\ length > 0
  BY <1>1, LenProperties, EmptySeq
<1>3. PICK front : front = SubSeq(bytes, 1, length - 1)
  OBVIOUS
<1>4. front \in Seq(Host!Byte) /\ Len(front) = length - 1
  <2>1. \A i \in 1 .. length - 1 : bytes[i] \in Host!Byte
    BY <1>1, <1>2
  <2>2. front = [i \in 1 .. length - 1 |-> bytes[i]]
    BY <1>2, <1>3
  <2>3. length - 1 \in Nat
    BY <1>2
  <2> QED
    BY <2>1, <2>2, <2>3, IsASeq
<1>5. PICK new : new = Host!Unescape(front, (length - 1) % 8, bytes[length])
  OBVIOUS
<1>6. new \in Seq(Host!Byte) /\ Len(new) = length - 1
  BY <1>4, <1>5, UnescapedTypes
<1>7. Host!Complete(bytes) = bytes \/ Host!Complete(bytes) = new
  BY <1>1, <1>3, <1>5 DEF Host!Complete
<1>8. Len(new) <= length
  BY <1>2, <1>6
<1> QED
  BY <1>1, <1>2, <1>6, <1>7, <1>8

LEMMA HostTypesStep ==
  ASSUME HostTypes, Host!Next
  PROVE  HostTypes'
<1>1. 255 \in Host!Byte
  BY DEF Host!Byte
<1>2. CASE Host!Send
  <2>1. PICK packet \in Host!Packets : hostSent' = packet /\ hostLine' = Host!Frame(packet)
    BY <1>2 DEF Host!Send
  <2>2. Host!Frame(packet) \in Seq(Host!Byte)
    BY PacketsShape DEF PacketShape
  <2>3. frames' \in 0 .. MaxFrames /\ frames' > 0
    BY <1>2, HostAssumption DEF HostTypes, Host!Send, Host!FramingAssumption
  <2>4. /\ hostDamaged' = FALSE /\ damagedLast' = hostDamaged /\ fired' = <<>>
        /\ UNCHANGED <<faults, hostExpect, command, hostData>>
    BY <1>2 DEF Host!Send, Host!parser
  <2>5. fired' \in Seq([command : Commands, data : Seq(Host!Byte)])
    BY <2>4, EmptySeq
  <2>6. hostSent' \in Host!Packets /\ hostLine' \in Seq(Host!Byte)
    BY <2>1, <2>2
  <2>7. hostDamaged' \in BOOLEAN /\ damagedLast' \in BOOLEAN
    BY <2>4, Zenon DEF HostTypes
  <2>8. /\ hostExpect' \in {"NOTHING", "CMD", "DATA", "ESC"} /\ faults' \in 0 .. MaxFaults
        /\ command' \in Host!Byte /\ hostData' \in Seq(Host!Byte)
        /\ hostExpect' = "ESC" => hostData' # <<>>
        /\ Len(hostData') <= BufferSize
    BY <2>4 DEF HostTypes
  <2> QED
    BY <2>3, <2>5, <2>6, <2>7, <2>8 DEF HostTypes
<1>3. CASE Host!Lose
  <2>1. Tail(hostLine) \in Seq(Host!Byte)
    BY <1>3, HeadTailProperties DEF HostTypes, Host!Lose
  <2>2. faults' \in 0 .. MaxFaults
    BY <1>3, HostAssumption DEF HostTypes, Host!Lose, Host!FramingAssumption
  <2>3. /\ hostLine # <<>> /\ hostLine' = Tail(hostLine) /\ hostDamaged' = TRUE
        /\ UNCHANGED <<hostSent, frames, damagedLast, fired, hostExpect, command, hostData>>
    BY <1>3 DEF Host!Lose, Host!parser
  <2> QED
    BY <2>1, <2>2, <2>3 DEF HostTypes
<1>4. CASE Host!ParseEmpty
  <2>1. /\ Host!ByteArrives(255)
        /\ UNCHANGED <<hostSent, frames, damagedLast, fired, hostExpect, command, hostData>>
    BY <1>4 DEF Host!ParseEmpty, Host!parser
  <2> QED
    BY <1>1, <2>1, LineTypes DEF HostTypes
<1>5. CASE Host!ParseEnd
  <2>1. /\ Host!ByteArrives(255) /\ hostData # <<>> /\ hostData' = Host!Complete(hostData)
        /\ hostExpect' = "CMD" /\ UNCHANGED <<hostSent, frames, damagedLast, command>>
    BY <1>5 DEF Host!ParseEnd
  <2>2. hostData' \in Seq(Host!Byte) /\ Len(hostData') <= BufferSize
    <3>1. hostData \in Seq(Host!Byte) /\ Len(hostData) <= BufferSize
      BY DEF HostTypes
    <3>2. hostData' \in Seq(Host!Byte) /\ Len(hostData') <= Len(hostData)
      BY <2>1, <3>1, CompleteTypes
    <3> QED
      BY <3>1, <3>2, BufferIs
  <2>3. fired' \in Seq([command : Commands, data : Seq(Host!Byte)])
    <3>1. CASE command \notin Commands
      <4>1. fired' = fired
        BY <1>5, <3>1 DEF Host!ParseEnd
      <4> QED
        BY <4>1 DEF HostTypes
    <3>2. CASE command \in Commands
      <4>1. PICK packet : packet = [command |-> command, data |-> Host!Complete(hostData)]
        OBVIOUS
      <4>2. fired' = Append(fired, packet)
        BY <1>5, <3>2, <4>1 DEF Host!ParseEnd
      <4>3. packet \in [command : Commands, data : Seq(Host!Byte)]
        BY <2>1, <2>2, <3>2, <4>1
      <4>4. fired \in Seq([command : Commands, data : Seq(Host!Byte)])
        BY DEF HostTypes
      <4> QED
        BY <4>2, <4>3, <4>4, AppendProperties
    <3> QED
      BY <3>1, <3>2
  <2>4. /\ hostLine' \in Seq(Host!Byte) /\ hostDamaged' \in BOOLEAN /\ faults' \in 0 .. MaxFaults
        /\ frames' = 0 => hostSent' = None /\ hostLine' = <<>>
    BY <1>1, <2>1, LineTypes
  <2> QED
    BY <2>1, <2>2, <2>3, <2>4 DEF HostTypes
<1>6. CASE Host!ParseStart
  <2>1. /\ Host!ByteArrives(255) /\ hostExpect' = "CMD"
        /\ UNCHANGED <<hostSent, frames, damagedLast, fired, command, hostData>>
    BY <1>6 DEF Host!ParseStart
  <2> QED
    BY <1>1, <2>1, LineTypes DEF HostTypes
<1>7. ASSUME NEW byte \in Host!Byte, Host!ParseCommand(byte) PROVE HostTypes'
  <2>1. /\ Host!ByteArrives(byte) /\ hostExpect' = "DATA" /\ command' = byte /\ hostData' = <<>>
        /\ UNCHANGED <<hostSent, frames, damagedLast, fired>>
    BY <1>7 DEF Host!ParseCommand
  <2>2. hostData' \in Seq(Host!Byte) /\ Len(hostData') <= BufferSize
    BY <2>1, BufferIs, EmptySeq
  <2> QED
    BY <2>1, <2>2, LineTypes DEF HostTypes
<1>8. ASSUME NEW byte \in Host!Byte, Host!ParseData(byte) PROVE HostTypes'
  <2>1. /\ Host!ByteArrives(byte) /\ hostData' = Append(hostData, byte)
        /\ hostExpect' \in {"DATA", "ESC"} /\ Len(hostData) < BufferSize
        /\ UNCHANGED <<hostSent, frames, damagedLast, fired, command>>
    BY <1>8 DEF Host!ParseData
  <2>2. hostData' \in Seq(Host!Byte) /\ hostData' # <<>> /\ Len(hostData') <= BufferSize
    <3>1. hostData \in Seq(Host!Byte)
      BY DEF HostTypes
    <3>2. hostData' \in Seq(Host!Byte) /\ hostData' # <<>> /\ Len(hostData') = Len(hostData) + 1
      BY <2>1, <3>1, AppendProperties, EmptySeq
    <3> QED
      BY <2>1, <3>1, <3>2, BufferIs, LenProperties
  <2> QED
    BY <2>1, <2>2, LineTypes DEF HostTypes
<1>9. ASSUME NEW byte \in Host!Byte, Host!ParseEscape(byte) PROVE HostTypes'
  <2>1. /\ Host!ByteArrives(byte) /\ hostData' = Escaped(hostData, byte)
        /\ hostExpect' = "DATA"
        /\ UNCHANGED <<hostSent, frames, damagedLast, fired, command>>
    BY <1>9 DEF Host!ParseEscape, Escaped
  <2>2. hostData' \in Seq(Host!Byte) /\ Len(hostData') <= BufferSize
    BY <2>1, EscapedShape DEF HostTypes
  <2> QED
    BY <2>1, <2>2, LineTypes DEF HostTypes
<1>10. ASSUME NEW byte \in Host!Byte, Host!ParseUnhandled(byte) PROVE HostTypes'
  <2>1. /\ Host!ByteArrives(byte)
        /\ UNCHANGED <<hostSent, frames, damagedLast, fired, hostExpect, command, hostData>>
    BY <1>10 DEF Host!ParseUnhandled, Host!parser
  <2> QED
    BY <2>1, LineTypes DEF HostTypes
<1>11. ASSUME NEW byte \in Host!Byte, Host!ParseOverflow(byte) PROVE HostTypes'
  <2>1. /\ Host!ByteArrives(byte)
        /\ UNCHANGED <<hostSent, frames, damagedLast, fired, hostExpect, command, hostData>>
    BY <1>11 DEF Host!ParseOverflow, Host!parser
  <2> QED
    BY <2>1, LineTypes DEF HostTypes
<1> QED
  BY <1>2, <1>3, <1>4, <1>5, <1>6, <1>7, <1>8, <1>9, <1>10, <1>11 DEF Host!Next, Host!Arriving

-----------------------------------------------------------------------------
(* The host's parser: how far it is in a frame *)

\* What is still to arrive of a packet's frame, after pos bytes of it.
OnLine(packet, pos) ==
  /\ pos \in 0 .. BodySize(Len(packet.data)) + 3
  /\ Len(hostLine) = BodySize(Len(packet.data)) + 3 - pos
  /\ \A i \in 1 .. Len(hostLine) : hostLine[i] = Host!Frame(packet)[pos + i]

\* After an intact frame the parser waits for a command, whatever it made of the frame.
InStep(size, pos) ==
  /\ pos = 1 => hostExpect = "CMD" \/ (hostExpect = "DATA" /\ hostData = <<>>)
  /\ pos \in 2 .. size + 2 => hostExpect \in {"DATA", "ESC"}
  /\ pos \in 3 .. size + 2 => hostData # <<>>
  /\ pos = size + 3 => hostExpect = "CMD"

\* What the parser has of the data once b bytes of the body have arrived.
Has(bytes, buffer, b) ==
  /\ Len(buffer) = Before(b)
  /\ Arrives(buffer, bytes, 8 * (b \div 9))
  /\ Len(bytes) + 1 \in DOMAIN buffer =>
       buffer[Len(bytes) + 1] = Host!Flags(bytes, Len(bytes), Len(bytes) % 8)

InBody(packet, b) ==
  /\ command = packet.command /\ fired = <<>>
  /\ hostExpect = IF b % 9 = 8 THEN "ESC" ELSE "DATA"
  /\ Has(packet.data, hostData, b)

\* After two intact frames it makes of the second what was sent.
Exact(packet, size, pos) ==
  /\ pos = 0 => hostExpect \in {"NOTHING", "CMD"} /\ fired = <<>>
  /\ pos = 1 => hostExpect = "CMD" /\ fired = <<>>
  /\ pos \in 2 .. size + 2 => InBody(packet, pos - 2)
  /\ pos = size + 3 /\ Len(packet.data) % 8 # 0 => fired = <<packet>>

HostInv ==
  /\ frames = 0 => hostDamaged \/ hostExpect = "NOTHING"
  /\ frames > 0 /\ ~hostDamaged =>
       \E pos \in Nat :
         LET size == BodySize(Len(hostSent.data))
         IN /\ OnLine(hostSent, pos) /\ InStep(size, pos)
            /\ ~damagedLast => Exact(hostSent, size, pos)

\* The byte that arrives after pos others.
LEMMA ByteInFrame ==
  ASSUME NEW packet \in Host!Packets, NEW size, size = BodySize(Len(packet.data)),
         NEW pos \in Nat, OnLine(packet, pos), hostLine # <<>>, hostLine \in Seq(Host!Byte)
  PROVE  /\ size \in Nat /\ size > 1 /\ pos < size + 3
         /\ pos = 0 => Head(hostLine) = 255
         /\ pos = 1 => Head(hostLine) = packet.command /\ packet.command # 255
         /\ pos \in 2 .. size + 1 => /\ Head(hostLine) = BodyByte(packet.data, pos - 1)
                                     /\ Head(hostLine) # 255
         /\ pos = size + 2 => Head(hostLine) = 255
<1>1. PICK frame : frame = Host!Frame(packet)
  OBVIOUS
<1>2. /\ size \in Nat /\ size > 1
      /\ frame[1] = 255 /\ frame[size + 3] = 255 /\ frame[2] = packet.command
      /\ packet.command # 255
      /\ \A j \in 1 .. size : frame[j + 2] = BodyByte(packet.data, j) /\ frame[j + 2] # 255
  BY <1>1, PacketsShape DEF PacketShape
<1>3. PICK length : length = Len(hostLine)
  OBVIOUS
<1>4. length \in Nat /\ length > 0
  BY <1>3, LenProperties, EmptySeq
<1>5. /\ length = size + 3 - pos /\ \A i \in 1 .. length : hostLine[i] = frame[pos + i]
  BY <1>1, <1>3 DEF OnLine
<1>6. pos < size + 3
  BY <1>2, <1>4, <1>5
<1>7. Head(hostLine) = frame[pos + 1]
  <2>1. 1 \in 1 .. length
    BY <1>4
  <2>2. Head(hostLine) = hostLine[1]
    OBVIOUS
  <2> QED
    BY <1>5, <2>1, <2>2
<1>8. pos \in 2 .. size + 1 => /\ frame[pos + 1] = BodyByte(packet.data, pos - 1)
                               /\ frame[pos + 1] # 255
  <2> SUFFICES ASSUME pos \in 2 .. size + 1
               PROVE  frame[pos + 1] = BodyByte(packet.data, pos - 1) /\ frame[pos + 1] # 255
    OBVIOUS
  <2>1. pos - 1 \in 1 .. size /\ (pos - 1) + 2 = pos + 1
    BY <1>2
  <2>2. \A j \in 1 .. size : frame[j + 2] = BodyByte(packet.data, j) /\ frame[j + 2] # 255
    BY <1>2
  <2>3. /\ frame[(pos - 1) + 2] = BodyByte(packet.data, pos - 1)
        /\ frame[(pos - 1) + 2] # 255
    BY <2>1, <2>2
  <2> QED
    BY <2>1, <2>3
<1>9. pos = 0 => frame[pos + 1] = 255
  BY <1>2
<1>10. pos = 1 => frame[pos + 1] = packet.command
  BY <1>2
<1>11. pos = size + 2 => frame[pos + 1] = 255
  <2> SUFFICES ASSUME pos = size + 2 PROVE frame[pos + 1] = 255
    OBVIOUS
  <2>1. pos + 1 = size + 3
    BY <1>2
  <2> QED
    BY <1>2, <2>1
<1>12. /\ pos = 0 => Head(hostLine) = 255
       /\ pos = 1 => Head(hostLine) = packet.command /\ packet.command # 255
       /\ pos \in 2 .. size + 1 => /\ Head(hostLine) = BodyByte(packet.data, pos - 1)
                                   /\ Head(hostLine) # 255
       /\ pos = size + 2 => Head(hostLine) = 255
  BY <1>2, <1>7, <1>8, <1>9, <1>10, <1>11
<1> QED
  BY <1>2, <1>6, <1>12

LEMMA NextPlace ==
  ASSUME NEW packet \in Host!Packets, NEW pos \in Nat, OnLine(packet, pos), hostLine # <<>>,
         hostLine \in Seq(Host!Byte), hostLine' = Tail(hostLine)
  PROVE  OnLine(packet, pos + 1)'
<1>1. PICK frame, size : frame = Host!Frame(packet) /\ size = BodySize(Len(packet.data))
  OBVIOUS
<1>2. size \in Nat
  BY <1>1, PacketsShape DEF PacketShape
<1>3. PICK length, rest : length = Len(hostLine) /\ rest = Tail(hostLine)
  OBVIOUS
<1>4. length \in Nat /\ length > 0
  BY <1>3, LenProperties, EmptySeq
<1>5. length = size + 3 - pos /\ \A i \in 1 .. length : hostLine[i] = frame[pos + i]
  BY <1>1, <1>3 DEF OnLine
<1>6. Len(rest) = length - 1 /\ \A i \in 1 .. length - 1 : rest[i] = hostLine[i + 1]
  BY <1>3, <1>4, HeadTailProperties
<1>7. \A i \in 1 .. length - 1 : rest[i] = frame[(pos + 1) + i]
  <2> TAKE i \in 1 .. length - 1
  <2>1. i + 1 \in 1 .. length /\ pos + (i + 1) = (pos + 1) + i
    BY <1>4
  <2>2. hostLine[i + 1] = frame[pos + (i + 1)]
    BY <1>5, <2>1
  <2> QED
    BY <1>6, <2>1, <2>2
<1>8. pos + 1 \in 0 .. size + 3 /\ length - 1 = (size + 3) - (pos + 1)
  BY <1>2, <1>4, <1>5
<1>9. /\ pos + 1 \in 0 .. size + 3 /\ Len(rest) = size + 3 - (pos + 1)
      /\ \A i \in 1 .. Len(rest) : rest[i] = frame[(pos + 1) + i]
  BY <1>2, <1>6, <1>7, <1>8
<1> QED
  BY <1>1, <1>3, <1>9 DEF OnLine

-----------------------------------------------------------------------------
(* The host's parser: a byte of the frame *)

Parses(byte) ==
  \/ byte = 255 /\ (Host!ParseEmpty \/ Host!ParseEnd \/ Host!ParseStart)
  \/ Host!ParseCommand(byte) \/ Host!ParseData(byte) \/ Host!ParseEscape(byte)
  \/ Host!ParseOverflow(byte) \/ Host!ParseUnhandled(byte)

\* What each of them does to the parser.
ParserStep(byte) ==
  \/ /\ byte = 255 /\ hostExpect \in {"DATA", "ESC"} /\ hostData = <<>>
     /\ UNCHANGED <<hostExpect, command, hostData, fired>>
  \/ /\ byte = 255 /\ hostExpect \in {"DATA", "ESC"} /\ hostData # <<>>
     /\ hostExpect' = "CMD" /\ hostData' = Host!Complete(hostData)
     /\ fired' = IF command \in Commands
                 THEN Append(fired, [command |-> command, data |-> Host!Complete(hostData)])
                 ELSE fired
  \/ /\ byte = 255 /\ hostExpect \in {"NOTHING", "CMD"}
     /\ hostExpect' = "CMD" /\ UNCHANGED <<command, hostData, fired>>
  \/ /\ byte # 255 /\ hostExpect = "CMD"
     /\ hostExpect' = "DATA" /\ command' = byte /\ hostData' = <<>> /\ UNCHANGED fired
  \/ /\ byte # 255 /\ hostExpect = "DATA" /\ Len(hostData) = BufferSize /\ hostData # <<>>
     /\ UNCHANGED <<hostExpect, command, hostData, fired>>
  \/ /\ byte # 255 /\ hostExpect = "DATA"
     /\ hostData' = Append(hostData, byte) /\ hostData' # <<>>
     /\ hostExpect' = IF Len(hostData') % 8 = 0 THEN "ESC" ELSE "DATA"
     /\ UNCHANGED <<command, fired>>
  \/ /\ byte # 255 /\ hostExpect = "ESC" /\ hostData # <<>>
     /\ hostData' = Escaped(hostData, byte) /\ hostData' # <<>>
     /\ hostExpect' = "DATA" /\ UNCHANGED <<command, fired>>
  \/ /\ byte # 255 /\ hostExpect = "NOTHING"
     /\ UNCHANGED <<hostExpect, command, hostData, fired>>

LEMMA ParsesByte ==
  ASSUME HostTypes, NEW byte \in Host!Byte, Parses(byte)
  PROVE  ParserStep(byte)
<1>1. CASE byte = 255 /\ Host!ParseEmpty
  BY <1>1 DEF ParserStep, Host!ParseEmpty, Host!parser
<1>2. CASE byte = 255 /\ Host!ParseEnd
  BY <1>2 DEF ParserStep, Host!ParseEnd
<1>3. CASE byte = 255 /\ Host!ParseStart
  BY <1>3 DEF ParserStep, Host!ParseStart
<1>4. CASE Host!ParseCommand(byte)
  BY <1>4 DEF ParserStep, Host!ParseCommand
<1>5. CASE Host!ParseData(byte)
  <2>1. Append(hostData, byte) # <<>>
    <3>1. hostData \in Seq(Host!Byte)
      BY DEF HostTypes
    <3> QED
      BY <3>1, AppendProperties, EmptySeq
  <2> QED
    BY <1>5, <2>1 DEF ParserStep, Host!ParseData
<1>6. CASE Host!ParseEscape(byte)
  <2>1. /\ byte # 255 /\ hostExpect = "ESC" /\ hostData' = Escaped(hostData, byte)
        /\ hostExpect' = "DATA" /\ UNCHANGED <<command, fired>>
    BY <1>6 DEF Host!ParseEscape, Escaped
  <2>2. hostData \in Seq(Host!Byte) /\ hostData # <<>>
    BY <2>1 DEF HostTypes
  <2>3. Escaped(hostData, byte) # <<>>
    <3>1. Len(hostData) # 0
      BY <2>2, EmptySeq
    <3>2. Len(Escaped(hostData, byte)) = Len(hostData)
      BY <2>2, EscapedShape
    <3> QED
      BY <3>1, <3>2
  <2> QED
    BY <2>1, <2>2, <2>3 DEF ParserStep
<1>7. CASE Host!ParseUnhandled(byte)
  BY <1>7 DEF ParserStep, Host!ParseUnhandled, Host!parser
<1>8. CASE Host!ParseOverflow(byte)
  <2>1. hostData # <<>>
    BY <1>8, BufferIs DEF Host!ParseOverflow
  <2> QED
    BY <1>8, <2>1 DEF ParserStep, Host!ParseOverflow, Host!parser
<1> QED
  BY <1>1, <1>2, <1>3, <1>4, <1>5, <1>6, <1>7, <1>8 DEF Parses

LEMMA InStepKept ==
  ASSUME HostTypes, NEW byte \in Host!Byte, Parses(byte), NEW size \in Nat, size > 1,
         NEW pos \in Nat, pos < size + 3, InStep(size, pos),
         pos = 0 => byte = 255, pos \in 1 .. size + 1 => byte # 255, pos = size + 2 => byte = 255
  PROVE  InStep(size, pos + 1)'
<1>1. CASE pos = 0
  <2>1. pos + 1 = 1 /\ 1 \notin 2 .. size + 2 /\ 1 \notin 3 .. size + 2 /\ 1 # size + 3
    BY <1>1
  <2>2. hostExpect' = "CMD" \/ (hostExpect' = "DATA" /\ hostData' = <<>>)
    BY <1>1, ParsesByte DEF HostTypes, ParserStep
  <2> QED
    BY <2>1, <2>2 DEF InStep
<1>2. CASE pos = 1
  <2>1. pos + 1 = 2 /\ 2 \notin 3 .. size + 2 /\ 2 # size + 3 /\ pos \in 1 .. size + 1
    BY <1>2
  <2>2. hostExpect = "CMD" \/ (hostExpect = "DATA" /\ hostData = <<>>)
    BY <1>2 DEF InStep
  <2>3. hostExpect' \in {"DATA", "ESC"}
    BY <2>1, <2>2, ParsesByte DEF ParserStep
  <2> QED
    BY <2>1, <2>3 DEF InStep
<1>3. CASE pos \in 2 .. size + 1
  <2>1. pos + 1 \in 3 .. size + 2 /\ pos + 1 # 1 /\ pos + 1 # size + 3 /\ pos \in 1 .. size + 1
        /\ pos \in 2 .. size + 2
    BY <1>3
  <2>2. hostExpect \in {"DATA", "ESC"}
    BY <2>1 DEF InStep
  <2>3. hostExpect' \in {"DATA", "ESC"} /\ hostData' # <<>>
    BY <2>1, <2>2, ParsesByte DEF ParserStep
  <2> QED
    BY <2>1, <2>3 DEF InStep
<1>4. CASE pos = size + 2
  <2>1. pos + 1 = size + 3 /\ pos + 1 # 1 /\ pos + 1 \notin 2 .. size + 2 /\ pos + 1 \notin 3 .. size + 2
        /\ pos \in 3 .. size + 2 /\ pos \in 2 .. size + 2
    BY <1>4
  <2>2. hostExpect \in {"DATA", "ESC"} /\ hostData # <<>>
    BY <2>1 DEF InStep
  <2>3. hostExpect' = "CMD"
    BY <1>4, <2>2, ParsesByte DEF ParserStep
  <2> QED
    BY <2>1, <2>3 DEF InStep
<1>5. pos = 0 \/ pos = 1 \/ pos \in 2 .. size + 1 \/ pos = size + 2
  OBVIOUS
<1> QED
  BY <1>1, <1>2, <1>3, <1>4, <1>5

-----------------------------------------------------------------------------
(* The host's parser: the data of an intact frame after an intact one *)

LEMMA HasNothing ==
  ASSUME NEW bytes
  PROVE  Has(bytes, <<>>, 0)
<1>1. Before(0) = 0
  BY DEF Before
<1>2. Len(<<>>) = 0 /\ DOMAIN <<>> = {}
  OBVIOUS
<1> QED
  BY <1>1, <1>2 DEF Has, Arrives

\* A byte of the data, or the flags at the end.
LEMMA HasMore ==
  ASSUME NEW bytes \in Seq(Host!Byte), Len(bytes) > 0, NEW size, size = BodySize(Len(bytes)),
         NEW b \in 0 .. size - 1, b % 9 # 8,
         NEW buffer \in Seq(Host!Byte), Has(bytes, buffer, b)
  PROVE  /\ Has(bytes, Append(buffer, BodyByte(bytes, b + 1)), b + 1)
         /\ Len(Append(buffer, BodyByte(bytes, b + 1))) % 8 = 0 <=> (b + 1) % 9 = 8
<1>1. PICK n, byte, new :
        n = Len(bytes) /\ byte = BodyByte(bytes, b + 1) /\ new = Append(buffer, byte)
  OBVIOUS
<1>2. n \in Nat /\ n > 0
  BY <1>1, LenProperties
<1>3. size \in Nat /\ b \in Nat
  <2>1. size \in Nat
    BY <1>1, <1>2, BeforeEnds
  <2> QED
    BY <2>1
<1>4. PICK last, decoded : last = Before(b) /\ decoded = 8 * (b \div 9)
  OBVIOUS
<1>5. last \in Nat /\ decoded <= last /\ decoded \in Nat
  <2>1. Before(b) \in Nat /\ 8 * (b \div 9) <= Before(b) /\ b \div 9 \in Nat
    BY <1>3, BeforeMoves
  <2> QED
    BY <1>4, <2>1
<1>6. /\ Before(b + 1) = last + 1 /\ (b + 1) % 9 # 0 /\ (b + 1) \div 9 = b \div 9
      /\ Before(b + 1) % 8 = 0 <=> (b + 1) % 9 = 8
  BY <1>3, <1>4, BeforeMoves
<1>7. byte \in Host!Byte
  <2>1. b + 1 \in 1 .. size
    BY <1>3
  <2>2. size = BodySize(n)
    BY <1>1
  <2> QED
    BY <1>1, <1>2, <2>1, <2>2, BodyBytes
<1>8. Len(buffer) = last /\ Arrives(buffer, bytes, decoded)
  BY <1>4 DEF Has
<1>9. /\ Len(new) = last + 1 /\ new[last + 1] = byte
      /\ \A k \in 1 .. last : new[k] = buffer[k]
  <2>1. /\ Len(new) = Len(buffer) + 1 /\ new[Len(buffer) + 1] = byte
        /\ \A k \in 1 .. Len(buffer) : new[k] = buffer[k]
    BY <1>1, <1>7, AppendProperties
  <2> QED
    BY <1>8, <2>1
<1>10. DOMAIN new = 1 .. last + 1 /\ DOMAIN buffer = 1 .. last
  <2>1. new \in Seq(Host!Byte)
    BY <1>1, <1>7, AppendProperties
  <2> QED
    BY <1>8, <1>9, <2>1
<1>11. byte = IF b + 1 = size THEN Host!Flags(bytes, n, n % 8)
              ELSE Host!Encoded(bytes, last + 1)
  <2>1. (b + 1) - 1 = b
    BY <1>3
  <2> QED
    BY <1>1, <1>4, <1>6, <2>1 DEF BodyByte
<1>12. b + 1 = size => last = n
  <2> SUFFICES ASSUME b + 1 = size PROVE last = n
    OBVIOUS
  <2>1. b = size - 1
    BY <1>3
  <2>2. n % 8 # 0
    BY <1>1, <1>2, <2>1, BeforeEnds
  <2> QED
    BY <1>1, <1>2, <1>4, <2>1, <2>2, BeforeEnds
<1>13. b + 1 # size => last < n
  <2> SUFFICES ASSUME b + 1 # size PROVE last < n
    OBVIOUS
  <2>1. b # size - 1
    BY <1>3
  <2> QED
    BY <1>1, <1>2, <1>4, <2>1, BeforeEnds
<1>14. Arrives(new, bytes, decoded)
  <2> SUFFICES ASSUME NEW k \in 1 .. n, k \in 1 .. last + 1
               PROVE  new[k] = IF k <= decoded THEN bytes[k] ELSE Host!Encoded(bytes, k)
    BY <1>1, <1>10 DEF Arrives
  <2>1. CASE k \in 1 .. last
    <3>1. buffer[k] = IF k <= decoded THEN bytes[k] ELSE Host!Encoded(bytes, k)
      BY <1>1, <1>8, <1>10, <2>1 DEF Arrives
    <3> QED
      BY <1>9, <2>1, <3>1
  <2>2. CASE k = last + 1
    <3>1. b + 1 # size /\ ~(k <= decoded)
      BY <1>2, <1>5, <1>12, <2>2
    <3> QED
      BY <1>9, <1>11, <2>2, <3>1
  <2> QED
    BY <1>5, <2>1, <2>2
<1>15. n + 1 \in DOMAIN new => new[n + 1] = Host!Flags(bytes, n, n % 8)
  <2> SUFFICES ASSUME n + 1 \in 1 .. last + 1 PROVE new[n + 1] = Host!Flags(bytes, n, n % 8)
    BY <1>10
  <2>1. b + 1 = size
    BY <1>2, <1>5, <1>13
  <2>2. last = n
    BY <1>12, <2>1
  <2> QED
    BY <1>9, <1>11, <2>1, <2>2
<1>16. Has(bytes, new, b + 1)
  BY <1>1, <1>4, <1>6, <1>9, <1>14, <1>15 DEF Has
<1>17. Len(new) % 8 = 0 <=> (b + 1) % 9 = 8
  BY <1>6, <1>9
<1> QED
  BY <1>1, <1>16, <1>17

\* The escape byte of a block.
LEMMA HasBlock ==
  ASSUME NEW bytes \in Seq(Host!Byte), Len(bytes) > 0, NEW size, size = BodySize(Len(bytes)),
         NEW b \in 0 .. size - 1, b % 9 = 8,
         NEW buffer \in Seq(Host!Byte), Has(bytes, buffer, b)
  PROVE  /\ Has(bytes, Escaped(buffer, BodyByte(bytes, b + 1)), b + 1)
         /\ (b + 1) % 9 # 8
<1>1. PICK n, byte, new :
        n = Len(bytes) /\ byte = BodyByte(bytes, b + 1) /\ new = Escaped(buffer, byte)
  OBVIOUS
<1>2. n \in Nat /\ n > 0
  BY <1>1, LenProperties
<1>3. size \in Nat /\ b \in Nat
  <2>1. size \in Nat
    BY <1>1, <1>2, BeforeEnds
  <2> QED
    BY <2>1
<1>4. PICK last : last = Before(b)
  OBVIOUS
<1>5. /\ last \in Nat /\ (b + 1) % 9 = 0 /\ Before(b + 1) = last
      /\ last = 8 * (b \div 9) + 8 /\ (b + 1) \div 9 = b \div 9 + 1 /\ b \div 9 \in Nat
  BY <1>3, <1>4, BeforeMoves
<1>6. last % 8 = 0 /\ last > 0 /\ 8 * (b \div 9) = last - 8 /\ 8 * ((b + 1) \div 9) = last
  <2>1. PICK t : t = b \div 9
    OBVIOUS
  <2>2. t \in Nat /\ last = 8 * t + 8 /\ (b + 1) \div 9 = t + 1
    BY <1>5, <2>1
  <2> QED
    BY <2>1, <2>2
<1>7. last <= n
  BY <1>1, <1>2, <1>4, BeforeEnds
<1>8. byte = Host!Flags(bytes, last, 8)
  <2>1. (b + 1) - 1 = b
    BY <1>3
  <2> QED
    BY <1>1, <1>4, <1>5, <2>1 DEF BodyByte
<1>9. Len(buffer) = last /\ Arrives(buffer, bytes, last - 8)
  BY <1>4, <1>6 DEF Has
<1>10. Arrives(new, bytes, last)
  BY <1>1, <1>6, <1>7, <1>8, <1>9, BlockDecoded
<1>11. Len(new) = last /\ DOMAIN new = 1 .. last
  <2>1. new \in Seq(Host!Byte) /\ Len(new) = last
    BY <1>1, <1>9, EscapedShape
  <2> QED
    BY <2>1
<1>12. n + 1 \notin DOMAIN new
  BY <1>2, <1>5, <1>7, <1>11
<1>13. Has(bytes, new, b + 1)
  BY <1>1, <1>5, <1>6, <1>10, <1>11, <1>12 DEF Has
<1> QED
  BY <1>1, <1>5, <1>13

\* The end of the frame.
LEMMA HasAll ==
  ASSUME NEW bytes \in Seq(Host!Byte), Len(bytes) > 0, Len(bytes) % 8 # 0,
         NEW buffer \in Seq(Host!Byte), Has(bytes, buffer, BodySize(Len(bytes)))
  PROVE  Host!Complete(buffer) = bytes
<1>1. PICK n : n = Len(bytes)
  OBVIOUS
<1>2. n \in Nat /\ n > 0 /\ n % 8 # 0
  BY <1>1, LenProperties
<1>3. Before(BodySize(n)) = n + 1 /\ 8 * (BodySize(n) \div 9) + (n % 8) = n
  BY <1>2, BeforeEnds
<1>4. 8 * (BodySize(n) \div 9) = n - (n % 8)
  <2>1. PICK r, e : r = n % 8 /\ e = BodySize(n) \div 9
    OBVIOUS
  <2>2. r \in Nat /\ e \in Int
    <3>1. BodySize(n) \in Nat
      BY <1>2, BeforeEnds
    <3> QED
      BY <1>2, <2>1, <3>1
  <2>3. 8 * e + r = n
    BY <1>3, <2>1
  <2>4. 8 * e = n - r
    BY <2>2, <2>3
  <2> QED
    BY <2>1, <2>4
<1>5. Len(buffer) = n + 1 /\ Arrives(buffer, bytes, n - (n % 8))
  BY <1>1, <1>3, <1>4 DEF Has
<1>6. buffer[n + 1] = Host!Flags(bytes, n, n % 8)
  <2>1. n + 1 \in DOMAIN buffer
    BY <1>2, <1>5
  <2> QED
    BY <1>1, <2>1 DEF Has
<1> QED
  BY <1>1, <1>2, <1>5, <1>6, LastBlockDecoded

LEMMA ExactKept ==
  ASSUME HostTypes, NEW packet \in Host!Packets, NEW size, size = BodySize(Len(packet.data)),
         NEW pos \in Nat, pos < size + 3, Exact(packet, size, pos),
         NEW byte \in Host!Byte, Parses(byte), size \in Nat, size > 1,
         pos = 0 => byte = 255, pos = 1 => byte = packet.command /\ byte # 255,
         pos \in 2 .. size + 1 => byte = BodyByte(packet.data, pos - 1) /\ byte # 255,
         pos = size + 2 => byte = 255
  PROVE  Exact(packet, size, pos + 1)'
<1>1. PICK bytes, n : bytes = packet.data /\ n = Len(bytes)
  OBVIOUS
<1>2. /\ packet = [command |-> packet.command, data |-> bytes]
      /\ packet.command \in Commands /\ bytes \in Seq(Host!Byte) /\ Len(bytes) > 0
      /\ bytes \in Payloads
  BY <1>1, PacketsOK DEF PacketOK, Host!Byte
<1>3. ParserStep(byte)
  BY ParsesByte
<1>4. CASE pos = 0
  <2>1. pos + 1 # 0 /\ pos + 1 = 1 /\ pos + 1 \notin 2 .. size + 2 /\ pos + 1 # size + 3
    BY <1>4
  <2>2. hostExpect \in {"NOTHING", "CMD"} /\ fired = <<>> /\ byte = 255
    BY <1>4 DEF Exact
  <2>3. hostExpect' = "CMD" /\ fired' = <<>>
    BY <1>3, <2>2 DEF ParserStep
  <2> QED
    BY <2>1, <2>3 DEF Exact
<1>5. CASE pos = 1
  <2>1. pos + 1 # 0 /\ pos + 1 # 1 /\ pos + 1 # size + 3 /\ (pos + 1) - 2 = 0 /\ 0 % 9 # 8
    BY <1>5
  <2>2. hostExpect = "CMD" /\ fired = <<>> /\ byte = packet.command /\ byte # 255
    BY <1>5 DEF Exact
  <2>3. hostExpect' = "DATA" /\ fired' = <<>> /\ command' = packet.command /\ hostData' = <<>>
    BY <1>3, <2>2 DEF ParserStep
  <2>4. Has(packet.data, hostData', 0)
    BY <2>3, HasNothing
  <2>5. InBody(packet, 0)'
    BY <2>1, <2>3, <2>4 DEF InBody
  <2> QED
    BY <2>1, <2>5 DEF Exact
<1>6. CASE pos \in 2 .. size + 1
  <2>1. PICK b : b = pos - 2
    OBVIOUS
  <2>2. /\ b \in 0 .. size - 1 /\ (pos + 1) - 2 = b + 1 /\ pos - 1 = b + 1
        /\ pos \in 2 .. size + 2 /\ pos + 1 # 0 /\ pos + 1 # 1 /\ pos + 1 # size + 3
    BY <1>6, <2>1
  <2>3. /\ command = packet.command /\ fired = <<>>
        /\ hostExpect = IF b % 9 = 8 THEN "ESC" ELSE "DATA"
        /\ Has(bytes, hostData, b)
    BY <1>1, <2>1, <2>2 DEF Exact, InBody
  <2>4. byte = BodyByte(bytes, b + 1) /\ byte # 255
    BY <1>1, <1>6, <2>2
  <2>5. hostData \in Seq(Host!Byte)
    BY DEF HostTypes
  <2>6. size = BodySize(Len(bytes))
    BY <1>1
  <2>7. CASE b % 9 = 8
    <3> hostExpect = "ESC" /\ byte # 255
      BY <2>3, <2>4, <2>7
    <3>1. /\ hostExpect' = "DATA" /\ hostData' = Escaped(hostData, byte)
          /\ command' = packet.command /\ fired' = <<>>
      <4>1. command = packet.command /\ fired = <<>>
        BY <2>3
      <4> QED
        BY <1>3, <4>1 DEF ParserStep
    <3>2. /\ Has(bytes, Escaped(hostData, byte), b + 1) /\ (b + 1) % 9 # 8
      BY <1>2, <2>2, <2>3, <2>4, <2>5, <2>6, <2>7, HasBlock
    <3>3. InBody(packet, b + 1)'
      BY <1>1, <3>1, <3>2 DEF InBody
    <3> QED
      BY <2>2, <3>3 DEF Exact
  <2>8. CASE b % 9 # 8
    <3> hostExpect = "DATA" /\ byte # 255
      BY <2>3, <2>4, <2>8
    <3>1. /\ hostExpect' = IF Len(hostData') % 8 = 0 THEN "ESC" ELSE "DATA"
          /\ hostData' = Append(hostData, byte)
          /\ command' = packet.command /\ fired' = <<>>
      <4>1. command = packet.command /\ fired = <<>>
        BY <2>3
      <4>2. Len(hostData) # BufferSize
        <5>1. n \in Nat /\ n > 0 /\ n < BufferSize
          BY <1>1, <1>2, BufferIs, LenProperties
        <5>2. Len(hostData) = Before(b) /\ Before(b) <= n
          <6>1. size = BodySize(n) /\ b \in 0 .. BodySize(n) - 1
            BY <1>1, <2>2
          <6> QED
            BY <2>3, <5>1, <6>1, BeforeEnds DEF Has
        <5>3. Before(b) \in Nat
          BY <2>2, BeforeMoves
        <5> QED
          BY <5>1, <5>2, <5>3, BufferIs
      <4> QED
        BY <1>3, <4>1, <4>2 DEF ParserStep
    <3>2. /\ Has(bytes, Append(hostData, byte), b + 1)
          /\ Len(Append(hostData, byte)) % 8 = 0 <=> (b + 1) % 9 = 8
      BY <1>2, <2>2, <2>3, <2>4, <2>5, <2>6, <2>8, HasMore
    <3>3. hostExpect' = IF (b + 1) % 9 = 8 THEN "ESC" ELSE "DATA"
      BY <3>1, <3>2
    <3>4. InBody(packet, b + 1)'
      BY <1>1, <3>1, <3>2, <3>3 DEF InBody
    <3> QED
      BY <2>2, <3>4 DEF Exact
  <2> QED
    BY <2>7, <2>8
<1>7. CASE pos = size + 2
  <2>1. /\ pos + 1 # 0 /\ pos + 1 # 1 /\ pos + 1 \notin 2 .. size + 2 /\ pos \in 2 .. size + 2
        /\ pos - 2 = size
    BY <1>7
  <2>2. /\ command = packet.command /\ fired = <<>> /\ hostExpect \in {"DATA", "ESC"}
        /\ Has(bytes, hostData, size)
    BY <1>1, <2>1 DEF Exact, InBody
  <2>3. ASSUME Len(bytes) % 8 # 0 PROVE fired' = <<packet>>
    <3>1. hostData \in Seq(Host!Byte) /\ size = BodySize(Len(bytes))
      BY <1>1 DEF HostTypes
    <3>2. Host!Complete(hostData) = bytes
      BY <1>2, <2>2, <2>3, <3>1, HasAll
    <3>3. hostData # <<>>
      <4>1. Len(hostData) = Before(size)
        BY <2>2 DEF Has
      <4>2. n \in Nat /\ n > 0 /\ n % 8 # 0 /\ size = BodySize(n)
        BY <1>1, <1>2, <2>3, <3>1, LenProperties
      <4>3. Before(size) = n + 1
        BY <4>2, BeforeEnds
      <4>4. Len(hostData) # 0
        BY <4>1, <4>2, <4>3
      <4> QED
        BY <3>1, <4>4, EmptySeq
    <3>4. byte = 255 /\ command \in Commands
      BY <1>2, <1>7, <2>2
    <3>5. fired' = Append(fired, [command |-> command, data |-> Host!Complete(hostData)])
      BY <1>3, <2>2, <3>3, <3>4 DEF ParserStep
    <3>6. fired' = Append(<<>>, packet)
      BY <1>2, <2>2, <3>2, <3>5
    <3> QED
      BY <3>6
  <2> QED
    BY <1>1, <2>1, <2>3 DEF Exact
<1>8. pos = 0 \/ pos = 1 \/ pos \in 2 .. size + 1 \/ pos = size + 2
  OBVIOUS
<1> QED
  BY <1>4, <1>5, <1>6, <1>7, <1>8

HostInvariant == HostTypes /\ HostInv

\* One byte, whatever the parser does with it.
LEMMA HostParses ==
  ASSUME HostInvariant, NEW byte \in Host!Byte, Host!ByteArrives(byte), Parses(byte),
         UNCHANGED <<hostSent, frames, damagedLast>>
  PROVE  HostInv'
<1>1. CASE hostLine = <<>>
  <2>1. hostDamaged' = TRUE
    BY <1>1 DEF Host!ByteArrives
  <2> QED
    BY <2>1 DEF HostInv
<1>2. CASE hostLine # <<>>
  <2>1. byte = Head(hostLine) /\ hostLine' = Tail(hostLine) /\ hostDamaged' = hostDamaged
    BY <1>2 DEF Host!ByteArrives
  <2>2. frames # 0 /\ frames > 0 /\ hostSent \in Host!Packets /\ hostLine \in Seq(Host!Byte)
    BY <1>2, HostAssumption DEF HostInvariant, HostTypes, Host!FramingAssumption
  <2>3. CASE hostDamaged
    BY <2>1, <2>2, <2>3 DEF HostInv
  <2>4. CASE ~hostDamaged
    <3>1. PICK packet, size : packet = hostSent /\ size = BodySize(Len(packet.data))
      OBVIOUS
    <3>2. PICK pos \in Nat : /\ OnLine(packet, pos) /\ InStep(size, pos)
                             /\ ~damagedLast => Exact(packet, size, pos)
      BY <2>2, <2>4, <3>1 DEF HostInvariant, HostInv
    <3>3. /\ size \in Nat /\ size > 1 /\ pos < size + 3
          /\ pos = 0 => byte = 255
          /\ pos = 1 => byte = packet.command /\ packet.command # 255
          /\ pos \in 2 .. size + 1 => byte = BodyByte(packet.data, pos - 1) /\ byte # 255
          /\ pos = size + 2 => byte = 255
      BY <1>2, <2>1, <2>2, <3>1, <3>2, ByteInFrame
    <3>4. OnLine(packet, pos + 1)'
      BY <1>2, <2>1, <2>2, <3>1, <3>2, NextPlace
    <3>5. InStep(size, pos + 1)'
      <4>1. pos \in 1 .. size + 1 => byte # 255
        <5>1. pos \in 1 .. size + 1 => pos = 1 \/ pos \in 2 .. size + 1
          OBVIOUS
        <5> QED
          BY <3>3, <5>1
      <4> QED
        BY <3>2, <3>3, <4>1, InStepKept DEF HostInvariant
    <3>6. ~damagedLast => Exact(packet, size, pos + 1)'
      <4>1. packet \in Host!Packets /\ HostTypes
        BY <2>2, <3>1 DEF HostInvariant
      <4>2. pos = 1 => byte = packet.command /\ byte # 255
        BY <3>3
      <4> QED
        BY <3>1, <3>2, <3>3, <4>1, <4>2, ExactKept
    <3>7. pos + 1 \in Nat
      OBVIOUS
    <3>8. PICK after : after = pos + 1
      OBVIOUS
    <3>9. /\ after \in Nat
          /\ (/\ OnLine(packet, after) /\ InStep(size, after)
              /\ ~damagedLast => Exact(packet, size, after))'
      BY <3>4, <3>5, <3>6, <3>7, <3>8
    <3>10. hostSent' = packet /\ frames' # 0 /\ frames' = frames
      BY <2>2, <3>1
    <3> QED
      BY <3>1, <3>9, <3>10 DEF HostInv
  <2> QED
    BY <2>3, <2>4
<1> QED
  BY <1>1, <1>2

LEMMA HostStep ==
  ASSUME HostInvariant, Host!Next
  PROVE  HostInvariant'
<1>1. HostTypes'
  BY HostTypesStep DEF HostInvariant
<1>2. 255 \in Host!Byte
  BY DEF Host!Byte
<1>3. CASE Host!Send
  <2>1. PICK packet \in Host!Packets : hostSent' = packet /\ hostLine' = Host!Frame(packet)
    BY <1>3 DEF Host!Send
  <2>2. PICK size, frame : size = BodySize(Len(packet.data)) /\ frame = Host!Frame(packet)
    OBVIOUS
  <2>3. size \in Nat /\ size > 1 /\ Len(frame) = size + 3
    BY <2>2, PacketsShape DEF PacketShape
  <2>4. /\ hostLine = <<>> /\ hostDamaged' = FALSE /\ damagedLast' = hostDamaged /\ fired' = <<>>
        /\ hostExpect' = hostExpect /\ frames' = frames + 1
    BY <1>3 DEF Host!Send, Host!parser
  <2>5. frames \in Nat /\ frames' # 0
    BY <2>4, HostAssumption DEF HostInvariant, HostTypes, Host!FramingAssumption
  <2>6. OnLine(packet, 0)'
    <3>1. 0 \in 0 .. size + 3 /\ Len(frame) = size + 3 - 0
      BY <2>3
    <3>2. \A i \in 1 .. Len(frame) : 0 + i = i
      BY <2>3
    <3>3. \A i \in 1 .. Len(frame) : frame[i] = frame[0 + i]
      BY <3>2
    <3> QED
      BY <2>1, <2>2, <3>1, <3>3 DEF OnLine
  <2>7. InStep(size, 0)'
    <3>1. 0 # 1 /\ 0 \notin 2 .. size + 2 /\ 0 \notin 3 .. size + 2 /\ 0 # size + 3
      BY <2>3
    <3> QED
      BY <3>1 DEF InStep
  <2>8. ASSUME ~hostDamaged PROVE hostExpect \in {"NOTHING", "CMD"}
    <3>1. CASE frames = 0
      BY <2>8, <3>1 DEF HostInvariant, HostInv
    <3>2. CASE frames > 0
      <4>1. PICK pos \in Nat :
              /\ OnLine(hostSent, pos) /\ InStep(BodySize(Len(hostSent.data)), pos)
        BY <2>8, <3>2 DEF HostInvariant, HostInv
      <4>2. PICK last : last = BodySize(Len(hostSent.data))
        OBVIOUS
      <4>3. last \in Nat
        <5>1. hostSent \in Host!Packets
          BY <3>2 DEF HostInvariant, HostTypes
        <5> QED
          BY <4>2, <5>1, PacketsShape DEF PacketShape
      <4>4. Len(hostLine) = 0 /\ Len(hostLine) = last + 3 - pos
        BY <2>4, <4>1, <4>2 DEF OnLine
      <4>5. pos = last + 3
        BY <4>3, <4>4
      <4> QED
        BY <4>1, <4>2, <4>5 DEF InStep
    <3> QED
      BY <2>5, <3>1, <3>2
  <2>9. ~damagedLast' => Exact(packet, size, 0)'
    <3>1. 0 # 1 /\ 0 \notin 2 .. size + 2 /\ 0 # size + 3
      BY <2>3
    <3> QED
      BY <2>4, <2>8, <3>1 DEF Exact
  <2>10. PICK zero \in Nat : zero = 0
    OBVIOUS
  <2>11. (/\ OnLine(packet, zero) /\ InStep(size, zero)
          /\ ~damagedLast => Exact(packet, size, zero))'
    BY <2>6, <2>7, <2>9, <2>10
  <2>12. HostInv'
    BY <2>1, <2>2, <2>5, <2>11 DEF HostInv
  <2> QED
    BY <1>1, <2>12 DEF HostInvariant
<1>4. CASE Host!Lose
  <2>1. hostDamaged' = TRUE
    BY <1>4 DEF Host!Lose
  <2>2. HostInv'
    BY <2>1 DEF HostInv
  <2> QED
    BY <1>1, <2>2 DEF HostInvariant
<1>5. ASSUME NEW byte \in Host!Byte, Host!ByteArrives(byte), Parses(byte),
             UNCHANGED <<hostSent, frames, damagedLast>>
      PROVE  HostInvariant'
  BY <1>1, <1>5, HostParses DEF HostInvariant
<1>6. CASE Host!ParseEmpty \/ Host!ParseEnd \/ Host!ParseStart
  <2>1. Host!ByteArrives(255) /\ UNCHANGED <<hostSent, frames, damagedLast>>
    BY <1>6 DEF Host!ParseEmpty, Host!ParseEnd, Host!ParseStart
  <2>2. Parses(255)
    BY <1>6 DEF Parses
  <2> QED
    BY <1>2, <1>5, <2>1, <2>2
<1>7. ASSUME NEW byte \in Host!Byte,
             \/ Host!ParseCommand(byte) \/ Host!ParseData(byte) \/ Host!ParseEscape(byte)
             \/ Host!ParseOverflow(byte) \/ Host!ParseUnhandled(byte)
      PROVE  HostInvariant'
  <2>1. Host!ByteArrives(byte) /\ UNCHANGED <<hostSent, frames, damagedLast>>
    BY <1>7 DEF Host!ParseCommand, Host!ParseData, Host!ParseEscape, Host!ParseOverflow,
      Host!ParseUnhandled
  <2>2. Parses(byte)
    BY <1>7 DEF Parses
  <2> QED
    BY <1>5, <2>1, <2>2
<1> QED
  BY <1>3, <1>4, <1>6, <1>7 DEF Host!Next, Host!Arriving

LEMMA HostStart ==
  ASSUME Host!Init
  PROVE  HostInvariant
<1>1. /\ hostLine = <<>> /\ hostSent = None /\ frames = 0 /\ faults = 0
      /\ hostDamaged = FALSE /\ damagedLast = FALSE
      /\ hostExpect = "NOTHING" /\ command = 0 /\ hostData = <<>> /\ fired = <<>>
  BY DEF Host!Init
<1>2. 0 \in Host!Byte /\ 0 \in 0 .. MaxFrames /\ 0 \in 0 .. MaxFaults
  BY HostAssumption DEF Host!FramingAssumption, Host!Byte
<1>3. <<>> \in Seq(Host!Byte) /\ <<>> \in Seq([command : Commands, data : Seq(Host!Byte)])
  BY EmptySeq
<1>4. HostTypes
  <2>1. hostDamaged \in BOOLEAN /\ damagedLast \in BOOLEAN
    BY <1>1
  <2>2. ~(frames > 0)
    BY <1>1
  <2>3. /\ hostLine \in Seq(Host!Byte) /\ hostData \in Seq(Host!Byte)
        /\ Len(hostData) <= BufferSize
        /\ hostExpect \in {"NOTHING", "CMD", "DATA", "ESC"} /\ hostExpect # "ESC"
        /\ command \in Host!Byte /\ frames \in 0 .. MaxFrames /\ faults \in 0 .. MaxFaults
        /\ fired \in Seq([command : Commands, data : Seq(Host!Byte)])
    BY <1>1, <1>2, <1>3, BufferIs, EmptySeq
  <2> QED
    BY <1>1, <2>1, <2>2, <2>3 DEF HostTypes
<1>5. HostInv
  BY <1>1 DEF HostInv
<1> QED
  BY <1>4, <1>5 DEF HostInvariant

\* Encoder, line and parser of AVRConnection stay in step as the invariant says, for any
\* payloads, whatever is lost or inserted.
THEOREM HostInvariantHolds == MCSpec => []HostInvariant
<1>1. MCInit => HostInvariant
  BY HostStart DEF MCInit
<1>2. HostInvariant /\ [MCNext]_<<unit, vars, ofHost>> => HostInvariant'
  <2> SUFFICES ASSUME HostInvariant, [MCNext]_<<unit, vars, ofHost>> PROVE HostInvariant'
    OBVIOUS
  <2>1. CASE Host!Next
    BY <2>1, HostStep
  <2>2. CASE UNCHANGED ofHost
    <3>1. /\ UNCHANGED <<hostLine, hostSent, frames, faults, hostDamaged, damagedLast>>
          /\ UNCHANGED <<hostExpect, command, hostData, fired>>
      BY <2>2 DEF ofHost
    <3>2. HostTypes'
      BY <3>1 DEF HostInvariant, HostTypes
    <3>3. \A packet, pos : OnLine(packet, pos)' = OnLine(packet, pos)
      BY <3>1 DEF OnLine
    <3>4. \A packet, size, pos : /\ InStep(size, pos)' = InStep(size, pos)
                                /\ Exact(packet, size, pos)' = Exact(packet, size, pos)
      BY <3>1 DEF InStep, Exact, InBody
    <3>5. HostInv'
      BY <3>1, <3>3, <3>4 DEF HostInvariant, HostInv
    <3> QED
      BY <3>2, <3>5 DEF HostInvariant
  <2> QED
    BY <2>1, <2>2 DEF MCNext
<1> QED
  BY <1>1, <1>2, PTL DEF MCSpec

\* 0xFF delimits frames and occurs nowhere else in them, whatever is sent.
THEOREM FramesDelimited == MCSpec => []DelimitersOnly
<1>1. HostInvariant => DelimitersOnly
  <2> SUFFICES ASSUME HostInvariant, hostSent # None,
                      NEW j \in 2 .. Len(Host!Frame(hostSent)) - 1
               PROVE  Host!Frame(hostSent)[j] # 255
    BY DEF DelimitersOnly, Host!DelimitersOnly
  <2>1. hostSent \in Host!Packets
    <3>1. frames \in Nat /\ frames # 0
      BY HostAssumption DEF HostInvariant, HostTypes, Host!FramingAssumption
    <3> QED
      BY <3>1 DEF HostInvariant, HostTypes
  <2>2. PICK frame, size : frame = Host!Frame(hostSent) /\ size = BodySize(Len(hostSent.data))
    OBVIOUS
  <2>3. /\ size \in Nat /\ Len(frame) = size + 3
        /\ frame[2] # 255 /\ \A i \in 1 .. size : frame[i + 2] # 255
    BY <2>1, <2>2, PacketsShape DEF PacketShape
  <2>4. CASE j = 2
    BY <2>2, <2>3, <2>4
  <2>5. CASE j # 2
    <3>1. j - 2 \in 1 .. size /\ (j - 2) + 2 = j
      BY <2>2, <2>3, <2>5
    <3>2. frame[(j - 2) + 2] # 255
      BY <2>3, <3>1
    <3> QED
      BY <2>2, <3>1, <3>2
  <2> QED
    BY <2>4, <2>5
<1> QED
  BY <1>1, HostInvariantHolds, PTL

\* After one intact frame the host fires the next one exactly as it was sent, and once,
\* provided no payload ends with a whole block.
THEOREM FramesUnderstood ==
  (\A payload \in Payloads : Len(payload) % 8 # 0) => (MCSpec => []Resynchronized)
<1> SUFFICES ASSUME \A payload \in Payloads : Len(payload) % 8 # 0
             PROVE  MCSpec => []Resynchronized
  OBVIOUS
<1>1. HostInvariant => Resynchronized
  <2> SUFFICES ASSUME HostInvariant, hostSent # None, hostLine = <<>>, ~hostDamaged, ~damagedLast
               PROVE  fired = <<hostSent>>
    BY DEF Resynchronized, Host!Resynchronized, Host!Arrived
  <2>1. frames > 0 /\ hostSent \in Host!Packets
    <3>1. frames \in Nat /\ frames # 0
      BY HostAssumption DEF HostInvariant, HostTypes, Host!FramingAssumption
    <3> QED
      BY <3>1 DEF HostInvariant, HostTypes
  <2>2. PICK size : size = BodySize(Len(hostSent.data))
    OBVIOUS
  <2>3. size \in Nat
    BY <2>1, <2>2, PacketsShape DEF PacketShape
  <2>4. PICK pos \in Nat : OnLine(hostSent, pos) /\ Exact(hostSent, size, pos)
    BY <2>1, <2>2 DEF HostInvariant, HostInv
  <2>5. pos = size + 3
    <3>1. Len(hostLine) = 0 /\ Len(hostLine) = size + 3 - pos
      BY <2>2, <2>4 DEF OnLine
    <3> QED
      BY <2>3, <3>1
  <2>6. Len(hostSent.data) % 8 # 0
    <3>1. hostSent.data \in Payloads
      BY <2>1, PacketsOK DEF PacketOK
    <3> QED
      BY <3>1
  <2> QED
    BY <2>4, <2>5, <2>6 DEF Exact
<1> QED
  BY <1>1, HostInvariantHolds, PTL

-----------------------------------------------------------------------------
(* The types of the board's variables *)

ProgramTypes ==
  /\ pc \in {"getc", "interrupts", "decrement", "rc", "ir", "rcReset", "irReset", "transmit",
             "writeStart", "writeBytes", "writeStop",
             "readStart", "readRegister", "readBytes", "readStop", "crashed"}
  /\ next \in {"getc", "rc", "rcReset", "irReset"}
  /\ outbox \in Seq(Bytes) /\ (outbox = <<>> <=> pc # "transmit")
  /\ call.at \in {"read", "advanced"} => pc = "getc"
  /\ call.at \in {"stored", "published"} => pc = "transmit"

ParserTypes ==
  /\ expect \in {"NOTHING", "CMD", "DATA", "ESC"} /\ commandByte \in Bytes
  /\ data \in [0 .. DataSize - 1 -> Bytes]
  /\ dataIndex \in Nat /\ dataIndex < 65536

\* The counter is decremented only after it was read as more than 0.
HandlerTypes ==
  /\ commonInterruptPacketDispatch \in 0 .. 255 /\ (pc = "decrement" => loaded \in 1 .. 255)
  /\ available \subseteq {"rc", "ir"}
  /\ registers \in [Chips -> [Registers -> Bytes]] /\ readData \in Seq(Bytes)
  /\ pc \in {"writeBytes", "writeStop", "readRegister", "readBytes", "readStop"} => data[1] \in Chips

LineTyped == incoming \in Seq(Bytes)

BoardTypes == UartTypeOK /\ ProgramTypes /\ ParserTypes /\ HandlerTypes /\ LineTyped

LEMMA BytesAre == Bytes = 0 .. 255 /\ DataSize \in Nat /\ DataSize > 3
  BY FirmwareAssumption

\* Whatever bytes are sent, they make a frame of bytes.
LEMMA FramesTyped ==
  ASSUME NEW code \in Bytes, NEW bytes \in Seq(Bytes)
  PROVE  Frame(code, bytes) \in Seq(Bytes) /\ Frame(code, bytes) # <<>>
<1>1. PICK n, size : n = Len(bytes) /\ size = Size(n) /\ n \in Nat
  OBVIOUS
<1>2. size \in Nat /\ \A j \in 1 .. size : j % (Block + 1) # 0 /\ j # size => Index(j) \in 1 .. n
  <2>1. CASE Block = 2
    BY <1>1, <2>1 DEF Size, Index
  <2>2. CASE Block = 3
    BY <1>1, <2>2 DEF Size, Index
  <2>3. CASE Block = 4
    BY <1>1, <2>3 DEF Size, Index
  <2>4. CASE Block = 5
    BY <1>1, <2>4 DEF Size, Index
  <2>5. CASE Block = 6
    BY <1>1, <2>5 DEF Size, Index
  <2>6. CASE Block = 7
    BY <1>1, <2>6 DEF Size, Index
  <2>7. CASE Block = 8
    BY <1>1, <2>7 DEF Size, Index
  <2> QED
    BY BlockIs, <2>1, <2>2, <2>3, <2>4, <2>5, <2>6, <2>7
<1> DEFINE byte(j) == IF j % (Block + 1) = 0 \/ j = size THEN 0 ELSE bytes[Index(j)]
<1>3. ASSUME NEW j \in 1 .. size PROVE byte(j) \in Bytes
  <2>1. 0 \in Bytes
    BY BytesAre
  <2>2. CASE j % (Block + 1) = 0 \/ j = size
    BY <2>1, <2>2
  <2>3. CASE ~(j % (Block + 1) = 0 \/ j = size)
    <3>1. Index(j) \in 1 .. Len(bytes)
      BY <1>1, <1>2, <2>3
    <3>2. bytes[Index(j)] \in Bytes
      BY <3>1, ElementOfSeq
    <3> QED
      BY <2>3, <3>2
  <2> QED
    BY <2>2, <2>3
<1>4. Body(bytes) = [j \in 1 .. size |-> byte(j)]
  BY <1>1 DEF Body, Size, Index
<1> HIDE DEF byte
<1>5. Body(bytes) \in Seq(Bytes)
  BY <1>2, <1>3, <1>4, IsASeq
<1>6. Delimiter \in Bytes
  BY BytesAre DEF Delimiter
<1>7. <<Delimiter, code>> \in Seq(Bytes) /\ <<Delimiter>> \in Seq(Bytes) /\ Len(<<Delimiter>>) = 1
  <2> HIDE DEF Delimiter
  <2> QED
    BY <1>6
<1>8. PICK front, back, body :
        front = <<Delimiter, code>> /\ back = <<Delimiter>> /\ body = Body(bytes)
  OBVIOUS
<1>9. front \o body \in Seq(Bytes)
  BY <1>5, <1>7, <1>8, ConcatProperties
<1>10. PICK start : start = front \o body /\ start \in Seq(Bytes)
  BY <1>9
<1>11. start \o back \in Seq(Bytes) /\ Len(start \o back) = Len(start) + 1 /\ Len(start) \in Nat
  BY <1>7, <1>8, <1>10, ConcatProperties
<1>12. start \o back # <<>>
  BY <1>11, EmptySeq
<1> QED
  BY <1>8, <1>10, <1>11, <1>12 DEF Frame

-----------------------------------------------------------------------------
(* The serial port *)

LEMMA ReceiveTypes ==
  ASSUME UartTypeOK, NEW byte \in Bytes, NEW errors \in SUBSET LineErrors,
         ReceiveInterrupt(byte, errors)
  PROVE  UartTypeOK'
<1>1. After(rxHead, RxSize) \in 0 .. RxSize - 1
  BY Sizes, AfterIs DEF UartTypeOK
<1>2. /\ rxHead' \in {rxHead, After(rxHead, RxSize)}
      /\ rxBuf' \in {rxBuf, [rxBuf EXCEPT ![After(rxHead, RxSize)] = byte]}
      /\ lastRxError' \in {lastRxError \cup {"overflow"}, lastRxError \cup errors}
      /\ rxTail' = rxTail /\ call' = call
      /\ txBuf' = txBuf /\ txHead' = txHead /\ txTail' = txTail /\ udrie' = udrie
  BY DEF ReceiveInterrupt, Overflow, Store, transmitter
<1>3. rxBuf' \in [0 .. RxSize - 1 -> Bytes]
  BY <1>2 DEF UartTypeOK
<1>4. lastRxError' \subseteq Errors
  BY <1>2 DEF UartTypeOK, Errors
<1> QED
  BY <1>1, <1>2, <1>3, <1>4 DEF UartTypeOK

LEMMA TransmitTypes ==
  ASSUME UartTypeOK, TransmitInterrupt
  PROVE  UartTypeOK'
<1>1. After(txTail, TxSize) \in 0 .. TxSize - 1
  BY Sizes, AfterIs DEF UartTypeOK
<1>2. /\ txTail' \in {txTail, After(txTail, TxSize)} /\ udrie' \in {udrie, FALSE}
      /\ txBuf' = txBuf /\ txHead' = txHead /\ call' = call
      /\ rxBuf' = rxBuf /\ rxHead' = rxHead /\ rxTail' = rxTail /\ lastRxError' = lastRxError
  BY DEF TransmitInterrupt, receiver
<1> QED
  BY <1>1, <1>2 DEF UartTypeOK

LEMMA GetcTypes ==
  ASSUME UartTypeOK, GetcRead \/ GetcAdvance \/ GetcReturn
  PROVE  UartTypeOK' /\ call'.at \in {"none", "read", "advanced"}
<1>1. After(rxTail, RxSize) \in 0 .. RxSize - 1
  BY Sizes, AfterIs DEF UartTypeOK
<1>2. CASE GetcRead
  <2>1. rxBuf[After(rxTail, RxSize)] \in Bytes
    BY <1>1 DEF UartTypeOK
  <2> QED
    BY <1>2, <2>1 DEF UartTypeOK, GetcRead, receiver, transmitter
<1>3. CASE GetcAdvance
  BY <1>1, <1>3 DEF UartTypeOK, GetcAdvance, transmitter
<1>4. CASE GetcReturn
  BY <1>4, UartAssumption DEF UartTypeOK, GetcReturn, transmitter, NoCall
<1> QED
  BY <1>2, <1>3, <1>4

LEMMA PutcTypes ==
  ASSUME UartTypeOK, NEW byte \in Bytes, PutcStore(byte) \/ PutcPublish \/ PutcEnable
  PROVE  UartTypeOK' /\ call'.at \in {"none", "stored", "published"}
<1>1. After(txHead, TxSize) \in 0 .. TxSize - 1
  BY Sizes, AfterIs DEF UartTypeOK
<1>2. CASE PutcStore(byte)
  <2>1. txBuf' \in [0 .. TxSize - 1 -> Bytes]
    BY <1>2 DEF UartTypeOK, PutcStore
  <2> QED
    BY <1>2, <2>1 DEF UartTypeOK, PutcStore, receiver
<1>3. CASE PutcPublish
  BY <1>1, <1>3 DEF UartTypeOK, PutcPublish, receiver
<1>4. CASE PutcEnable
  BY <1>4, UartAssumption DEF UartTypeOK, PutcEnable, receiver, NoCall
<1> QED
  BY <1>2, <1>3, <1>4

LEMMA StandingTypes ==
  ASSUME UartTypeOK, UNCHANGED uart
  PROVE  UartTypeOK'
  BY DEF UartTypeOK, uart, receiver, transmitter

-----------------------------------------------------------------------------
(* The main program *)

\* What a call leaves in progress is done where it was begun.
LEMMA NoCallElsewhere ==
  ASSUME UartTypeOK, ProgramTypes, pc # "getc", pc # "transmit"
  PROVE  call.at = "none"
BY DEF UartTypeOK, ProgramTypes

\* Sending a frame, or one byte.
LEMMA TransmitsBytes ==
  ASSUME NEW bytes \in Seq(Bytes), bytes # <<>>, NEW then \in {"getc", "rc", "rcReset", "irReset"},
         Transmit(bytes, then), call'.at = "none"
  PROVE  ProgramTypes'
BY DEF Transmit, ProgramTypes

LEMMA OneByteTyped ==
  ASSUME NEW byte \in Bytes
  PROVE  <<byte>> \in Seq(Bytes) /\ <<byte>> # <<>>
OBVIOUS

\* The main program goes on without sending.
LEMMA GoesOnTyped ==
  ASSUME ProgramTypes, pc # "transmit", UNCHANGED <<next, outbox>>, call'.at = "none",
         pc' \in {"getc", "interrupts", "decrement", "rc", "ir", "rcReset", "irReset",
                  "writeStart", "writeBytes", "writeStop",
                  "readStart", "readRegister", "readBytes", "readStop", "crashed"}
  PROVE  ProgramTypes'
BY DEF ProgramTypes

LEMMA GetcBoard ==
  ASSUME BoardTypes, Getc \/ NoData \/ GetcError
  PROVE  BoardTypes'
<1>1. CASE Getc
  <2>1. UartTypeOK' /\ call'.at \in {"none", "read", "advanced"} /\ pc = "getc" /\ main' = main
    BY <1>1, GetcTypes DEF Getc, BoardTypes
  <2>2. ProgramTypes'
    BY <2>1 DEF BoardTypes, ProgramTypes, main
  <2> QED
    BY <1>1, <2>1, <2>2 DEF BoardTypes, ParserTypes, HandlerTypes, LineTyped, Getc, main, parser,
       interrupts, bus, line
<1>2. CASE NoData
  <2>1. call'.at = "none" /\ UNCHANGED uart /\ pc = "getc" /\ pc' = "interrupts"
    BY <1>2 DEF NoData, NothingReceived, NoCall, uart
  <2>2. UartTypeOK'
    BY <2>1, StandingTypes DEF BoardTypes
  <2>3. ProgramTypes'
    BY <1>2, <2>1, GoesOnTyped DEF NoData, BoardTypes
  <2> QED
    BY <1>2, <2>2, <2>3 DEF BoardTypes, ParserTypes, HandlerTypes, LineTyped, NoData, parser,
       interrupts, bus, line
<1>3. CASE GetcError
  <2>1. UartTypeOK' /\ call'.at = "none"
    BY <1>3, GetcTypes DEF GetcError, GetcReturn, NoCall, BoardTypes
  <2>2. PICK byte : byte = ErrorByte(call.error) /\ byte \in Bytes
    <3>1. 17 \in Bytes /\ 18 \in Bytes /\ 19 \in Bytes
      BY BytesAre
    <3> QED
      BY <3>1 DEF ErrorByte
  <2>3. ProgramTypes'
    BY <1>3, <2>1, <2>2, OneByteTyped, TransmitsBytes DEF GetcError
  <2>4. pc' = "transmit"
    BY <1>3 DEF GetcError, Transmit
  <2> QED
    BY <1>3, <2>1, <2>3, <2>4 DEF BoardTypes, ParserTypes, HandlerTypes, LineTyped, GetcError, parser,
       interrupts, bus, line
<1> QED
  BY <1>1, <1>2, <1>3

\* The parser takes the byte that uart_getc returns.
LEMMA ByteTyped ==
  ASSUME BoardTypes, GetcByte
  PROVE  Byte \in Bytes /\ UartTypeOK' /\ call'.at = "none" /\ pc = "getc"
<1>1. UartTypeOK' /\ call'.at = "none" /\ pc = "getc"
  BY GetcTypes DEF GetcByte, GetcReturn, NoCall, BoardTypes
<1>2. Byte \in Bytes
  BY DEF BoardTypes, UartTypeOK, Byte
<1> QED
  BY <1>1, <1>2

\* Neither kind of escape byte changes what the buffer is.
LEMMA UnescapeTyped ==
  ASSUME data \in [0 .. DataSize - 1 -> Bytes], NEW end, NEW n, NEW escape
  PROVE  Unescape(data, end, n, escape) \in [0 .. DataSize - 1 -> Bytes]
<1>1. Delimiter \in Bytes
  BY BytesAre DEF Delimiter
<1>2. DOMAIN data = 0 .. DataSize - 1 /\ \A k \in 0 .. DataSize - 1 : data[k] \in Bytes
  OBVIOUS
<1> HIDE DEF Delimiter
<1> QED
  BY <1>1, <1>2 DEF Unescape

LEMMA ParseWithinBoard ==
  ASSUME BoardTypes, ParseCommand \/ ParseData \/ ParseEscape \/ ParseUnexpected \/ ParseStart
  PROVE  BoardTypes'
<1>1. GetcByte
  BY DEF ParseCommand, ParseData, ParseEscape, ParseUnexpected, ParseStart
<1>2. Byte \in Bytes /\ UartTypeOK' /\ call'.at = "none" /\ pc = "getc"
  BY <1>1, ByteTyped
<1>3. ProgramTypes'
  <2>1. CASE UNCHANGED main
    BY <1>2, <2>1 DEF BoardTypes, ProgramTypes, main
  <2>2. CASE ParseUnexpected
    <3>1. <<51>> \in Seq(Bytes) /\ <<51>> # <<>>
      BY BytesAre
    <3> QED
      BY <1>2, <2>2, <3>1, TransmitsBytes DEF ParseUnexpected
  <2> QED
    BY <2>1, <2>2 DEF ParseCommand, ParseData, ParseEscape, ParseStart
<1>4. ParserTypes'
  <2>1. CASE ParseCommand
    BY <1>2, <2>1 DEF ParseCommand, BoardTypes, ParserTypes
  <2>2. CASE ParseData
    <3>1. data' \in [0 .. DataSize - 1 -> Bytes]
      <4>1. data' = [data EXCEPT ![dataIndex] = Byte] /\ data \in [0 .. DataSize - 1 -> Bytes]
        BY <2>2 DEF ParseData, BoardTypes, ParserTypes
      <4> QED
        BY <1>2, <4>1
    <3>2. dataIndex' \in Nat /\ dataIndex' < 65536
      <4>1. PICK i : i = dataIndex + 1 /\ i \in Int
        BY DEF BoardTypes, ParserTypes
      <4>2. i % 65536 \in Nat /\ i % 65536 < 65536
        BY <4>1
      <4> QED
        BY <2>2, <4>1, <4>2 DEF ParseData
    <3> QED
      BY <2>2, <3>1, <3>2 DEF ParseData, BoardTypes, ParserTypes
  <2>3. CASE ParseEscape
    <3>1. data' \in [0 .. DataSize - 1 -> Bytes]
      BY <2>3, UnescapeTyped DEF ParseEscape, BoardTypes, ParserTypes
    <3> QED
      BY <2>3, <3>1 DEF ParseEscape, BoardTypes, ParserTypes
  <2>4. CASE ParseUnexpected
    BY <2>4 DEF ParseUnexpected, BoardTypes, ParserTypes, parser
  <2>5. CASE ParseStart
    BY <2>5 DEF ParseStart, BoardTypes, ParserTypes
  <2> QED
    BY <2>1, <2>2, <2>3, <2>4, <2>5
<1>5. pc' \in {"getc", "transmit"} /\ UNCHANGED <<interrupts, available, bus, line>>
  BY <1>2 DEF ParseCommand, ParseData, ParseEscape, ParseUnexpected, ParseStart, main, Transmit
<1>6. HandlerTypes' /\ LineTyped'
  BY <1>2, <1>5 DEF BoardTypes, HandlerTypes, LineTyped, interrupts, bus, line
<1> QED
  BY <1>2, <1>3, <1>4, <1>6 DEF BoardTypes

\* The end of a frame, whoever handles it.
LEMMA EndTyped ==
  ASSUME BoardTypes, ParseEnd(TRUE)
  PROVE  UartTypeOK' /\ call'.at = "none" /\ pc = "getc" /\ ParserTypes' /\ LineTyped'
<1>1. UartTypeOK' /\ call'.at = "none" /\ pc = "getc"
  BY ByteTyped DEF ParseEnd
<1>2. PICK last : last = (dataIndex - 1) % 65536
  OBVIOUS
<1>3. last \in Nat /\ last < 65536
  <2>1. PICK i : i = dataIndex - 1 /\ i \in Int
    BY DEF BoardTypes, ParserTypes
  <2>2. i % 65536 \in Nat /\ i % 65536 < 65536
    BY <2>1
  <2> QED
    BY <1>2, <2>1, <2>2
<1>4. dataIndex' \in {dataIndex, last} /\ data' \in {data, Unescape(data, last, last % Block, data[last])}
  BY <1>2 DEF ParseEnd
<1>5. data' \in [0 .. DataSize - 1 -> Bytes]
  BY <1>4, UnescapeTyped DEF BoardTypes, ParserTypes
<1>6. expect' = "CMD" /\ commandByte' = commandByte /\ line' = line
  BY DEF ParseEnd
<1> QED
  BY <1>1, <1>3, <1>4, <1>5, <1>6 DEF BoardTypes, ParserTypes, LineTyped, line

LEMMA ParseEndBoard ==
  ASSUME BoardTypes,
         NotHandled \/ HandledByNobody \/ Identify \/ HandleSilently \/ HandleTemperature \/ HandleI2C
  PROVE  BoardTypes'
<1>1. ParseEnd(TRUE)
  BY DEF NotHandled, HandledByNobody, Identify, HandleSilently, HandleTemperature, HandleI2C, ParseEnd
<1>2. UartTypeOK' /\ call'.at = "none" /\ pc = "getc" /\ ParserTypes' /\ LineTyped'
  BY <1>1, EndTyped
<1>3. UNCHANGED <<interrupts, available, absent, slave, registers>>
  BY DEF NotHandled, HandledByNobody, Identify, HandleSilently, HandleTemperature, HandleI2C, ParseEnd,
     bus
<1>4. readData' \in Seq(Bytes)
  <2>1. readData' = readData \/ readData' = <<>>
    BY DEF NotHandled, HandledByNobody, Identify, HandleSilently, HandleTemperature, HandleI2C,
       ParseEnd, bus
  <2>2. readData \in Seq(Bytes) /\ <<>> \in Seq(Bytes)
    BY DEF BoardTypes, HandlerTypes
  <2> QED
    BY <2>1, <2>2
<1>5. ProgramTypes'
  <2>1. CASE NotHandled
    <3>1. PICK byte : byte = 34 /\ byte \in Bytes
      BY BytesAre
    <3>2. Transmit(<<byte>>, "getc")
      BY <2>1, <3>1 DEF NotHandled, ParseEnd
    <3> QED
      BY <1>2, <3>1, <3>2, OneByteTyped, TransmitsBytes
  <2>2. CASE HandledByNobody
    BY <1>2, <2>2, GoesOnTyped DEF HandledByNobody, ParseEnd, BoardTypes
  <2>3. CASE Identify
    <3>1. PICK bytes : bytes = Frame(CMB_DEVICE_IDENTIFICATION, <<1>>)
      OBVIOUS
    <3>2. bytes \in Seq(Bytes) /\ bytes # <<>>
      <4>1. <<1>> \in Seq(Bytes) /\ CMB_DEVICE_IDENTIFICATION \in Bytes
        BY BytesAre DEF CMB_DEVICE_IDENTIFICATION
      <4> QED
        BY <3>1, <4>1, FramesTyped
    <3> QED
      BY <1>2, <2>3, <3>1, <3>2, TransmitsBytes DEF Identify, ParseEnd
  <2>4. CASE HandleSilently
    BY <1>2, <2>4, GoesOnTyped DEF HandleSilently, ParseEnd, BoardTypes
  <2>5. CASE HandleTemperature
    <3>1. PICK bytes : bytes = Frame(CMB_DS18B20, <<10, data'[1], 0, 0>>)
      OBVIOUS
    <3>2. bytes \in Seq(Bytes) /\ bytes # <<>>
      <4>1. data'[1] \in Bytes /\ 10 \in Bytes /\ 0 \in Bytes
        BY <1>2, BytesAre DEF ParserTypes
      <4>2. <<10, data'[1], 0, 0>> \in Seq(Bytes) /\ CMB_DS18B20 \in Bytes
        BY <4>1, BytesAre DEF CMB_DS18B20
      <4> QED
        BY <3>1, <4>2, FramesTyped
    <3>3. Transmit(bytes, "getc") \/ (pc' = "getc" /\ UNCHANGED <<next, outbox>>)
      BY <2>5, <3>1 DEF HandleTemperature, ParseEnd
    <3> QED
      BY <1>2, <3>2, <3>3, TransmitsBytes, GoesOnTyped DEF BoardTypes
  <2>6. CASE HandleI2C
    <3>1. pc' \in {"getc", "writeStart", "readStart"} /\ UNCHANGED <<next, outbox>>
      BY <2>6 DEF HandleI2C, ParseEnd
    <3> QED
      BY <1>2, <3>1, GoesOnTyped DEF BoardTypes
  <2> QED
    BY <2>1, <2>2, <2>3, <2>4, <2>5, <2>6
<1>6. HandlerTypes'
  <2>1. pc' \notin {"decrement", "writeBytes", "writeStop", "readRegister", "readBytes", "readStop"}
    BY <1>2 DEF NotHandled, HandledByNobody, Identify, HandleSilently, HandleTemperature, HandleI2C,
       ParseEnd, Transmit
  <2> QED
    BY <1>3, <1>4, <2>1 DEF BoardTypes, HandlerTypes, interrupts
<1> QED
  BY <1>2, <1>5, <1>6 DEF BoardTypes

-----------------------------------------------------------------------------
(* The bus, sending, and the turns of the handlers *)

LEMMA I2cBoard ==
  ASSUME BoardTypes, I2c
  PROVE  BoardTypes'
<1>1. /\ pc \in {"writeStart", "writeBytes", "writeStop", "readStart", "readRegister", "readBytes", "readStop"}
      /\ UNCHANGED <<uart, parser, interrupts, available, line>>
  BY DEF I2c, I2cStartWait, I2cWrite, I2cRepStart, I2cRead, I2cStop, Here
<1>2. call.at = "none" /\ call' = call /\ UartTypeOK'
  BY <1>1, NoCallElsewhere, StandingTypes DEF BoardTypes, uart
<1>3. ParserTypes' /\ LineTyped' /\ data' = data
  BY <1>1 DEF BoardTypes, ParserTypes, LineTyped, parser, line
<1>4. data[1] \in Bytes /\ data[2] \in Bytes /\ 0 \in Bytes
  BY BytesAre DEF BoardTypes, ParserTypes
<1>5. ProgramTypes' /\ pc' # "decrement"
  <2>1. CASE ~(I2cStop /\ pc # "writeStop")
    <3>1. /\ pc' \in {"getc", "writeBytes", "writeStop", "readRegister", "readBytes", "readStop"}
          /\ UNCHANGED <<next, outbox>>
      BY <2>1 DEF I2c, I2cStartWait, I2cWrite, I2cRepStart, I2cRead, I2cStop
    <3> QED
      BY <1>1, <1>2, <3>1, GoesOnTyped DEF BoardTypes
  <2>2. CASE I2cStop /\ pc # "writeStop"
    <3>1. PICK code, bytes : code = CMB_I2C /\ bytes = <<0, Slave, data[2]>> \o readData
      OBVIOUS
    <3>2. bytes \in Seq(Bytes)
      <4>1. <<0, Slave, data[2]>> \in Seq(Bytes)
        BY <1>4 DEF Slave
      <4>2. PICK head : head = <<0, Slave, data[2]>> /\ head \in Seq(Bytes)
        BY <4>1
      <4>3. readData \in Seq(Bytes)
        BY DEF BoardTypes, HandlerTypes
      <4> QED
        BY <3>1, <4>2, <4>3, ConcatProperties
    <3>3. code \in Bytes
      BY <3>1, BytesAre DEF CMB_I2C
    <3>4. PICK sending : sending = Frame(code, bytes) /\ sending \in Seq(Bytes) /\ sending # <<>>
      BY <3>2, <3>3, FramesTyped
    <3>5. Transmit(sending, "getc")
      <4>1. Transmit(Frame(CMB_I2C, <<0, Slave, data[2]>> \o readData), "getc")
        BY <2>2 DEF I2cStop
      <4> QED
        BY <3>1, <3>4, <4>1
    <3>6. pc' = "transmit"
      BY <3>5 DEF Transmit
    <3> QED
      BY <1>2, <3>4, <3>5, <3>6, TransmitsBytes
  <2> QED
    BY <2>1, <2>2
<1>6. registers' \in [Chips -> [Registers -> Bytes]]
  <2>1. CASE I2cWrite
    <3>1. data \in [0 .. DataSize - 1 -> Bytes] /\ dataIndex \in Int /\ dataIndex <= DataSize
      BY <2>1 DEF I2cWrite, BoardTypes, ParserTypes
    <3>2. \A r \in Registers : r >= data[2] /\ r - data[2] + 3 < dataIndex => data[r - data[2] + 3] \in Bytes
      <4> SUFFICES ASSUME NEW r \in Registers, r >= data[2], r - data[2] + 3 < dataIndex
                   PROVE  data[r - data[2] + 3] \in Bytes
        OBVIOUS
      <4>1. r \in Int /\ data[2] \in Int /\ DataSize \in Int
        BY <1>4, FirmwareAssumption
      <4>2. PICK place : place = r - data[2] + 3 /\ place \in 0 .. DataSize - 1
        BY <3>1, <4>1
      <4> QED
        BY <3>1, <4>2
    <3>3. PICK chip, content :
            /\ chip = Slave
            /\ content = [r \in Registers |-> IF r >= data[2] /\ r - data[2] + 3 < dataIndex
                                              THEN data[r - data[2] + 3] ELSE registers[chip][r]]
      OBVIOUS
    <3>4. chip \in Chips
      BY <2>1, <3>3 DEF I2cWrite, BoardTypes, HandlerTypes, Slave
    <3>5. registers[chip] \in [Registers -> Bytes]
      BY <3>4 DEF BoardTypes, HandlerTypes
    <3>6. content \in [Registers -> Bytes]
      BY <3>2, <3>3, <3>5
    <3>7. registers' = [registers EXCEPT ![chip] = content]
      BY <2>1, <3>3 DEF I2cWrite
    <3> QED
      BY <3>6, <3>7 DEF BoardTypes, HandlerTypes
  <2>2. CASE ~I2cWrite
    <3>1. registers' = registers
      BY <2>2 DEF I2c, I2cStartWait, I2cRepStart, I2cRead, I2cStop
    <3> QED
      BY <3>1 DEF BoardTypes, HandlerTypes
  <2> QED
    BY <2>1, <2>2
<1>7. readData' \in Seq(Bytes)
  <2>1. CASE readData' = readData
    BY <2>1 DEF BoardTypes, HandlerTypes
  <2>2. CASE readData' # readData
    <3>1. I2cRead
      BY <2>2 DEF I2c, I2cStartWait, I2cWrite, I2cRepStart, I2cStop
    <3>2. PICK r \in Registers : readData' = Append(readData, registers[Slave][r])
      BY <2>2, <3>1 DEF I2cRead
    <3>3. registers[Slave][r] \in Bytes
      BY <3>1 DEF I2cRead, BoardTypes, HandlerTypes, Slave
    <3>4. readData \in Seq(Bytes)
      BY DEF BoardTypes, HandlerTypes
    <3> QED
      BY <3>2, <3>3, <3>4
  <2> QED
    BY <2>1, <2>2
<1>8. pc' \in {"writeBytes", "writeStop", "readRegister", "readBytes", "readStop"} => data[1] \in Chips
  BY DEF I2c, I2cStartWait, I2cWrite, I2cRepStart, I2cRead, I2cStop, Transmit, BoardTypes, HandlerTypes,
     Slave
<1>9. commonInterruptPacketDispatch' = commonInterruptPacketDispatch /\ available' = available
  BY <1>1 DEF interrupts
<1>10. HandlerTypes'
  BY <1>3, <1>5, <1>6, <1>7, <1>8, <1>9 DEF BoardTypes, HandlerTypes
<1> QED
  BY <1>2, <1>3, <1>5, <1>10 DEF BoardTypes

LEMMA PutcBoard ==
  ASSUME BoardTypes, Putc
  PROVE  BoardTypes'
<1>1. outbox \in Seq(Bytes) /\ outbox # <<>> /\ pc = "transmit"
  BY DEF Putc, BoardTypes, ProgramTypes
<1>2. Head(outbox) \in Bytes /\ Tail(outbox) \in Seq(Bytes) /\ Len(Tail(outbox)) = Len(outbox) - 1
  BY <1>1, HeadTailProperties
<1>3. UartTypeOK' /\ call'.at \in {"none", "stored", "published"}
  BY <1>2, PutcTypes DEF Putc, BoardTypes
<1>4. ProgramTypes'
  <2>1. CASE UNCHANGED main
    BY <1>1, <1>3, <2>1 DEF BoardTypes, ProgramTypes, main
  <2>2. CASE PutcEnable /\ outbox' = Tail(outbox) /\ UNCHANGED next
             /\ pc' = IF Len(outbox) = 1 THEN next ELSE "transmit"
    <3>1. call'.at = "none"
      BY <2>2 DEF PutcEnable, NoCall
    <3>2. Tail(outbox) = <<>> <=> Len(outbox) = 1
      BY <1>1, <1>2
    <3> QED
      BY <1>2, <2>2, <3>1, <3>2 DEF BoardTypes, ProgramTypes
  <2> QED
    BY <2>1, <2>2 DEF Putc
<1>5. pc' \in {"transmit", next} /\ UNCHANGED <<parser, interrupts, available, bus, line>>
  BY <1>1 DEF Putc, main
<1>6. pc' \in {"transmit", "getc", "rc", "rcReset", "irReset"}
  BY <1>5 DEF BoardTypes, ProgramTypes
<1>7. ParserTypes' /\ LineTyped'
  BY <1>5 DEF BoardTypes, ParserTypes, LineTyped, parser, line
<1>8. HandlerTypes'
  BY <1>5, <1>6 DEF BoardTypes, HandlerTypes, interrupts, bus
<1> QED
  BY <1>3, <1>4, <1>7, <1>8 DEF BoardTypes

LEMMA LoopBoard ==
  ASSUME BoardTypes, Loop
  PROVE  BoardTypes'
<1>1. /\ pc \in {"interrupts", "decrement", "rc", "ir", "rcReset", "irReset"}
      /\ UNCHANGED <<uart, parser, bus, line>>
  BY DEF Loop, NoInterrupts, LoadCounter, StoreCounter, NoCode, SendCode, ResetCode, Elsewhere, Reset
<1>2. call.at = "none" /\ call' = call /\ UartTypeOK'
  BY <1>1, NoCallElsewhere, StandingTypes DEF BoardTypes, uart
<1>3. ParserTypes' /\ LineTyped'
  BY <1>1 DEF BoardTypes, ParserTypes, LineTyped, parser, line
<1>4. PICK byte : byte = 0 /\ byte \in Bytes /\ <<byte>> \in Seq(Bytes)
  BY BytesAre
<1>5. ProgramTypes'
  <2>2. CASE StoreCounter
    <3>1. PICK code : code = CMB_COMMON_INTERRUPT /\ code \in Bytes
      BY BytesAre DEF CMB_COMMON_INTERRUPT
    <3>2. PICK sending : sending = Frame(code, <<byte>>) /\ sending \in Seq(Bytes) /\ sending # <<>>
      BY <1>4, <3>1, FramesTyped
    <3>3. Transmit(sending, "rc")
      BY <1>4, <2>2, <3>1, <3>2 DEF StoreCounter
    <3> QED
      BY <1>2, <3>2, <3>3, TransmitsBytes
  <2>3. ASSUME NEW kind \in {"rc", "ir"}, SendCode(kind) PROVE ProgramTypes'
    <3>1. PICK code, then : /\ code = Command[kind] /\ code \in Bytes
                            /\ then = Reset[kind] /\ then \in {"rcReset", "irReset"}
      BY BytesAre DEF Command, Reset, RC_SWITCH, CMB_IR
    <3>2. PICK sending : sending = Frame(code, <<byte>>) /\ sending \in Seq(Bytes) /\ sending # <<>>
      BY <1>4, <3>1, FramesTyped
    <3>3. Transmit(sending, then)
      BY <1>4, <2>3, <3>1, <3>2 DEF SendCode
    <3> QED
      BY <1>2, <3>1, <3>2, <3>3, TransmitsBytes
  <2>4. CASE ~StoreCounter /\ ~\E kind \in {"rc", "ir"} : SendCode(kind)
    <3>1. NoInterrupts \/ LoadCounter \/ \E kind \in {"rc", "ir"} : NoCode(kind) \/ ResetCode(kind)
      BY <2>4, Zenon DEF Loop
    <3>2. UNCHANGED <<next, outbox>>
      BY <3>1 DEF NoInterrupts, LoadCounter, NoCode, ResetCode
    <3>3. pc' \in {"decrement", "rc", "ir", "getc"}
      BY <3>1 DEF NoInterrupts, LoadCounter, NoCode, ResetCode, Following
    <3> QED
      BY <1>1, <1>2, <3>2, <3>3, GoesOnTyped DEF BoardTypes
  <2> QED
    BY <2>2, <2>3, <2>4
<1>6. /\ commonInterruptPacketDispatch' \in 0 .. 255 /\ (pc' = "decrement" => loaded' \in 1 .. 255)
      /\ available' \subseteq {"rc", "ir"}
  <2>1. CASE NoInterrupts
    BY <2>1 DEF NoInterrupts, Elsewhere, interrupts, BoardTypes, HandlerTypes
  <2>2. CASE LoadCounter
    BY <2>2 DEF LoadCounter, Elsewhere, BoardTypes, HandlerTypes
  <2>3. CASE StoreCounter
    BY <2>3 DEF StoreCounter, Elsewhere, Transmit, BoardTypes, HandlerTypes
  <2>4. ASSUME NEW kind \in {"rc", "ir"}, NoCode(kind) \/ SendCode(kind) \/ ResetCode(kind)
        PROVE  /\ commonInterruptPacketDispatch' \in 0 .. 255 /\ (pc' = "decrement" => loaded' \in 1 .. 255)
               /\ available' \subseteq {"rc", "ir"}
    <3>1. pc' # "decrement"
      BY <2>4 DEF NoCode, SendCode, ResetCode, Following, Transmit
    <3> QED
      BY <2>4, <3>1 DEF NoCode, SendCode, ResetCode, Elsewhere, interrupts, BoardTypes, HandlerTypes
  <2> QED
    BY <2>1, <2>2, <2>3, <2>4 DEF Loop
<1>7. pc' \notin {"writeBytes", "writeStop", "readRegister", "readBytes", "readStop"}
  BY <1>1 DEF Loop, NoInterrupts, LoadCounter, StoreCounter, NoCode, SendCode, ResetCode,
     Following, Transmit
<1>8. HandlerTypes'
  BY <1>1, <1>6, <1>7 DEF BoardTypes, HandlerTypes, bus
<1> QED
  BY <1>2, <1>3, <1>5, <1>8 DEF BoardTypes

-----------------------------------------------------------------------------
(* Host and line *)

\* What comes in, damaged or not.
LEMMA ArriveBoard ==
  ASSUME BoardTypes, Arrive \/ ArriveDamaged
  PROVE  BoardTypes'
<1>1. incoming \in Seq(Bytes) /\ incoming # <<>>
  BY DEF Arrive, ArriveDamaged, BoardTypes, LineTyped
<1>2. Head(incoming) \in Bytes /\ Tail(incoming) \in Seq(Bytes)
  BY <1>1, HeadTailProperties
<1>3. /\ Len(incoming) > 1 =>
           incoming[2] \in Bytes /\ Tail(Tail(incoming)) \in Seq(Bytes)
  <2> SUFFICES ASSUME Len(incoming) > 1
               PROVE  incoming[2] \in Bytes /\ Tail(Tail(incoming)) \in Seq(Bytes)
    OBVIOUS
  <2>1. 2 \in 1 .. Len(incoming) /\ Len(incoming) \in Nat
    BY <1>1
  <2>2. Tail(incoming) # <<>> /\ Tail(incoming) \in Seq(Bytes)
    <3>1. Tail(incoming) \in Seq(Bytes) /\ Len(Tail(incoming)) = Len(incoming) - 1
      BY <1>1, HeadTailProperties
    <3>2. Len(Tail(incoming)) # 0
      BY <2>1, <3>1
    <3> QED
      BY <3>1, <3>2
  <2>3. Tail(Tail(incoming)) \in Seq(Bytes)
    BY <2>2, HeadTailProperties
  <2> QED
    BY <1>1, <2>1, <2>3, ElementOfSeq
<1>4. PICK byte \in Bytes, errors \in SUBSET LineErrors : ReceiveInterrupt(byte, errors)
  BY <1>2, <1>3 DEF Arrive, ArriveDamaged, LineErrors
<1>5. UartTypeOK' /\ call' = call
  BY <1>4, ReceiveTypes DEF BoardTypes, ReceiveInterrupt
<1>6. LineTyped'
  BY <1>2, <1>3 DEF Arrive, ArriveDamaged, LineTyped
<1>7. UNCHANGED <<main, parser, interrupts, available, bus>>
  BY DEF Arrive, ArriveDamaged
<1> QED
  BY <1>5, <1>6, <1>7 DEF BoardTypes, ProgramTypes, ParserTypes, HandlerTypes, main, parser, interrupts, bus

LEMMA EnvironmentBoard ==
  ASSUME BoardTypes, DataRegisterEmpty \/ HostSends \/ PinChange \/ CodeReceived
  PROVE  BoardTypes'
<1>1. UNCHANGED <<main, parser, bus, loaded>> /\ call' = call
  BY DEF DataRegisterEmpty, HostSends, PinChange, CodeReceived, TransmitInterrupt, uart, interrupts
<1>2. UartTypeOK'
  BY TransmitTypes, StandingTypes DEF DataRegisterEmpty, HostSends, PinChange, CodeReceived, BoardTypes
<1>3. LineTyped'
  <2>1. CASE HostSends
    <3>1. PICK query \in Queries : incoming' = incoming \o Framed(query)
      BY <2>1 DEF HostSends, Framed
    <3>2. Framed(query) \in Seq(Bytes)
      BY <3>1, FramesShape DEF FrameShape
    <3> QED
      BY <3>1, <3>2, ConcatProperties DEF BoardTypes, LineTyped
  <2>2. CASE ~HostSends
    <3>1. incoming' = incoming
      BY <2>2 DEF DataRegisterEmpty, PinChange, CodeReceived, line
    <3> QED
      BY <3>1 DEF BoardTypes, LineTyped
  <2> QED
    BY <2>1, <2>2
<1>4. commonInterruptPacketDispatch' \in 0 .. 255
  <2>1. CASE PinChange
    <3>1. PICK n : n = commonInterruptPacketDispatch + 1 /\ n \in Int
      BY DEF BoardTypes, HandlerTypes
    <3>2. n % 256 \in 0 .. 255
      BY <3>1
    <3> QED
      BY <2>1, <3>1, <3>2 DEF PinChange
  <2>2. CASE ~PinChange
    BY <2>2 DEF DataRegisterEmpty, HostSends, CodeReceived, interrupts, BoardTypes, HandlerTypes
  <2> QED
    BY <2>1, <2>2
<1>5. available' \subseteq {"rc", "ir"}
  <2>1. CASE CodeReceived
    BY <2>1 DEF CodeReceived, BoardTypes, HandlerTypes
  <2>2. CASE ~CodeReceived
    BY <2>2 DEF DataRegisterEmpty, HostSends, PinChange, BoardTypes, HandlerTypes
  <2> QED
    BY <2>1, <2>2
<1>6. ProgramTypes' /\ ParserTypes'
  BY <1>1 DEF BoardTypes, ProgramTypes, ParserTypes, main, parser
<1>7. HandlerTypes'
  BY <1>1, <1>4, <1>5 DEF BoardTypes, HandlerTypes, main, parser, bus
<1> QED
  BY <1>2, <1>3, <1>6, <1>7 DEF BoardTypes

LEMMA BoardInit == Init => BoardTypes
<1> SUFFICES ASSUME Init PROVE BoardTypes
  OBVIOUS
<1>1. 0 \in Bytes /\ \A V : <<>> \in Seq(V)
  BY BytesAre
<1>2. UartTypeOK
  <2>1. /\ rxBuf \in [0 .. RxSize - 1 -> Bytes] /\ txBuf \in [0 .. TxSize - 1 -> Bytes]
        /\ rxHead = 0 /\ rxTail = 0 /\ txHead = 0 /\ txTail = 0
    BY <1>1 DEF Init, UartInit
  <2>2. 0 \in 0 .. RxSize - 1 /\ 0 \in 0 .. TxSize - 1
    BY Sizes
  <2>3. lastRxError = {} /\ udrie = FALSE /\ call = [at |-> "none", byte |-> 0, error |-> {}]
    BY DEF Init, UartInit, NoCall
  <2> QED
    BY <1>1, <2>1, <2>2, <2>3 DEF UartTypeOK
<1>3. ProgramTypes
  BY <1>1 DEF Init, UartInit, NoCall, ProgramTypes
<1>4. ParserTypes
  BY <1>1 DEF Init, ParserTypes
<1>5. HandlerTypes
  BY <1>1 DEF Init, HandlerTypes
<1>6. LineTyped
  BY <1>1 DEF Init, LineTyped
<1> QED
  BY <1>2, <1>3, <1>4, <1>5, <1>6 DEF BoardTypes

LEMMA BoardStep ==
  ASSUME BoardTypes, [Next]_vars
  PROVE  BoardTypes'
<1>1. CASE UNCHANGED vars
  <2>1. UNCHANGED <<uart, main, parser, interrupts, available, bus, line>> /\ call' = call
    BY <1>1 DEF vars, uart
  <2>2. UartTypeOK'
    BY <2>1, StandingTypes DEF BoardTypes
  <2> QED
    BY <2>1, <2>2 DEF BoardTypes, ProgramTypes, ParserTypes, HandlerTypes, LineTyped, main, parser,
       interrupts, bus, line
<1>2. CASE Getc \/ NoData \/ GetcError
  BY <1>2, GetcBoard
<1>3. CASE Parse
  BY <1>3, ParseWithinBoard, ParseEndBoard DEF Parse
<1>4. CASE I2c
  BY <1>4, I2cBoard
<1>5. CASE Putc
  BY <1>5, PutcBoard
<1>6. CASE Loop
  BY <1>6, LoopBoard
<1>7. CASE Arrive \/ ArriveDamaged
  BY <1>7, ArriveBoard
<1>8. CASE DataRegisterEmpty \/ HostSends \/ PinChange \/ CodeReceived
  BY <1>8, EnvironmentBoard
<1> QED
  BY <1>1, <1>2, <1>3, <1>4, <1>5, <1>6, <1>7, <1>8 DEF Next, Main, Environment

LEMMA BoardTypesSuffice == BoardTypes => TypeOK
  BY DEF BoardTypes, ProgramTypes, ParserTypes, HandlerTypes, TypeOK

LEMMA HostTypesSuffice ==
  ASSUME HostTypes
  PROVE  Host!TypeOK
<1>1. \A j \in DOMAIN hostLine : hostLine[j] \in Host!Byte
  BY DEF HostTypes
<1>2. hostSent # None => hostSent.command \in Commands
  <2>1. frames \in Nat
    BY HostAssumption DEF HostTypes, Host!FramingAssumption
  <2>2. hostSent # None => hostSent \in Host!Packets
    BY <2>1 DEF HostTypes
  <2> QED
    BY <2>2 DEF Host!Packets
<1>3. \A j \in DOMAIN hostData : hostData[j] \in Host!Byte
  BY DEF HostTypes
<1>4. \A j \in DOMAIN fired : fired[j].command \in Commands
  <2>1. PICK V : V = [command : Commands, data : Seq(Host!Byte)] /\ fired \in Seq(V)
    BY DEF HostTypes
  <2>2. \A packet \in V : packet.command \in Commands
    <3>1. PICK D : V = [command : Commands, data : D]
      BY <2>1
    <3> QED
      BY <3>1
  <2>3. fired \in Seq(V)
    BY <2>1
  <2>4. \A j \in DOMAIN fired : fired[j] \in V
    BY <2>3
  <2> QED
    BY <2>2, <2>4
<1> QED
  BY <1>1, <1>2, <1>3, <1>4 DEF HostTypes, Host!TypeOK

\* The board's variables keep their types in whatever comes over the line: a frame's data
\* and its length, the registers they are written to, the places of the two calls.
THEOREM BoardTyped == Spec => []TypeOK
<1>1. BoardTypes /\ [Next]_vars => BoardTypes'
  BY BoardStep
<1> QED
  BY <1>1, BoardInit, BoardTypesSuffice, PTL DEF Spec

\* The same of both ends of the line.
THEOREM SerialTyped == MCSpec => []SerialTypeOK
<1>1. MCInit => BoardTypes
  BY BoardInit DEF MCInit
<1>2. BoardTypes /\ [MCNext]_<<unit, vars, ofHost>> => BoardTypes'
  <2> SUFFICES ASSUME BoardTypes, [MCNext]_<<unit, vars, ofHost>> PROVE BoardTypes'
    OBVIOUS
  <2>1. [Next]_vars
    BY DEF MCNext
  <2> QED
    BY <2>1, BoardStep
<1>3. HostInvariant => HostTypes
  BY DEF HostInvariant
<1>4. BoardTypes /\ HostTypes => SerialTypeOK
  BY BoardTypesSuffice, HostTypesSuffice DEF SerialTypeOK
<1> QED
  BY <1>1, <1>2, <1>3, <1>4, HostInvariantHolds, PTL DEF MCSpec
=============================================================================
