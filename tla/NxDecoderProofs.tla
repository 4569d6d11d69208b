--------------------------- MODULE NxDecoderProofs ---------------------------
(***************************************************************************)
(* The receiver of NxDecoder, for any streams, any sizes of the scheduler  *)
(* calls, and any lengths of callsign and blocks.                          *)
(***************************************************************************)
EXTENDS NxDecoder, SequenceTheorems, TLAPS

------------------------------------------------------------------------------
(* The operators                                                            *)

\* A head names between one and 32 blocks.
LEMMA BlocksOfHead == ASSUME NEW h \in FrameHead PROVE num_of_blocks(h) \in 1..32
<1> DEFINE Sums(n) == n = [k \in (4 - 1)..8 |-> IF k = 4 - 1 THEN 0 ELSE 2 * n[k - 1] + h[k]]
           n == CHOOSE n : Sums(n)
           a == [k \in 3..8 |-> CASE k = 3 -> 0
                                  [] k = 4 -> h[4]
                                  [] k = 5 -> 2 * h[4] + h[5]
                                  [] k = 6 -> 4 * h[4] + 2 * h[5] + h[6]
                                  [] k = 7 -> 8 * h[4] + 4 * h[5] + 2 * h[6] + h[7]
                                  [] OTHER -> 16 * h[4] + 8 * h[5] + 4 * h[6] + 2 * h[7] + h[8]]
<1>1. \A k \in 4..8 : h[k] \in {0, 1}
  BY DEF FrameHead, HeadBits, Bit
<1>2. Sums(a)
  BY <1>1
<1>3. Sums(n)
  BY <1>2
<1>4. num_of_blocks(h) = n[8] + 1
  BY DEF num_of_blocks, Number
<1> HIDE DEF n
<1>5. /\ n[3] = 0
      /\ n[4] = 2 * n[3] + h[4] /\ n[5] = 2 * n[4] + h[5] /\ n[6] = 2 * n[5] + h[6]
      /\ n[7] = 2 * n[6] + h[7] /\ n[8] = 2 * n[7] + h[8]
  BY <1>3
<1> QED
  BY <1>1, <1>4, <1>5

\* Corrected or not, a head is a head.
LEMMA DecodeType == ASSUME NEW h \in FrameHead PROVE decode_control(h) \in FrameHead
<1> DEFINE corrected == {k \in {0, 1} : \A j \in 0..k : Correctable(ControlWord(h, j))}
           flips(k) == {12 + 8 * k - (i + 4) : i \in decalc_fec(ControlWord(h, k))}
           wrong == UNION {flips(k) : k \in corrected}
<1>1. decode_control(h) = [j \in 1..HeadBits |-> IF j \in wrong THEN 1 - h[j] ELSE h[j]]
  BY DEF decode_control
<1> HIDE DEF wrong
<1> QED
  BY <1>1 DEF FrameHead, HeadBits, Bit

\* The zeros the receiver starts from.
LEMMA ZerosType == NoFrame \in FrameHead /\ Zeros(16) \in [1..16 -> Bit]
  BY DEF NoFrame, Zeros, FrameHead, HeadBits, Bit

\* The sequence without its first element, and with another one behind.
LEMMA Shifted ==
  ASSUME NEW S, NEW h \in Seq(S), NEW b \in S, Len(h) > 0
  PROVE  /\ Append(Tail(h), b) \in [1..Len(h) -> S]
         /\ Append(Tail(h), b) = [i \in 1..Len(h) |-> IF i = Len(h) THEN b ELSE h[i + 1]]
<1> DEFINE a == Append(Tail(h), b)
<1>1. h # <<>>
  OBVIOUS
<1>2. /\ Tail(h) \in Seq(S) /\ Len(Tail(h)) = Len(h) - 1
      /\ \A i \in 1..(Len(h) - 1) : Tail(h)[i] = h[i + 1]
  BY <1>1, HeadTailProperties
<1>3. /\ a \in Seq(S) /\ Len(a) = Len(h)
      /\ \A i \in 1..(Len(h) - 1) : a[i] = h[i + 1]
      /\ a[Len(h)] = b
  BY <1>2, AppendProperties
<1> HIDE DEF a
<1>4. a \in [1..Len(h) -> S]
  BY <1>3, LenProperties
<1>5. \A i \in 1..Len(h) : a[i] = IF i = Len(h) THEN b ELSE h[i + 1]
  BY <1>3
<1>6. a = [i \in 1..Len(h) |-> IF i = Len(h) THEN b ELSE h[i + 1]]
  BY <1>4, <1>5
<1> QED
  BY <1>4, <1>6 DEF a

LEMMA ShiftedBits ==
  ASSUME NEW h \in Seq(Bit), NEW b \in Bit
  PROVE  \A n \in Nat : n > 0 /\ Len(h) = n =>
           /\ Append(Tail(h), b) \in [1..n -> Bit]
           /\ Append(Tail(h), b) = [i \in 1..n |-> IF i = n THEN b ELSE h[i + 1]]
<1> SUFFICES ASSUME NEW n \in Nat, n > 0, Len(h) = n
             PROVE  /\ Append(Tail(h), b) \in [1..n -> Bit]
                    /\ Append(Tail(h), b) = [i \in 1..n |-> IF i = n THEN b ELSE h[i + 1]]
  OBVIOUS
<1>1. Len(h) > 0
  OBVIOUS
<1> QED
  BY <1>1, Shifted

LEMMA ShiftedHeader ==
  ASSUME NEW h \in Seq(Bit), NEW b \in Bit, Len(h) = 16
  PROVE  /\ Append(Tail(h), b) \in [1..16 -> Bit]
         /\ Append(Tail(h), b) = [i \in 1..16 |-> IF i = 16 THEN b ELSE h[i + 1]]
<1>1. 16 \in Nat /\ 16 > 0
  OBVIOUS
<1> QED
  BY <1>1, ShiftedBits, Zenon

\* A bit is shifted into header.
LEMMA ShiftIn ==
  ASSUME NEW h \in [1..16 -> Bit], NEW b \in Bit
  PROVE  /\ Append(Tail(h), b) \in [1..16 -> Bit]
         /\ Append(Tail(h), b) = [i \in 1..16 |-> IF i = 16 THEN b ELSE h[i + 1]]
<1>1. h = [i \in 1..16 |-> h[i]] /\ \A i \in 1..16 : h[i] \in Bit
  OBVIOUS
<1>2. h \in Seq(Bit) /\ Len(h) = 16
  BY <1>1
<1> QED
  BY <1>2, ShiftedHeader

\* Counting the bits of a field.
LEMMA Counted ==
  ASSUME NEW length \in Nat \ {0}, NEW n \in 0..(length - 1)
  PROVE  /\ (n + 1) % length \in 0..(length - 1)
         /\ (n + 1) % length = IF n + 1 = length THEN 0 ELSE n + 1
  OBVIOUS

------------------------------------------------------------------------------
(* The search                                                               *)

LEMMA SyncWord == /\ FRAMESYNC \in [1..16 -> Bit]
                  /\ FRAMESYNC[5] = 1
                  /\ \A i \in 1..4 : FRAMESYNC[i] = 0
  BY DEF FRAMESYNC, Bit

\* Bit by bit, the marker stands at the end of the bits read so far.
LEMMA SyncBits ==
  ASSUME stream \in Seq(Bit), NEW e \in 1..Len(stream)
  PROVE  SyncAt(e) <=> e >= 16 /\ \A i \in 1..16 : stream[e - 16 + i] = FRAMESYNC[i]
<1>1. CASE e < 16
  BY <1>1 DEF SyncAt
<1>2. CASE e >= 16
  <2> DEFINE sub == SubSeq(stream, e - 15, e)
  <2>1. sub = [i \in 1..16 |-> stream[e - 16 + i]]
    <3>1. /\ sub \in Seq(Bit) /\ Len(sub) = e - (e - 15) + 1
          /\ \A i \in 1..(e - (e - 15) + 1) : sub[i] = stream[(e - 15) + i - 1]
      BY <1>2, SubSeqProperties
    <3> HIDE DEF sub
    <3>2. e - (e - 15) + 1 = 16
      OBVIOUS
    <3>3. Len(sub) = 16 /\ \A i \in 1..16 : sub[i] = stream[(e - 15) + i - 1]
      BY <3>1, <3>2, Zenon
    <3>4. \A i \in 1..16 : (e - 15) + i - 1 = e - 16 + i
      OBVIOUS
    <3>5. \A i \in 1..16 : sub[i] = stream[e - 16 + i]
      BY <3>3, <3>4, Zenon
    <3> QED
      BY <3>1, <3>3, <3>5, LenProperties
  <2> HIDE DEF sub
  <2>2. SyncAt(e) <=> sub = FRAMESYNC
    BY <1>2 DEF SyncAt, sub
  <2> QED
    BY <1>2, <2>1, <2>2, SyncWord
<1> QED
  BY <1>1, <1>2

\* The next bit of the call is a bit of the stream.
LEMMA BitRead ==
  ASSUME TypeOK, DecoderInv, pos < call.base + call.items
  PROVE  /\ stream \in Seq(Bit) /\ Len(stream) \in Nat
         /\ pos \in 0..(Len(stream) - 1)
         /\ bit = stream[pos + 1] /\ bit \in Bit
         /\ call.base \in Nat /\ call.items \in Nat
<1>1. /\ stream \in Seq(Bit) /\ pos \in Int
      /\ call.base \in Nat /\ call.items \in Nat /\ tried \subseteq 1..Len(stream)
      /\ state \in {"SEARCH", "RX_CTRL", "RX_CFEC", "RX_CS", "RX_DATA"}
      /\ rd.ctrl \in Nat /\ rd.fec \in Nat
  <2>1. stream \in Seq(Bit)
    BY StreamsAssumption DEF TypeOK
  <2>2. Len(stream) \in Nat
    BY <2>1, LenProperties
  <2>3. pos \in Int
    BY <2>2 DEF TypeOK, History
  <2>4. call.base \in Nat /\ call.items \in Nat
    BY <2>2 DEF TypeOK
  <2>5. rd.ctrl \in Nat /\ rd.fec \in Nat
    BY SMTT(30) DEF TypeOK
  <2> QED
    BY <2>1, <2>3, <2>4, <2>5 DEF TypeOK
<1>2. Len(stream) \in Nat /\ stream \in [1..Len(stream) -> Bit]
  BY <1>1, LenProperties
<1>3. pos >= 0
  BY <1>1, <1>2 DEF DecoderInv, SearchInv, FrameInv
<1>4. pos < Len(stream)
  BY <1>1, <1>2 DEF DecoderInv, CallInv
<1> QED
  BY <1>1, <1>2, <1>3, <1>4 DEF bit

\* What was found stays found.
LEMMA FoundKept ==
  ASSUME stream' = stream, tried \subseteq tried', taken \subseteq taken', NEW e, Found(e)
  PROVE  Found(e)'
  BY DEF Found, SyncAt

\* One bit on, header is the window of the next position.
LEMMA WindowNext ==
  ASSUME NEW s, pos \in Nat, s \in 0..pos,
         header' = [i \in 1..16 |-> IF i = 16 THEN stream[pos + 1] ELSE header[i + 1]],
         header = [i \in 1..16 |-> IF pos - 16 + i <= s THEN 0 ELSE stream[pos - 16 + i]]
  PROVE  header' = [i \in 1..16 |-> IF (pos + 1) - 16 + i <= s THEN 0 ELSE stream[(pos + 1) - 16 + i]]
  OBVIOUS

\* It is the marker only if the search began at least twelve bits ago, and
\* then it is the marker whenever the stream has it there.
LEMMA WindowFull ==
  ASSUME NEW s, pos \in Nat, s \in 0..pos,
         header' = [i \in 1..16 |-> IF (pos + 1) - 16 + i <= s THEN 0 ELSE stream[(pos + 1) - 16 + i]]
  PROVE  /\ header' = FRAMESYNC => pos + 1 >= s + 12
         /\ (pos + 1 >= s + 12 /\ \A i \in 1..16 : stream[(pos + 1) - 16 + i] = FRAMESYNC[i])
               => header' = FRAMESYNC
<1>1. ASSUME header' = FRAMESYNC PROVE pos + 1 >= s + 12
  <2>1. header'[5] = 1
    BY <1>1, SyncWord
  <2>2. header'[5] = IF (pos + 1) - 16 + 5 <= s THEN 0 ELSE stream[(pos + 1) - 16 + 5]
    OBVIOUS
  <2> QED
    BY <2>1, <2>2
<1>2. ASSUME pos + 1 >= s + 12, \A i \in 1..16 : stream[(pos + 1) - 16 + i] = FRAMESYNC[i]
      PROVE header' = FRAMESYNC
  <2>1. FRAMESYNC = [i \in 1..16 |-> FRAMESYNC[i]]
    BY SyncWord
  <2>2. \A i \in 1..16 : (pos + 1) - 16 + i <= s => i \in 1..4
    BY <1>2
  <2>3. \A i \in 1..16 : header'[i] = FRAMESYNC[i]
    BY <1>2, <2>2, SyncWord
  <2> QED
    BY <2>1, <2>3
<1> QED
  BY <1>1, <1>2

\* The zeros of a new search are its window.
LEMMA WindowBegins ==
  ASSUME NEW s \in Int, pos' = s, header' = Zeros(16)
  PROVE  header' = Window(s)'
  BY DEF Zeros, Window

\* The same of the variables of a step of the search.
LEMMA WindowShifts ==
  ASSUME stream \in Seq(Bit), Len(stream) \in Nat, pos \in 0..(Len(stream) - 1), bit = stream[pos + 1],
         bit \in Bit, header \in [1..16 -> Bit], NEW s \in 0..pos, header = Window(s),
         header' = Append(Tail(header), bit), pos' = pos + 1, stream' = stream
  PROVE  /\ header' \in [1..16 -> Bit]
         /\ header' = Window(s)'
         /\ header' = FRAMESYNC => pos + 1 >= s + 12
         /\ SyncAt(pos + 1) /\ pos + 1 >= s + 12 => header' = FRAMESYNC
<1>1. /\ header' \in [1..16 -> Bit]
      /\ header' = [i \in 1..16 |-> IF i = 16 THEN stream[pos + 1] ELSE header[i + 1]]
  BY ShiftIn
<1>2. header = [i \in 1..16 |-> IF pos - 16 + i <= s THEN 0 ELSE stream[pos - 16 + i]]
  BY DEF Window
<1>3. header' = [i \in 1..16 |-> IF (pos + 1) - 16 + i <= s THEN 0 ELSE stream[(pos + 1) - 16 + i]]
  <2>1. pos \in Nat
    OBVIOUS
  <2> QED
    BY <1>1, <1>2, <2>1, WindowNext, Zenon
<1>4. Window(s)' = [i \in 1..16 |-> IF (pos + 1) - 16 + i <= s THEN 0 ELSE stream[(pos + 1) - 16 + i]]
  BY DEF Window
<1>5. SyncAt(pos + 1) => \A i \in 1..16 : stream[(pos + 1) - 16 + i] = FRAMESYNC[i]
  <2>1. pos + 1 \in 1..Len(stream)
    OBVIOUS
  <2> QED
    BY <2>1, SyncBits, Zenon
<1>6. /\ header' = FRAMESYNC => pos + 1 >= s + 12
      /\ (pos + 1 >= s + 12 /\ \A i \in 1..16 : stream[(pos + 1) - 16 + i] = FRAMESYNC[i])
            => header' = FRAMESYNC
  <2>1. pos \in Nat
    OBVIOUS
  <2> QED
    BY <1>3, <2>1, WindowFull, Zenon
<1> QED
  BY <1>1, <1>3, <1>4, <1>5, <1>6

------------------------------------------------------------------------------
(* Each step preserves the invariant                                        *)

LEMMA SearchStep == ASSUME TypeOK, DecoderInv, Search PROVE TypeOK' /\ DecoderInv'
<1>1. /\ stream \in Seq(Bit) /\ Len(stream) \in Nat /\ pos \in 0..(Len(stream) - 1)
      /\ bit = stream[pos + 1] /\ bit \in Bit /\ call.base \in Nat /\ call.items \in Nat
  BY BitRead DEF Search, Receiving
<1>2. /\ state = "SEARCH" /\ pos < call.base + call.items /\ pos' = pos + 1
      /\ header' = Append(Tail(header), bit)
      /\ stream' = stream /\ call' = call /\ rd' = rd /\ dirty' = dirty /\ errs' = errs
      /\ out' = out /\ taken' = taken /\ bad' = bad
  BY DEF Search, Receiving, NextBit
<1>3. PICK s \in 0..pos :
        /\ header = Window(s)
        /\ \A e \in 1..Len(stream) : e <= s + 11 \/ e <= pos => Found(e)
        /\ \A e \in tried : e <= s + 11
        /\ pos >= call.base \/ s >= call.base - RejectedBack
  BY <1>2 DEF DecoderInv, SearchInv
<1>4. /\ header' \in [1..16 -> Bit]
      /\ header' = Window(s)'
      /\ header' = FRAMESYNC => pos + 1 >= s + 12
      /\ SyncAt(pos + 1) /\ pos + 1 >= s + 12 => header' = FRAMESYNC
  <2>1. header \in [1..16 -> Bit]
    BY DEF TypeOK
  <2> QED
    BY <1>1, <1>2, <1>3, <2>1, WindowShifts
<1>5. FieldsInv' /\ CallInv' /\ ErrorsAreOwn'
  <2>1. head' \in {head, NoFrame} /\ state' \in {"SEARCH", "RX_CTRL"}
    BY <1>2 DEF Search
  <2>2. 0 < num_of_blocks(NoFrame)
    BY ZerosType, BlocksOfHead
  <2>3. /\ rd.ctrl = 0 /\ rd.fec = 0 /\ rd.cs = 0 /\ rd.data = 0 /\ rd.block = 0
        /\ rd.block < num_of_blocks(head)
        /\ \A b \in dirty : b < rd.block \/ (b = rd.block /\ rd.data > 0)
    BY <1>2 DEF DecoderInv, FieldsInv
  <2>4. rd.block < num_of_blocks(head')
    <3>1. CASE head' = head
      BY <2>3, <3>1
    <3>2. CASE head' = NoFrame
      BY <2>2, <2>3, <3>2
    <3> QED
      BY <2>1, <3>1, <3>2
  <2>5. FieldsInv'
    BY <1>2, <2>1, <2>3, <2>4 DEF FieldsInv
  <2>6. CallInv'
    BY <1>1, <1>2 DEF DecoderInv, CallInv
  <2> QED
    BY <2>1, <2>5, <2>6 DEF ErrorsAreOwn
<1>6. CASE header' = FRAMESYNC
  <2>1. state' = "RX_CTRL" /\ head' = NoFrame /\ tried' = tried \cup {pos + 1}
    BY <1>6 DEF Search
  <2>2. TypeOK'
    <3>1. pos' \in (-History)..Len(stream) /\ pos + 1 \in 1..Len(stream)
      BY <1>1, <1>2 DEF History
    <3>2. tried' \subseteq 1..Len(stream)
      BY <2>1, <3>1 DEF TypeOK
    <3> QED
      BY <1>2, <1>4, <2>1, <3>1, <3>2, ZerosType DEF TypeOK
  <2>3. \A d \in 1..(pos + 1) : Found(d)'
    <3> SUFFICES ASSUME NEW d \in 1..(pos + 1) PROVE Found(d)'
      OBVIOUS
    <3>1. CASE d = pos + 1
      BY <2>1, <3>1 DEF Found
    <3>2. CASE d <= pos
      BY <1>1, <1>2, <1>3, <2>1, <3>2, FoundKept
    <3> QED
      BY <1>1, <3>1, <3>2
  <2>4. \A d \in tried' : d <= pos + 1
    BY <1>1, <1>3, <1>4, <1>6, <2>1 DEF TypeOK
  <2>5. FrameInv'
    <3>1. rd.ctrl = 0
      BY <1>2 DEF DecoderInv, FieldsInv
    <3>2. call.base < pos + 1 + HeadBits
      BY <1>1, <1>3, <1>4, <1>6, SMTT(30) DEF RejectedBack, HeadBits
    <3>3. pos + 1 >= 12 /\ pos + 1 \in tried' /\ pos' = pos + 1 + rd.ctrl + 0
      BY <1>1, <1>2, <1>4, <1>6, <2>1, <3>1
    <3> QED
      BY <1>2, <2>1, <2>3, <2>4, <3>2, <3>3 DEF FrameInv
  <2> QED
    BY <1>5, <2>1, <2>2, <2>5 DEF DecoderInv, SearchInv
<1>7. CASE header' # FRAMESYNC
  <2>1. state' = state /\ head' = head /\ tried' = tried
    BY <1>7 DEF Search
  <2>2. TypeOK'
    <3>1. pos' \in (-History)..Len(stream)
      BY <1>1, <1>2 DEF History
    <3> QED
      BY <1>2, <1>4, <2>1, <3>1 DEF TypeOK
  <2>3. \A e \in 1..Len(stream) : e <= s + 11 \/ e <= pos + 1 => Found(e)'
    <3> SUFFICES ASSUME NEW e \in 1..Len(stream), e <= s + 11 \/ e <= pos + 1
                 PROVE  Found(e)'
      OBVIOUS
    <3>1. CASE e <= s + 11 \/ e <= pos
      BY <1>2, <1>3, <2>1, <3>1, FoundKept
    <3>2. CASE e = pos + 1 /\ e >= s + 12
      BY <1>2, <1>4, <1>7, <3>2 DEF Found, SyncAt
    <3> QED
      BY <1>1, <3>1, <3>2
  <2>4. SearchInv'
    <3>1. /\ s \in 0..pos'
          /\ \A e \in 1..Len(stream') : e <= s + 11 \/ e <= pos' => Found(e)'
          /\ \A e \in tried' : e <= s + 11
      BY <1>1, <1>2, <1>3, <2>1, <2>3
    <3>2. pos' >= call'.base \/ s >= call'.base - RejectedBack
      BY <1>1, <1>2, <1>3
    <3> QED
      BY <1>4, <3>1, <3>2 DEF SearchInv
  <2> QED
    BY <1>2, <1>5, <2>1, <2>2, <2>4 DEF DecoderInv, FrameInv
<1> QED
  BY <1>6, <1>7

\* What a frame being read rests on.
LEMMA FrameRead ==
  ASSUME TypeOK, DecoderInv, state # "SEARCH"
  PROVE  \E e \in tried :
           /\ e \in Nat /\ e >= 12
           /\ \A d \in tried : d <= e
           /\ \A d \in 1..e : Found(d)
           /\ state = "RX_CTRL" => pos = e + rd.ctrl /\ call.base < e + HeadBits
           /\ state = "RX_CFEC" => pos = e + 16 + rd.fec /\ call.base < e + HeadBits
           /\ state \notin {"RX_CTRL", "RX_CFEC"} => pos >= e /\ pos >= call.base
<1>1. PICK e \in tried :
        /\ \A d \in tried : d <= e
        /\ \A d \in 1..e : Found(d)
        /\ e >= 12
        /\ IF state \in {"RX_CTRL", "RX_CFEC"}
           THEN /\ pos = e + rd.ctrl + IF state = "RX_CFEC" THEN 16 + rd.fec ELSE 0
                /\ call.base < e + HeadBits
           ELSE pos >= e /\ pos >= call.base
  BY DEF DecoderInv, FrameInv
<1>2. e \in Nat
  <2>1. tried \subseteq 1..Len(stream)
    BY DEF TypeOK
  <2> QED
    BY <2>1
<1>3. rd.ctrl \in Nat /\ rd.fec \in Nat /\ (state # "RX_CTRL" => rd.ctrl = 0)
  BY SMTT(30) DEF TypeOK, DecoderInv, FieldsInv
<1>4. state = "RX_CTRL" => pos = e + rd.ctrl /\ call.base < e + HeadBits
  BY <1>1, <1>2, <1>3
<1>5. state = "RX_CFEC" => pos = e + 16 + rd.fec /\ call.base < e + HeadBits
  BY <1>1, <1>2, <1>3
<1>6. state \notin {"RX_CTRL", "RX_CFEC"} => pos >= e /\ pos >= call.base
  BY <1>1
<1> QED
  BY <1>1, <1>2, <1>4, <1>5, <1>6

LEMMA RxCtrlStep == ASSUME TypeOK, DecoderInv, RxCtrl PROVE TypeOK' /\ DecoderInv'
<1>1. /\ stream \in Seq(Bit) /\ Len(stream) \in Nat /\ pos \in 0..(Len(stream) - 1)
      /\ bit \in Bit /\ call.base \in Nat /\ call.items \in Nat
  BY BitRead DEF RxCtrl, Receiving
<1>2. /\ state = "RX_CTRL" /\ pos < call.base + call.items /\ pos' = pos + 1
      /\ head' = [head EXCEPT ![rd.ctrl + 1] = bit]
      /\ stream' = stream /\ call' = call /\ header' = header /\ dirty' = dirty /\ errs' = errs
      /\ out' = out /\ tried' = tried /\ taken' = taken /\ bad' = bad
      /\ rd' = [rd EXCEPT !.ctrl = (@ + 1) % 16]
      /\ state' = IF rd.ctrl + 1 = 16 THEN "RX_CFEC" ELSE state
  BY DEF RxCtrl, Receiving, NextBit, Count, Complete
<1>3. PICK e \in tried :
        /\ e \in Nat /\ e >= 12
        /\ \A d \in tried : d <= e
        /\ \A d \in 1..e : Found(d)
        /\ pos = e + rd.ctrl /\ call.base < e + HeadBits
  BY <1>2, FrameRead
<1>4. /\ rd \in [ctrl : 0..15, fec : 0..7, cs : 0..(CallsignBits - 1),
                 data : 0..(BlockBits - 1), block : Blocks]
      /\ rd.ctrl \in 0..15
      /\ rd.fec = 0 /\ rd.cs = 0 /\ rd.data = 0 /\ rd.block = 0
      /\ \A b \in dirty : b < rd.block \/ (b = rd.block /\ rd.data > 0)
  BY <1>2 DEF TypeOK, DecoderInv, FieldsInv
<1>5. (rd.ctrl + 1) % 16 \in 0..15 /\ (rd.ctrl + 1) % 16 = IF rd.ctrl + 1 = 16 THEN 0 ELSE rd.ctrl + 1
  BY <1>4
<1>6. /\ rd' \in [ctrl : 0..15, fec : 0..7, cs : 0..(CallsignBits - 1),
                  data : 0..(BlockBits - 1), block : Blocks]
      /\ rd'.ctrl = IF rd.ctrl + 1 = 16 THEN 0 ELSE rd.ctrl + 1
      /\ rd'.fec = 0 /\ rd'.cs = 0 /\ rd'.data = 0 /\ rd'.block = 0
  BY <1>2, <1>4, <1>5
<1>7. head' \in FrameHead
  <2>1. head \in FrameHead
    BY DEF TypeOK
  <2> QED
    BY <1>1, <1>2, <1>4, <2>1 DEF FrameHead
<1>8. TypeOK'
  <2>1. pos' \in (-History)..Len(stream)
    BY <1>1, <1>2 DEF History
  <2> QED
    BY <1>2, <1>6, <1>7, <2>1 DEF TypeOK
<1>9. FieldsInv'
  <2>1. 0 < num_of_blocks(head')
    BY <1>7, BlocksOfHead
  <2>2. \A b \in dirty' : b < rd'.block \/ (b = rd'.block /\ rd'.data > 0)
    BY <1>2, <1>4, <1>6
  <2>3. rd'.block < num_of_blocks(head')
    BY <1>6, <2>1
  <2> QED
    BY <1>2, <1>6, <2>2, <2>3 DEF FieldsInv
<1>10. FrameInv'
  <2>1. \A d \in 1..e : Found(d)'
    BY <1>2, <1>3, FoundKept
  <2>2. pos' = e + rd'.ctrl + IF state' = "RX_CFEC" THEN 16 + rd'.fec ELSE 0
    BY <1>2, <1>3, <1>4, <1>6
  <2>3. state' \in {"RX_CTRL", "RX_CFEC"}
    BY <1>2
  <2> QED
    BY <1>2, <1>3, <2>1, <2>2, <2>3 DEF FrameInv
<1>11. CallInv'
  BY <1>1, <1>2 DEF DecoderInv, CallInv
<1> QED
  BY <1>2, <1>8, <1>9, <1>10, <1>11 DEF DecoderInv, SearchInv, ErrorsAreOwn

LEMMA RxCfecStep == ASSUME TypeOK, DecoderInv, RxCfec PROVE TypeOK' /\ DecoderInv'
<1> DEFINE h == [head EXCEPT ![16 + rd.fec + 1] = bit]
           accepted == /\ control_ok(h)
                       /\ check_address(decode_control(h))
                       /\ message_type(decode_control(h)) \in {T_REG, T_ECHO}
<1>1. /\ stream \in Seq(Bit) /\ Len(stream) \in Nat /\ pos \in 0..(Len(stream) - 1)
      /\ bit \in Bit /\ call.base \in Nat /\ call.items \in Nat
  BY BitRead DEF RxCfec, Receiving
<1>2. /\ state = "RX_CFEC" /\ pos < call.base + call.items
      /\ stream' = stream /\ call' = call /\ errs' = errs
      /\ out' = out /\ tried' = tried /\ taken' = taken /\ bad' = bad
      /\ rd' = [rd EXCEPT !.fec = (@ + 1) % 8]
  BY DEF RxCfec, Receiving, Count
<1>3. \/ /\ rd.fec + 1 # 8 /\ head' = h /\ pos' = pos + 1
         /\ state' = state /\ header' = header /\ dirty' = dirty
      \/ /\ rd.fec + 1 = 8 /\ accepted /\ head' = decode_control(h) /\ pos' = pos + 1
         /\ state' = "RX_CS" /\ header' = header /\ dirty' = dirty
      \/ /\ rd.fec + 1 = 8 /\ head' = decode_control(h) /\ pos' = pos - RejectedBack + 1
         /\ header' = Zeros(16) /\ state' = "SEARCH" /\ dirty' = {}
  BY DEF RxCfec, NextBit, ReturnTo, Complete, reset_rx
<1>4. PICK e \in tried :
        /\ e \in Nat /\ e >= 12
        /\ \A d \in tried : d <= e
        /\ \A d \in 1..e : Found(d)
        /\ pos = e + 16 + rd.fec /\ call.base < e + HeadBits
  BY <1>2, FrameRead
<1>5. /\ rd \in [ctrl : 0..15, fec : 0..7, cs : 0..(CallsignBits - 1),
                 data : 0..(BlockBits - 1), block : Blocks]
      /\ rd.fec \in 0..7
      /\ rd.ctrl = 0 /\ rd.cs = 0 /\ rd.data = 0 /\ rd.block = 0
      /\ \A b \in dirty : b < rd.block \/ (b = rd.block /\ rd.data > 0)
  BY <1>2 DEF TypeOK, DecoderInv, FieldsInv
<1>6. (rd.fec + 1) % 8 \in 0..7 /\ (rd.fec + 1) % 8 = IF rd.fec + 1 = 8 THEN 0 ELSE rd.fec + 1
  BY <1>5
<1>7. /\ rd' \in [ctrl : 0..15, fec : 0..7, cs : 0..(CallsignBits - 1),
                  data : 0..(BlockBits - 1), block : Blocks]
      /\ rd'.fec = IF rd.fec + 1 = 8 THEN 0 ELSE rd.fec + 1
      /\ rd'.ctrl = 0 /\ rd'.cs = 0 /\ rd'.data = 0 /\ rd'.block = 0
  BY <1>2, <1>5, <1>6
<1>8. head' \in FrameHead
  <2>1. head \in FrameHead
    BY DEF TypeOK
  <2>2. h \in FrameHead
    BY <1>1, <1>5, <2>1 DEF FrameHead
  <2>3. decode_control(h) \in FrameHead
    BY <2>2, DecodeType
  <2> QED
    BY <1>3, <2>2, <2>3
<1> HIDE DEF h
<1>9. pos' \in (-History)..Len(stream)
  BY <1>1, <1>3, <1>4 DEF History, RejectedBack
<1>10. TypeOK'
  <2>1. header' \in [1..16 -> Bit] /\ dirty' \subseteq Blocks
        /\ state' \in {"SEARCH", "RX_CFEC", "RX_CS"}
    BY <1>2, <1>3, ZerosType DEF TypeOK
  <2> QED
    BY <1>2, <1>7, <1>8, <1>9, <2>1 DEF TypeOK
<1>11. FieldsInv'
  <2>1. 0 < num_of_blocks(head')
    BY <1>8, BlocksOfHead
  <2>2. rd'.block < num_of_blocks(head')
    BY <1>7, <2>1
  <2>3. \A b \in dirty' : b < rd'.block \/ (b = rd'.block /\ rd'.data > 0)
    BY <1>3, <1>5, <1>7
  <2>4. state' # "RX_CFEC" => rd'.fec = 0
    BY <1>2, <1>3, <1>7
  <2>5. state' \in {"RX_CS", "RX_DATA"} => message_type(head') \in {T_REG, T_ECHO}
    BY <1>2, <1>3
  <2> QED
    BY <1>7, <2>2, <2>3, <2>4, <2>5 DEF FieldsInv
<1>12. CallInv'
  BY <1>1, <1>2, <1>3 DEF DecoderInv, CallInv, RejectedBack
<1>13. \A d \in 1..e : Found(d)'
  BY <1>2, <1>4, FoundKept
<1>14. FrameInv'
  <2>1. CASE state' = "RX_CFEC"
    <3>1. pos' = e + rd'.ctrl + 16 + rd'.fec
      BY <1>2, <1>3, <1>4, <1>5, <1>7, <2>1
    <3>2. rd'.fec \in Nat
      BY <1>7
    <3>3. pos' = e + rd'.ctrl + IF state' = "RX_CFEC" THEN 16 + rd'.fec ELSE 0
      BY <1>4, <1>7, <2>1, <3>1, <3>2
    <3> QED
      BY <1>2, <1>4, <1>13, <2>1, <3>3 DEF FrameInv
  <2>2. CASE state' = "RX_CS"
    <3>1. pos' >= e /\ pos' >= call'.base
      BY <1>1, <1>2, <1>3, <1>4, <1>5, <2>2, SMTT(30) DEF HeadBits
    <3> QED
      BY <1>2, <1>4, <1>13, <2>2, <3>1 DEF FrameInv
  <2>3. CASE state' = "SEARCH"
    BY <2>3 DEF FrameInv
  <2> QED
    BY <1>2, <1>3, <2>1, <2>2, <2>3
<1>15. SearchInv'
  <2> SUFFICES ASSUME state' = "SEARCH" PROVE SearchInv'
    BY DEF SearchInv
  <2>1. rd.fec = 7 /\ pos' = e - 11 /\ header' = Zeros(16)
    BY <1>2, <1>3, <1>4, <1>5 DEF RejectedBack
  <2> DEFINE s == e - 11
  <2>2. s \in 0..pos' /\ s \in Int
    BY <1>4, <2>1
  <2>3. header' = Window(s)'
    BY <2>1, <2>2, WindowBegins
  <2>4. /\ \A d \in 1..Len(stream') : d <= s + 11 \/ d <= pos' => Found(d)'
        /\ \A d \in tried' : d <= s + 11
    <3>1. s + 11 = e /\ pos' <= e
      BY <1>4, <2>1
    <3>2. \A d \in 1..Len(stream') : d <= e => Found(d)'
      BY <1>1, <1>2, <1>4, <1>13
    <3>3. \A d \in 1..Len(stream') : d <= pos' => d <= e
      BY <1>1, <1>2, <1>4, <2>1
    <3> QED
      BY <1>2, <1>4, <3>1, <3>2, <3>3
  <2>5. s >= call'.base - RejectedBack
    BY <1>1, <1>2, <1>4 DEF HeadBits, RejectedBack
  <2> HIDE DEF s
  <2> QED
    BY <2>2, <2>3, <2>4, <2>5 DEF SearchInv
<1>16. ErrorsAreOwn'
  BY <1>2, <1>3 DEF ErrorsAreOwn
<1> QED
  BY <1>10, <1>11, <1>12, <1>14, <1>15, <1>16 DEF DecoderInv

\* A frame whose head was accepted is read on from bit to bit.
LEMMA FrameGoesOn ==
  ASSUME TypeOK, DecoderInv, state \in {"RX_CS", "RX_DATA"}, state' \in {"RX_CS", "RX_DATA"},
         pos \in Nat, call.base \in Nat, pos' = pos + 1, call' = call, stream' = stream,
         tried' = tried, taken' = taken
  PROVE  FrameInv'
<1>1. PICK e \in tried :
        /\ e \in Nat /\ e >= 12
        /\ \A d \in tried : d <= e
        /\ \A d \in 1..e : Found(d)
        /\ pos >= e /\ pos >= call.base
  BY FrameRead
<1>2. \A d \in 1..e : Found(d)'
  BY <1>1, FoundKept
<1>3. pos' >= e /\ pos' >= call'.base
  BY <1>1
<1> QED
  BY <1>1, <1>2, <1>3 DEF FrameInv

LEMMA RxCsStep == ASSUME TypeOK, DecoderInv, RxCs PROVE TypeOK' /\ DecoderInv'
<1>1. /\ stream \in Seq(Bit) /\ Len(stream) \in Nat /\ pos \in 0..(Len(stream) - 1)
      /\ call.base \in Nat /\ call.items \in Nat
  BY BitRead DEF RxCs, Receiving
<1>2. /\ state = "RX_CS" /\ pos < call.base + call.items /\ pos' = pos + 1
      /\ stream' = stream /\ call' = call /\ header' = header /\ head' = head /\ dirty' = dirty
      /\ tried' = tried /\ taken' = taken
      /\ rd' = [rd EXCEPT !.cs = (@ + 1) % CallsignBits]
  BY DEF RxCs, Receiving, NextBit, Count
<1>3. \/ /\ rd.cs + 1 = CallsignBits /\ state' = "RX_DATA" /\ errs' = {} /\ bad' = {}
         /\ out' = Append(out, [kind |-> "TRG"])
      \/ /\ rd.cs + 1 # CallsignBits /\ state' = state /\ errs' = errs /\ bad' = bad /\ out' = out
  BY DEF RxCs, Complete
<1>4. /\ rd \in [ctrl : 0..15, fec : 0..7, cs : 0..(CallsignBits - 1),
                 data : 0..(BlockBits - 1), block : Blocks]
      /\ rd.cs \in 0..(CallsignBits - 1)
      /\ rd.ctrl = 0 /\ rd.fec = 0 /\ rd.data = 0 /\ rd.block = 0
      /\ \A b \in dirty : b < rd.block \/ (b = rd.block /\ rd.data > 0)
      /\ message_type(head) \in {T_REG, T_ECHO} /\ rd.block < num_of_blocks(head)
  BY <1>2 DEF TypeOK, DecoderInv, FieldsInv
<1>5. /\ (rd.cs + 1) % CallsignBits \in 0..(CallsignBits - 1)
      /\ (rd.cs + 1) % CallsignBits = IF rd.cs + 1 = CallsignBits THEN 0 ELSE rd.cs + 1
  BY <1>4, SizesAssumption, Counted
<1>6. /\ rd' \in [ctrl : 0..15, fec : 0..7, cs : 0..(CallsignBits - 1),
                  data : 0..(BlockBits - 1), block : Blocks]
      /\ rd'.cs = IF rd.cs + 1 = CallsignBits THEN 0 ELSE rd.cs + 1
      /\ rd'.ctrl = 0 /\ rd'.fec = 0 /\ rd'.data = 0 /\ rd'.block = 0
  BY <1>2, <1>4, <1>5
<1>7. TypeOK'
  <2>1. pos' \in (-History)..Len(stream)
    BY <1>1, <1>2 DEF History
  <2>2. out' \in Seq(Outputs)
    <3>1. out \in Seq(Outputs) /\ [kind |-> "TRG"] \in Outputs
      BY DEF TypeOK, Outputs
    <3> QED
      BY <1>3, <3>1, AppendProperties
  <2>3. state' \in {"RX_CS", "RX_DATA"} /\ errs' \subseteq Blocks /\ bad' \subseteq Blocks
    BY <1>2, <1>3 DEF TypeOK
  <2> QED
    BY <1>2, <1>6, <2>1, <2>2, <2>3 DEF TypeOK
<1>8. FieldsInv'
  <2>1. \A b \in dirty' : b < rd'.block \/ (b = rd'.block /\ rd'.data > 0)
    BY <1>2, <1>4, <1>6
  <2>2. rd'.block < num_of_blocks(head')
    BY <1>2, <1>4, <1>6
  <2>3. state' # "RX_CS" => rd'.cs = 0
    BY <1>2, <1>3, <1>6
  <2> QED
    BY <1>2, <1>4, <1>6, <2>1, <2>2, <2>3 DEF FieldsInv
<1>9. state' \in {"RX_CS", "RX_DATA"} /\ pos \in Nat
  BY <1>1, <1>2, <1>3
<1>10. FrameInv'
  BY <1>1, <1>2, <1>9, FrameGoesOn
<1>11. CallInv'
  BY <1>1, <1>2 DEF DecoderInv, CallInv
<1>12. ErrorsAreOwn'
  BY <1>2, <1>3 DEF ErrorsAreOwn
<1> QED
  BY <1>7, <1>8, <1>9, <1>10, <1>11, <1>12 DEF DecoderInv, SearchInv

LEMMA RxDataStep == ASSUME TypeOK, DecoderInv, RxData PROVE TypeOK' /\ DecoderInv'
<1>1. /\ stream \in Seq(Bit) /\ Len(stream) \in Nat /\ pos \in 0..(Len(stream) - 1)
      /\ call.base \in Nat /\ call.items \in Nat
  BY BitRead DEF RxData, Receiving
<1>2. /\ state = "RX_DATA" /\ pos < call.base + call.items /\ pos' = pos + 1
      /\ stream' = stream /\ call' = call /\ head' = head /\ tried' = tried
  BY DEF RxData, Receiving, NextBit
<1>3. PICK ok \in BOOLEAN : ReadData(ok)
  BY DEF RxData
<1>4. /\ rd \in [ctrl : 0..15, fec : 0..7, cs : 0..(CallsignBits - 1),
                 data : 0..(BlockBits - 1), block : Blocks]
      /\ rd.data \in 0..(BlockBits - 1) /\ rd.block \in Blocks
      /\ rd.ctrl = 0 /\ rd.fec = 0 /\ rd.cs = 0
      /\ \A b \in dirty : b < rd.block \/ (b = rd.block /\ rd.data > 0)
      /\ message_type(head) \in {T_REG, T_ECHO} /\ rd.block < num_of_blocks(head)
      /\ errs \subseteq Blocks /\ errs = bad /\ dirty \subseteq Blocks
  BY <1>2 DEF TypeOK, DecoderInv, FieldsInv, ErrorsAreOwn
<1>5. BlockBits \in Nat \ {0}
  BY SizesAssumption
<1>6. num_of_blocks(head) \in 1..32
  BY BlocksOfHead DEF TypeOK
<1>7. /\ (rd.data + 1) % BlockBits \in 0..(BlockBits - 1)
      /\ (rd.data + 1) % BlockBits = IF rd.data + 1 = BlockBits THEN 0 ELSE rd.data + 1
  BY <1>4, <1>5, Counted
\* The counters and the error code, block complete or not.
<1>8. errs' \subseteq Blocks /\ errs' = bad'
  <2>1. CASE Complete("data", BlockBits)
    <3>1. \E marked : marked \in {{}, {rd.block}} /\ errs' = errs \cup marked /\ bad' = bad \cup marked
      BY <1>3, <2>1 DEF ReadData
    <3> QED
      BY <1>4, <3>1
  <2>2. CASE ~Complete("data", BlockBits)
    BY <1>3, <1>4, <2>2 DEF ReadData
  <2> QED
    BY <2>1, <2>2
<1>9. /\ rd' \in [ctrl : 0..15, fec : 0..7, cs : 0..(CallsignBits - 1),
                  data : 0..(BlockBits - 1), block : Blocks]
      /\ rd'.ctrl = 0 /\ rd'.fec = 0 /\ rd'.cs = 0
      /\ rd'.data = IF rd.data + 1 = BlockBits THEN 0 ELSE rd.data + 1
      /\ rd'.block = IF rd.data + 1 = BlockBits
                     THEN IF rd.block + 1 = num_of_blocks(head) THEN 0 ELSE rd.block + 1
                     ELSE rd.block
  <2>1. CASE rd.data + 1 = BlockBits
    <3>1. rd' = [rd EXCEPT !.data = 0,
                           !.block = IF @ + 1 = num_of_blocks(head) THEN 0 ELSE @ + 1]
      BY <1>3, <2>1 DEF ReadData, Complete
    <3>2. (IF rd.block + 1 = num_of_blocks(head) THEN 0 ELSE rd.block + 1) \in Blocks
      BY <1>4, <1>6 DEF Blocks
    <3>3. 0 \in 0..(BlockBits - 1)
      BY <1>5
    <3> QED
      BY <1>4, <2>1, <3>1, <3>2, <3>3
  <2>2. CASE rd.data + 1 # BlockBits
    <3>1. rd' = [rd EXCEPT !.data = (@ + 1) % BlockBits]
      BY <1>3, <2>2 DEF ReadData, Complete, Count
    <3> QED
      BY <1>4, <1>7, <2>2, <3>1
  <2> QED
    BY <2>1, <2>2
<1>10. pos' \in (-History)..Len(stream) /\ pos \in Nat
  BY <1>1, <1>2 DEF History
<1>11. CallInv'
  BY <1>1, <1>2 DEF DecoderInv, CallInv
<1>12. ErrorsAreOwn'
  BY <1>8 DEF ErrorsAreOwn
<1>13. CASE ~FrameComplete
  <2>1. /\ dirty' = dirty \cup {rd.block}
        /\ state' = state /\ header' = header /\ out' = out /\ taken' = taken
    BY <1>13 DEF RxData
  <2>2. TypeOK'
    <3>1. dirty' \subseteq Blocks /\ bad' \subseteq Blocks
      BY <1>4, <1>8, <2>1
    <3> QED
      BY <1>2, <1>8, <1>9, <1>10, <2>1, <3>1 DEF TypeOK
  <2>3. FieldsInv'
    <3>1. rd'.block < num_of_blocks(head')
      BY <1>2, <1>4, <1>6, <1>9, <1>13 DEF Blocks
    <3>2. rd.data + 1 = BlockBits => rd.block + 1 # num_of_blocks(head)
      BY <1>13 DEF FrameComplete, Complete
    <3>3. \A b \in dirty' : b < rd'.block \/ (b = rd'.block /\ rd'.data > 0)
      BY <1>4, <1>5, <1>9, <2>1, <3>2 DEF Blocks
    <3> QED
      BY <1>2, <1>4, <1>9, <2>1, <3>1, <3>3 DEF FieldsInv
  <2>4. FrameInv'
    BY <1>1, <1>2, <1>10, <2>1, FrameGoesOn
  <2> QED
    BY <1>2, <1>11, <1>12, <2>1, <2>2, <2>3, <2>4 DEF DecoderInv, SearchInv
<1>14. CASE FrameComplete
  <2>1. /\ out' = IF ack_bit(head) /\ errs' # {} THEN out ELSE Append(out, MessageOut(errs'))
        /\ taken' = taken \cup {<<FrameStart, pos + 1>>}
        /\ header' = Zeros(16) /\ state' = "SEARCH" /\ dirty' = {}
    BY <1>14 DEF RxData, reset_rx
  <2>2. PICK e \in tried :
          /\ e \in Nat /\ e >= 12
          /\ \A d \in tried : d <= e
          /\ \A d \in 1..e : Found(d)
          /\ pos >= e /\ pos >= call.base
    BY <1>2, FrameRead
  <2>3. tried \subseteq 1..Len(stream)
    BY DEF TypeOK
  <2>4. FrameStart = e
    <3>1. FrameStart \in tried /\ \A d \in tried : d <= FrameStart
      BY <2>2 DEF FrameStart
    <3> QED
      BY <1>1, <2>2, <2>3, <3>1
  <2>5. out' \in Seq(Outputs)
    <3>1. MessageOut(errs') \in Outputs
      BY <1>4, <1>6, <1>8 DEF MessageOut, Outputs
    <3>2. out \in Seq(Outputs)
      BY DEF TypeOK
    <3> QED
      BY <2>1, <3>1, <3>2, AppendProperties
  <2>6. TypeOK'
    <3>1. e \in 1..Len(stream) /\ pos + 1 \in 1..Len(stream)
      BY <1>1, <2>3
    <3>2. taken' \subseteq (1..Len(stream)) \X (1..Len(stream))
      <4>1. taken \subseteq (1..Len(stream)) \X (1..Len(stream))
        BY DEF TypeOK
      <4>2. <<e, pos + 1>> \in (1..Len(stream)) \X (1..Len(stream))
        BY <3>1
      <4> QED
        BY <2>1, <2>4, <4>1, <4>2, Zenon
    <3>3. bad' \subseteq Blocks
      BY <1>8
    <3> QED
      BY <1>2, <1>8, <1>9, <1>10, <2>1, <2>5, <3>2, <3>3, ZerosType DEF TypeOK
  <2>7. FieldsInv'
    <3>1. rd'.data = 0 /\ rd'.block = 0
      BY <1>9, <1>14 DEF FrameComplete, Complete
    <3> QED
      BY <1>2, <1>6, <1>9, <2>1, <3>1 DEF FieldsInv
  <2>8. SearchInv'
    <3>1. /\ \A d \in 1..Len(stream') : d <= pos' + 11 => Found(d)'
          /\ \A d \in tried' : d <= pos' + 11
      <4>1. ASSUME NEW d \in 1..Len(stream), d <= pos + 12 PROVE Found(d)'
        <5>1. CASE d <= e
          BY <1>2, <2>1, <2>2, <5>1, FoundKept
        <5>2. CASE d > e
          <6>1. <<e, pos + 1>> \in taken' /\ e < d /\ d - 15 <= pos + 1
            BY <1>1, <2>1, <2>2, <2>4, <4>1, <5>2
          <6> QED
            BY <6>1 DEF Found
        <5> QED
          BY <1>1, <2>2, <5>1, <5>2
      <4>2. \A d \in 1..Len(stream) : d <= pos + 12 => Found(d)'
        BY <4>1
      <4>3. pos' + 11 = pos + 12
        BY <1>1, <1>2
      <4>4. \A d \in tried : d <= pos + 12
        BY <1>1, <2>2, <2>3
      <4> QED
        BY <1>2, <4>2, <4>3, <4>4
    <3> PICK s \in Int : s = pos + 1
      BY <1>1
    <3>2. s \in 0..pos' /\ pos' = s
      BY <1>1, <1>2
    <3>3. header' = Window(s)'
      BY <2>1, <3>2, WindowBegins
    <3>4. pos' >= call'.base
      BY <1>1, <1>2, <2>2
    <3>5. \A d \in 1..Len(stream') : d <= s + 11 \/ d <= pos' => Found(d)'
      BY <1>1, <1>2, <3>1
    <3> QED
      BY <3>1, <3>2, <3>3, <3>4, <3>5 DEF SearchInv
  <2> QED
    BY <1>11, <1>12, <2>1, <2>6, <2>7, <2>8 DEF DecoderInv, FrameInv
<1> QED
  BY <1>13, <1>14

LEMMA WorkStep ==
  ASSUME TypeOK, DecoderInv, NEW n \in CallSizes(stream), Work(n)
  PROVE  TypeOK' /\ DecoderInv'
<1>1. stream \in Seq(Bit) /\ n \in Nat
  BY StreamsAssumption, SizesAssumption DEF TypeOK
<1>2. Len(stream) \in Nat
  BY <1>1, LenProperties
<1>3. /\ pos = call.base + call.items /\ pos + n <= Len(stream)
      /\ call' = [base |-> pos, items |-> n]
      /\ stream' = stream /\ pos' = pos /\ state' = state /\ header' = header /\ head' = head
      /\ rd' = rd /\ dirty' = dirty /\ errs' = errs /\ out' = out
      /\ tried' = tried /\ taken' = taken /\ bad' = bad
  BY DEF Work
<1>4. call.base \in Nat /\ call.items \in Nat
  BY <1>2 DEF TypeOK
<1>5. TypeOK'
  <2>1. call' \in [base : 0..Len(stream), items : Nat]
    BY <1>1, <1>2, <1>3, <1>4
  <2> QED
    BY <1>3, <2>1 DEF TypeOK
<1>6. \A d : Found(d) => Found(d)'
  BY <1>3, FoundKept
<1>7. SearchInv'
  <2> SUFFICES ASSUME state' = "SEARCH" PROVE SearchInv'
    BY DEF SearchInv
  <2>1. PICK s \in 0..pos :
          /\ header = Window(s)
          /\ \A e \in 1..Len(stream) : e <= s + 11 \/ e <= pos => Found(e)
          /\ \A e \in tried : e <= s + 11
    BY <1>3 DEF DecoderInv, SearchInv
  <2>2. header' = Window(s)'
    BY <1>3, <2>1 DEF Window
  <2>3. pos' >= call'.base
    BY <1>3, <1>4
  <2> QED
    BY <1>3, <1>6, <2>1, <2>2, <2>3 DEF SearchInv
<1>8. FrameInv'
  <2> SUFFICES ASSUME state' # "SEARCH" PROVE FrameInv'
    BY DEF FrameInv
  <2>1. PICK e \in tried :
           /\ e \in Nat /\ e >= 12
           /\ \A d \in tried : d <= e
           /\ \A d \in 1..e : Found(d)
           /\ state = "RX_CTRL" => pos = e + rd.ctrl
           /\ state = "RX_CFEC" => pos = e + 16 + rd.fec
           /\ state \notin {"RX_CTRL", "RX_CFEC"} => pos >= e
    BY <1>3, FrameRead
  <2>2. /\ rd.ctrl \in 0..15 /\ rd.fec \in 0..7
        /\ state = "RX_CFEC" => rd.ctrl = 0
    BY DEF TypeOK, DecoderInv, FieldsInv
  <2>3. state \in {"RX_CTRL", "RX_CFEC"} =>
           /\ pos = e + rd.ctrl + IF state = "RX_CFEC" THEN 16 + rd.fec ELSE 0
           /\ call'.base < e + HeadBits
    <3>1. CASE state = "RX_CTRL"
      BY <1>3, <2>1, <2>2, <3>1 DEF HeadBits
    <3>2. CASE state = "RX_CFEC"
      BY <1>3, <2>1, <2>2, <3>2, SMTT(30) DEF HeadBits
    <3> QED
      BY <3>1, <3>2
  <2>4. pos >= call'.base
    BY <1>3, <1>4
  <2>5. \A d \in 1..e : Found(d)'
    BY <1>6, <2>1
  <2> QED
    BY <1>3, <2>1, <2>3, <2>4, <2>5 DEF FrameInv
<1>9. FieldsInv' /\ ErrorsAreOwn'
  BY <1>3 DEF DecoderInv, FieldsInv, ErrorsAreOwn
<1>10. CallInv'
  BY <1>1, <1>2, <1>3, <1>4 DEF CallInv
<1> QED
  BY <1>5, <1>7, <1>8, <1>9, <1>10 DEF DecoderInv

LEMMA InitialState == Init => TypeOK /\ DecoderInv
<1> SUFFICES ASSUME Init PROVE TypeOK /\ DecoderInv
  OBVIOUS
<1>1. /\ stream \in Streams /\ pos = 0 /\ call = [base |-> 0, items |-> 0] /\ state = "SEARCH"
      /\ header = Zeros(16) /\ head = NoFrame
      /\ rd = [ctrl |-> 0, fec |-> 0, cs |-> 0, data |-> 0, block |-> 0]
      /\ dirty = {} /\ errs = {} /\ out = <<>> /\ tried = {} /\ taken = {} /\ bad = {}
  BY DEF Init
<1>2. stream \in Seq(Bit)
  BY <1>1, StreamsAssumption
<1>3. Len(stream) \in Nat
  BY <1>2, LenProperties
<1>4. CallsignBits \in Nat \ {0} /\ BlockBits \in Nat \ {0}
  BY SizesAssumption
<1>5. TypeOK
  <2>1. /\ pos \in (-History)..Len(stream)
        /\ call \in [base : 0..Len(stream), items : Nat]
        /\ out \in Seq(Outputs)
    BY <1>1, <1>3 DEF History
  <2>2. rd \in [ctrl : 0..15, fec : 0..7, cs : 0..(CallsignBits - 1),
                data : 0..(BlockBits - 1), block : Blocks]
    BY <1>1, <1>4 DEF Blocks
  <2> QED
    BY <1>1, <2>1, <2>2, ZerosType DEF TypeOK
<1>6. SearchInv
  <2>1. header = Window(0)
    BY <1>1 DEF Zeros, Window
  <2>2. \A e \in 1..Len(stream) : e <= 0 + 11 \/ e <= pos => Found(e)
    BY <1>1, <1>3 DEF Found, SyncAt
  <2>3. 0 \in 0..pos /\ pos >= call.base /\ \A e \in tried : e <= 0 + 11
    BY <1>1
  <2> QED
    BY <2>1, <2>2, <2>3 DEF SearchInv
<1>7. FieldsInv
  <2>1. 0 < num_of_blocks(head)
    BY <1>1, ZerosType, BlocksOfHead, SMTT(30)
  <2> QED
    BY <1>1, <2>1 DEF FieldsInv
<1> QED
  BY <1>1, <1>3, <1>5, <1>6, <1>7 DEF DecoderInv, FrameInv, CallInv, ErrorsAreOwn

LEMMA InvariantStep == TypeOK /\ DecoderInv /\ [Next]_vars => TypeOK' /\ DecoderInv'
<1> SUFFICES ASSUME TypeOK, DecoderInv, [Next]_vars PROVE TypeOK' /\ DecoderInv'
  OBVIOUS
<1>1. CASE \E n \in CallSizes(stream) : Work(n)
  BY <1>1, WorkStep
<1>2. CASE Step
  BY <1>2, SearchStep, RxCtrlStep, RxCfecStep, RxCsStep, RxDataStep DEF Step
<1>3. CASE UNCHANGED vars
  <2>1. /\ stream' = stream /\ pos' = pos /\ call' = call /\ state' = state
        /\ header' = header /\ head' = head
        /\ rd' = rd /\ dirty' = dirty /\ errs' = errs /\ out' = out
        /\ tried' = tried /\ taken' = taken /\ bad' = bad
    BY <1>3 DEF vars
  <2>2. TypeOK'
    BY <2>1 DEF TypeOK
  <2>3. \A e : Found(e) => Found(e)'
    BY <2>1, FoundKept
  <2>4. \A s : Window(s)' = Window(s)
    BY <2>1 DEF Window
  <2>5. SearchInv'
    BY <2>1, <2>3, <2>4 DEF DecoderInv, SearchInv
  <2>6. FrameInv'
    BY <2>1, <2>3 DEF DecoderInv, FrameInv
  <2> QED
    BY <2>1, <2>2, <2>5, <2>6 DEF DecoderInv, FieldsInv, CallInv, ErrorsAreOwn
<1> QED
  BY <1>1, <1>2, <1>3 DEF Next, Finished

LEMMA Invariant == Spec => [](TypeOK /\ DecoderInv)
  BY InitialState, InvariantStep, PTL DEF Spec

------------------------------------------------------------------------------
(* The theorems                                                             *)

\* Every counter, index and message of general_work stays in its range,
\* whatever the demodulator delivers.
THEOREM TypeCorrect == Spec => []TypeOK
  BY Invariant, PTL

\* No frame is overlooked: a search that general_work begins inside the bits
\* of a false marker finds every true one in them.
THEOREM FramesFound == Spec => []NoSyncMissed
<1>1. TypeOK /\ DecoderInv => NoSyncMissed
  <2> SUFFICES ASSUME TypeOK, DecoderInv, state = "SEARCH", NEW e \in 1..pos PROVE Found(e)
    BY DEF NoSyncMissed
  <2>1. stream \in Seq(Bit)
    BY StreamsAssumption DEF TypeOK
  <2>2. Len(stream) \in Nat
    BY <2>1, LenProperties
  <2>3. \A d \in 1..Len(stream) : d <= pos => Found(d)
    BY DEF DecoderInv, SearchInv
  <2>4. pos \in Int /\ pos <= Len(stream)
    BY <2>2 DEF TypeOK, History
  <2> QED
    BY <2>2, <2>3, <2>4
<1> QED
  BY <1>1, Invariant, PTL

\* The index the loop of general_work goes back to is never negative: the 104
\* bits of history are enough.
THEOREM IndexInHistory == Spec => []HistorySuffices
<1>1. TypeOK /\ DecoderInv => HistorySuffices
  <2> SUFFICES ASSUME TypeOK, DecoderInv PROVE pos - call.base + History >= 0
    BY DEF HistorySuffices
  <2>1. stream \in Seq(Bit)
    BY StreamsAssumption DEF TypeOK
  <2>2. Len(stream) \in Nat
    BY <2>1, LenProperties
  <2>3. pos \in Int /\ call.base \in Nat /\ rd.ctrl \in Nat /\ rd.fec \in Nat
    BY <2>2, SMTT(30) DEF TypeOK, History
  <2>4. CASE state = "SEARCH"
    <3>1. PICK s \in 0..pos : pos >= call.base \/ s >= call.base - RejectedBack
      BY <2>4 DEF DecoderInv, SearchInv
    <3> QED
      BY <2>3, <3>1 DEF RejectedBack, History
  <2>5. CASE state # "SEARCH"
    <3>1. PICK e \in Nat :
             /\ state = "RX_CTRL" => pos = e + rd.ctrl /\ call.base < e + HeadBits
             /\ state = "RX_CFEC" => pos = e + 16 + rd.fec /\ call.base < e + HeadBits
             /\ state \notin {"RX_CTRL", "RX_CFEC"} => pos >= call.base
      BY <2>5, FrameRead
    <3>2. CASE state = "RX_CTRL"
      BY <2>3, <3>1, <3>2 DEF HeadBits, History
    <3>3. CASE state = "RX_CFEC"
      BY <2>3, <3>1, <3>3 DEF HeadBits, History
    <3>4. CASE state \notin {"RX_CTRL", "RX_CFEC"}
      BY <2>3, <3>1, <3>4 DEF History
    <3> QED
      BY <3>2, <3>3, <3>4
  <2> QED
    BY <2>4, <2>5
<1> QED
  BY <1>1, Invariant, PTL

\* clear_blocks and the order of the blocks leave a cleared buffer for the
\* first bit of each block.
THEOREM BuffersClear == Spec => []BlockBufferClear
<1>1. TypeOK /\ DecoderInv => BlockBufferClear
  <2> SUFFICES ASSUME TypeOK, DecoderInv, rd.data = 0, rd.block \in dirty PROVE FALSE
    BY DEF BlockBufferClear
  <2>1. rd.block \in Blocks
    BY DEF TypeOK
  <2>2. rd.block < rd.block \/ rd.data > 0
    BY DEF DecoderInv, FieldsInv
  <2> QED
    BY <2>1, <2>2 DEF Blocks
<1> QED
  BY <1>1, Invariant, PTL

\* A message carries the errors of its own frame: clear_errors is called
\* before the first block of each frame.
THEOREM ErrorCodeOwn == Spec => []ErrorsAreOwn
<1>1. DecoderInv => ErrorsAreOwn
  BY DEF DecoderInv
<1> QED
  BY <1>1, Invariant, PTL

\* The search that follows a rejected head does not find its marker again, so
\* general_work makes progress through every stream.
THEOREM EachSyncOnce == Spec => SyncAdvances
<1>1. TypeOK /\ DecoderInv /\ [Next]_vars
        => [state = "SEARCH" /\ state' = "RX_CTRL" => \A e \in tried : pos' > e]_vars
  <2> SUFFICES ASSUME TypeOK, DecoderInv, Next, state = "SEARCH", state' = "RX_CTRL",
                      NEW d \in tried
               PROVE  pos' > d
    BY DEF vars
  <2>1. Search
    BY DEF Next, Step, Work, Finished, vars, RxCtrl, RxCfec, RxCs, RxData, Receiving
  <2>2. /\ stream \in Seq(Bit) /\ Len(stream) \in Nat /\ pos \in 0..(Len(stream) - 1)
        /\ bit = stream[pos + 1] /\ bit \in Bit
    BY <2>1, BitRead DEF Search, Receiving
  <2>3. /\ pos' = pos + 1 /\ header' = Append(Tail(header), bit) /\ stream' = stream
        /\ header' = FRAMESYNC
    BY <2>1 DEF Search, NextBit
  <2>4. PICK s \in 0..pos : header = Window(s) /\ \A e \in tried : e <= s + 11
    BY DEF DecoderInv, SearchInv
  <2>5. header \in [1..16 -> Bit]
    BY DEF TypeOK
  <2>6. pos + 1 >= s + 12
    BY <2>2, <2>3, <2>4, <2>5, WindowShifts
  <2> QED
    BY <2>2, <2>3, <2>4, <2>6 DEF TypeOK
<1> QED
  BY <1>1, Invariant, PTL DEF Spec, SyncAdvances

==============================================================================
