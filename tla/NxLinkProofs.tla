---------------------------- MODULE NxLinkProofs -----------------------------
(***************************************************************************)
(* The layout of frames, their heads, and the way of the data from the     *)
(* sender's message to the receiver's, for every message, every number of  *)
(* datablocks and both rates.                                              *)
(***************************************************************************)
EXTENDS NxLink, MobitexFecProofs, SequenceTheorems, WellFoundedInduction

------------------------------------------------------------------------------
(* Where the parts of a frame are                                           *)

\* The numbers of the layout, multiplied out.
LEMMA Sizes ==
  /\ SyncAtBit = 320 /\ HeaderAtBit = 368 /\ BaudSyncAtBit = 408
  /\ NUM_OF_SYNC_BYTES * 8 = 48 /\ NUM_OF_HANG_BYTES * 8 = 16
  BY DEF SyncAtBit, HeaderAtBit, BaudSyncAtBit, NUM_OF_PAD_BYTES,
     NUM_OF_SYNC_BYTES, NUM_OF_HANG_BYTES

\* The values that some part covers.
Used(parts) == {p \in Int : \E part \in parts : Covers(part, p)}

LEMMA UsedUnion ==
  ASSUME NEW A, NEW B, NEW p
  PROVE  p \in Used(A \cup B) <=> p \in Used(A) \/ p \in Used(B)
  BY DEF Used

LEMMA UsedUnionOf3 ==
  ASSUME NEW A, NEW B, NEW C, NEW p
  PROVE  p \in Used(A \cup (B \cup C)) <=> p \in Used(A) \/ p \in Used(B) \/ p \in Used(C)
  BY DEF Used

LEMMA UsedUnionOf4 ==
  ASSUME NEW A, NEW B, NEW C, NEW D, NEW p
  PROVE  p \in Used(A \cup (B \cup (C \cup D)))
           <=> p \in Used(A) \/ p \in Used(B) \/ p \in Used(C) \/ p \in Used(D)
  BY DEF Used

LEMMA UsedPart ==
  ASSUME NEW name, NEW at \in Int, NEW len \in Nat, NEW p \in Int
  PROVE  p \in Used({Part(name, at, len)}) <=> at <= p /\ p < at + len
  BY DEF Used, Covers, Part

\* The parts of a message leave no gap.
LEMMA UsedMessage ==
  ASSUME NEW n \in Nat, NEW at \in Nat, NEW p \in Int
  PROVE  p \in Used(Message(at, n)) <=> at <= p /\ p < at + 120 + 240 * n
<1> DEFINE data == n * 240
<1>1. Message(at, n) = {Part("header", at, 40)} \cup ({Part("callsign", at + 40, 64)}
                       \cup ({Part("data", at + 104, data)}
                       \cup {Part("hang", at + 104 + data, 16)}))
  BY Sizes DEF Message
<1>2. data \in Nat /\ data = 240 * n
  OBVIOUS
<1>3. p \in Used({Part("header", at, 40)}) <=> at <= p /\ p < at + 40
  BY UsedPart, at \in Int, 40 \in Nat
<1>4. p \in Used({Part("callsign", at + 40, 64)}) <=> at + 40 <= p /\ p < at + 40 + 64
  BY UsedPart, at + 40 \in Int, 64 \in Nat
<1> HIDE DEF data
<1>5. p \in Used({Part("data", at + 104, data)}) <=> at + 104 <= p /\ p < at + 104 + data
  BY <1>2, UsedPart, at + 104 \in Int
<1>6. p \in Used({Part("hang", at + 104 + data, 16)})
        <=> at + 104 + data <= p /\ p < at + 104 + data + 16
  BY <1>2, UsedPart, at + 104 + data \in Int, 16 \in Nat
<1>7. p \in Used(Message(at, n)) <=>
        \/ p \in Used({Part("header", at, 40)})
        \/ p \in Used({Part("callsign", at + 40, 64)})
        \/ p \in Used({Part("data", at + 104, data)})
        \/ p \in Used({Part("hang", at + 104 + data, 16)})
  BY <1>1, UsedUnionOf4
<1> QED
  BY <1>2, <1>3, <1>4, <1>5, <1>6, <1>7

\* A slow frame occupies one modulator from the pad to its end.
LEMMA UsedSlow ==
  ASSUME NEW n \in Nat, NEW p \in Int
  PROVE  p \in Used(SlowParts(n)) <=> 320 <= p /\ p < 488 + 240 * n
<1>1. SlowParts(n) = {Part("sync", 320, 48)} \cup Message(368, n)
  BY Sizes DEF SlowParts, SyncPart
<1>2. p \in Used({Part("sync", 320, 48)}) <=> 320 <= p /\ p < 368
  BY DEF Used, Covers, Part
<1>3. p \in Used(Message(368, n)) <=> 368 <= p /\ p < 488 + 240 * n
  BY UsedMessage, 368 \in Nat
<1> QED
  BY <1>1, <1>2, <1>3, UsedUnion

\* A fast frame begins on the slow modulator and changes over in its bit
\* synchronisation: value 424 of the one is value 848 of the other.
LEMMA UsedFast ==
  ASSUME NEW n \in Nat, NEW p \in Int
  PROVE  /\ p \in Used(FastParts_1) <=> 320 <= p /\ p < 424
         /\ p \in Used(FastParts_2(n)) <=> 848 <= p /\ p < 1000 + 240 * n
<1>1. FastParts_1 = {Part("sync", 320, 48)} \cup
                    ({Part("bc_header", 368, 40)} \cup {Part("baud_sync_1", 408, 16)})
  BY Sizes DEF FastParts_1, SyncPart
<1>2. /\ p \in Used({Part("sync", 320, 48)}) <=> 320 <= p /\ p < 368
      /\ p \in Used({Part("bc_header", 368, 40)}) <=> 368 <= p /\ p < 408
      /\ p \in Used({Part("baud_sync_1", 408, 16)}) <=> 408 <= p /\ p < 424
  BY DEF Used, Covers, Part
<1>3. p \in Used(FastParts_1) <=> \/ p \in Used({Part("sync", 320, 48)})
                                 \/ p \in Used({Part("bc_header", 368, 40)})
                                 \/ p \in Used({Part("baud_sync_1", 408, 16)})
  BY <1>1, UsedUnionOf3
<1>4. FastParts_2(n) = {Part("baud_sync_2", 848, 32)} \cup Message(880, n)
  BY Sizes DEF FastParts_2, BaudSync_2
<1>5. p \in Used({Part("baud_sync_2", 848, 32)}) <=> 848 <= p /\ p < 880
  BY DEF Used, Covers, Part
<1>6. p \in Used(Message(880, n)) <=> 880 <= p /\ p < 1000 + 240 * n
  BY UsedMessage, 880 \in Nat
<1>7. p \in Used(FastParts_2(n)) <=>
        p \in Used({Part("baud_sync_2", 848, 32)}) \/ p \in Used(Message(880, n))
  BY <1>4, UsedUnion
<1> QED
  BY <1>2, <1>3, <1>5, <1>6, <1>7

\* After the pad exactly one of the modulators sends, to the end of the frame.
LEMMA LayoutTakesTurns ==
  ASSUME NEW n \in Nat, NEW baud \in BOOLEAN,
         NEW p \in 0..(len_4k8(baud, n) - 1), NEW q \in {2 * p, 2 * p + 1}
  PROVE  q \in Used(Parts_2(baud, n)) <=> ~(p \in Used(Parts_1(baud, n)) \/ p < SyncAtBit)
<1> USE DEF NUM_OF_PAD_BYTES, NUM_OF_SYNC_BYTES, NUM_OF_BAUD_SYNC, NUM_OF_HANG_BYTES
<1>1. CASE baud
  <2>1. p \in Int /\ q \in Int /\ 0 <= p /\ p < 500 + 120 * n
    BY <1>1 DEF len_4k8
  <2>2. /\ p \in Used(FastParts_1) <=> 320 <= p /\ p < 424
        /\ q \in Used(FastParts_2(n)) <=> 848 <= q /\ q < 1000 + 240 * n
    BY <2>1, UsedFast
  <2> QED
    BY <1>1, <2>1, <2>2, Sizes DEF Parts_1, Parts_2
<1>2. CASE ~baud
  <2>1. p \in Int /\ q \in Int /\ 0 <= p /\ p < 488 + 240 * n
    BY <1>2 DEF len_4k8
  <2>2. p \in Used(SlowParts(n)) <=> 320 <= p /\ p < 488 + 240 * n
    BY <2>1, UsedSlow
  <2>3. q \notin Used({})
    BY DEF Used
  <2> QED
    BY <1>2, <2>1, <2>2, <2>3, Sizes DEF Parts_1, Parts_2
<1> QED
  BY <1>1, <1>2

\* The TNC waits for the answer to a frame as long as its transmission takes:
\* set_wait_msg and transmit_msg compute the length of a frame each for itself,
\* and agree for every number of datablocks.
THEOREM WaitsForTransmission ==
  ASSUME NEW n \in Nat, NEW baud \in BOOLEAN
  PROVE  tx_time(baud, n) = 2 * len_4k8(baud, n)
  BY DEF tx_time, len_4k8, NUM_OF_PAD_BYTES, NUM_OF_SYNC_BYTES, NUM_OF_BAUD_SYNC,
     NUM_OF_HANG_BYTES

\* Twenty bits in a row, wherever they are in the data and whatever the number
\* of blocks, belong to bytes at different places of their blocks: a burst of
\* that length leaves one wrong bit in a byte and its FEC at most.
THEOREM BurstsAreSpread ==
  ASSUME NEW m \in Nat, NEW n \in Nat, m < n, n < m + 20
  PROVE  ByteOf(m % 240) # ByteOf(n % 240)
  BY DEF ByteOf

------------------------------------------------------------------------------
(* What is published                                                        *)

\* A buffer holds a bit where a part was written, and zero elsewhere.
LEMMA BufferValues ==
  ASSUME NEW len \in Nat, NEW parts, NEW tx, NEW p \in 0..(len - 1)
  PROVE  /\ DOMAIN Buffer(len, parts, tx) = 0..(len - 1)
         /\ Buffer(len, parts, tx)[p] # 0 <=> p \in Used(parts)
<1> DEFINE at == {part \in parts : Covers(part, p)}
           bits == [part \in parts |-> BitsOfPart(part.name, tx)]
           part_ == CHOOSE part \in at : TRUE
           value == con(bits[part_][p - part_.at + 1])
<1>1. value # 0
  <2> HIDE DEF bits, part_
  <2> QED
    BY DEF con
<1>2. /\ DOMAIN Buffer(len, parts, tx) = 0..(len - 1)
      /\ Buffer(len, parts, tx)[p] = IF at = {} THEN 0 ELSE value
  BY DEF Buffer
<1>3. p \in Used(parts) <=> at # {}
  BY DEF Used
<1> HIDE DEF value, at
<1> QED
  BY <1>1, <1>2, <1>3

\* The buffers are those of the message until they are transmitted.
PublishedInv ==
  phase = "published" =>
    /\ msg \in Messages
    /\ single = Frame(Encoded(msg)).single
    /\ double = Frame(Encoded(msg)).double

LEMMA PublishedNext ==
  ASSUME PublishedInv, [Next]_vars
  PROVE  PublishedInv'
<1>1. ASSUME NEW m \in Messages, handle_msg(m)
      PROVE  PublishedInv'
  BY <1>1 DEF handle_msg, transmit_msg, PublishedInv
<1>2. CASE Transmit
  BY <1>2 DEF Transmit, PublishedInv
<1>3. ASSUME NEW left, ReadCallsign(left)
      PROVE  PublishedInv'
  BY <1>3 DEF ReadCallsign, PublishedInv
<1>4. ASSUME NEW left, ReadData(left)
      PROVE  PublishedInv'
  BY <1>4 DEF ReadData, PublishedInv
<1>5. CASE UNCHANGED vars
  BY <1>5 DEF vars, PublishedInv
<1> QED
  BY <1>1, <1>2, <1>3, <1>4, <1>5 DEF Next

LEMMA PublishedTakesTurns ==
  ASSUME PublishedInv
  PROVE  OneRateAtATime
<1> SUFFICES ASSUME phase = "published", NEW p \in DOMAIN single
             PROVE  LET fast == {q \in {2 * p, 2 * p + 1} : double[q] # 0}
                    IN  fast = IF single[p] # 0 \/ p < SyncAtBit THEN {}
                               ELSE {2 * p, 2 * p + 1}
  BY DEF OneRateAtATime
<1> DEFINE tx == Encoded(msg)
           len == len_4k8(tx.baud, tx.blocks)
<1>1. tx.blocks \in Nat /\ tx.baud \in BOOLEAN
  BY MessagesAssumption DEF PublishedInv, IsMessage, Encoded, baud_bit
<1>2. /\ single = Buffer(len, Parts_1(tx.baud, tx.blocks), tx)
      /\ double = Buffer(2 * len, Parts_2(tx.baud, tx.blocks), tx)
  BY DEF PublishedInv, Frame
<1>3. len \in Nat /\ 2 * len \in Nat
  BY <1>1 DEF len_4k8, NUM_OF_PAD_BYTES, NUM_OF_SYNC_BYTES, NUM_OF_BAUD_SYNC, NUM_OF_HANG_BYTES
<1> HIDE DEF tx, len
<1>4. p \in 0..(len - 1)
  BY <1>2, <1>3 DEF Buffer
<1>5. single[p] # 0 <=> p \in Used(Parts_1(tx.baud, tx.blocks))
  BY <1>2, <1>3, <1>4, BufferValues
<1>6. ASSUME NEW q \in {2 * p, 2 * p + 1}
      PROVE  /\ double[q] # 0 <=> q \in Used(Parts_2(tx.baud, tx.blocks))
             /\ q \in Used(Parts_2(tx.baud, tx.blocks)) <=>
                  ~(p \in Used(Parts_1(tx.baud, tx.blocks)) \/ p < SyncAtBit)
  <2>1. q \in 0..(2 * len - 1)
    BY <1>3, <1>4
  <2> QED
    BY <1>1, <1>2, <1>3, <1>4, <2>1, BufferValues, LayoutTakesTurns DEF len
<1> QED
  BY <1>5, <1>6

\* Whatever is transmitted, exactly one modulator sends at any time after the
\* pad: the encoder computes the places of the parts, the lengths of the two
\* buffers and the offset in write_baud_sync apart from each other.
THEOREM RatesTakeTurns == Spec => []OneRateAtATime
<1>1. Init => PublishedInv
  BY DEF Init, PublishedInv
<1> QED
  BY <1>1, PublishedNext, PublishedTakesTurns, PTL DEF Spec

------------------------------------------------------------------------------
(* The head of the message                                                  *)

\* Where one part alone was written, the buffer holds its bits.
LEMMA BufferBits ==
  ASSUME NEW len \in Nat, NEW parts, NEW tx, NEW p \in 0..(len - 1), NEW part \in parts,
         \A other \in parts : Covers(other, p) <=> other = part
  PROVE  Buffer(len, parts, tx)[p] = con(BitsOfPart(part.name, tx)[p - part.at + 1])
<1> DEFINE at == {q \in parts : Covers(q, p)}
           bits == [q \in parts |-> BitsOfPart(q.name, tx)]
           part_ == CHOOSE q \in at : TRUE
<1>1. Buffer(len, parts, tx)[p] = IF at = {} THEN 0 ELSE con(bits[part_][p - part_.at + 1])
  BY DEF Buffer
<1>2. at = {part}
  OBVIOUS
<1>3. part_ = part
  BY <1>2
<1>4. bits[part] = BitsOfPart(part.name, tx)
  OBVIOUS
<1> HIDE DEF at, bits, part_
<1> QED
  BY <1>1, <1>2, <1>3, <1>4

\* Nothing else is written where a part of the message is.
LEMMA PartAlone ==
  ASSUME NEW n \in Nat, NEW baud \in BOOLEAN, NEW part \in Message(MessageAt(baud), n),
         NEW p \in Int, Covers(part, p)
  PROVE  LET parts == IF baud THEN Parts_2(baud, n) ELSE Parts_1(baud, n)
         IN  /\ part \in parts
             /\ \A other \in parts : Covers(other, p) <=> other = part
<1> DEFINE parts == IF baud THEN Parts_2(baud, n) ELSE Parts_1(baud, n)
<1>1. PICK at, before, data : /\ at = MessageAt(baud)
                              /\ before = IF baud THEN BaudSync_2 ELSE SyncPart
                              /\ data = n * 240
  OBVIOUS
<1>2. at \in Nat /\ before.at \in Nat /\ before.len \in Nat /\ before.at + before.len = at
  BY <1>1, Sizes DEF MessageAt, BaudSync_2, SyncPart, Part
<1>3. PICK header, callsign_, data_, hang :
        /\ header = Part("header", at, 40) /\ callsign_ = Part("callsign", at + 40, 64)
        /\ data_ = Part("data", at + 104, data) /\ hang = Part("hang", at + 104 + data, 16)
  OBVIOUS
<1>4. Message(MessageAt(baud), n) = {header, callsign_, data_, hang}
  BY <1>1, <1>3, Sizes DEF Message
<1>5. parts = {before} \cup Message(MessageAt(baud), n)
  BY <1>1, Sizes DEF Parts_1, Parts_2, FastParts_2, SlowParts, MessageAt
<1>6. data \in Nat
  BY <1>1
<1>7. /\ Covers(before, p) => p < at
      /\ Covers(header, p) <=> at <= p /\ p < at + 40
      /\ Covers(callsign_, p) <=> at + 40 <= p /\ p < at + 104
      /\ Covers(data_, p) <=> at + 104 <= p /\ p < at + 104 + data
      /\ Covers(hang, p) <=> at + 104 + data <= p /\ p < at + 120 + data
  <2>1. Covers(before, p) => p < at
    BY <1>2 DEF Covers
  <2>2. Covers(header, p) <=> at <= p /\ p < at + 40
    BY <1>2, <1>3 DEF Covers, Part
  <2>3. Covers(callsign_, p) <=> at + 40 <= p /\ p < at + 104
    BY <1>2, <1>3 DEF Covers, Part
  <2>4. Covers(data_, p) <=> at + 104 <= p /\ p < at + 104 + data
    BY <1>2, <1>3, <1>6 DEF Covers, Part
  <2>5. Covers(hang, p) <=> at + 104 + data <= p /\ p < at + 120 + data
    BY <1>2, <1>3, <1>6 DEF Covers, Part
  <2> QED
    BY <2>1, <2>2, <2>3, <2>4, <2>5
<1>8. part \in {header, callsign_, data_, hang}
  BY <1>4
<1> HIDE DEF parts
<1>9. ASSUME NEW other \in parts
      PROVE  Covers(other, p) <=> other = part
  <2>1. other \in {before, header, callsign_, data_, hang}
    BY <1>4, <1>5
  <2>2. CASE part = header
    BY <1>2, <1>6, <1>7, <2>1, <2>2
  <2>3. CASE part = callsign_
    BY <1>2, <1>6, <1>7, <2>1, <2>3
  <2>4. CASE part = data_
    BY <1>2, <1>6, <1>7, <2>1, <2>4
  <2>5. CASE part = hang
    BY <1>2, <1>6, <1>7, <2>1, <2>5
  <2> QED
    BY <1>8, <2>2, <2>3, <2>4, <2>5
<1>10. part \in parts
  BY <1>5
<1> QED
  BY <1>9, <1>10 DEF parts

\* The modulator of the message's rate sends the bits of its parts.
LEMMA CarrierBits ==
  ASSUME PublishedInv, phase = "published",
         NEW part \in Message(MessageAt(baud_bit(head)), blocks), NEW p \in Nat, Covers(part, p)
  PROVE  Carrier[p] = con(BitsOfPart(part.name, Encoded(msg))[p - part.at + 1])
<1> DEFINE tx == Encoded(msg)
           len == len_4k8(tx.baud, tx.blocks)
           carrier == IF tx.baud THEN 2 * len ELSE len
           parts == IF tx.baud THEN Parts_2(tx.baud, tx.blocks) ELSE Parts_1(tx.baud, tx.blocks)
           at == MessageAt(tx.baud)
<1>1. IsMessage(msg)
  BY MessagesAssumption DEF PublishedInv
<1>2. tx.baud = baud_bit(head) /\ tx.blocks = blocks /\ tx.baud \in BOOLEAN
  BY DEF Encoded, head, blocks, baud_bit
<1>3. blocks \in Nat
  BY <1>1, MessagesAssumption DEF IsMessage, head, blocks
<1>4. Carrier = Buffer(carrier, parts, tx)
  BY <1>2 DEF PublishedInv, Frame, Carrier
<1>5. carrier \in Nat /\ at \in Nat /\ at + 120 + blocks * 240 <= carrier
  BY <1>2, <1>3, Sizes DEF len_4k8, MessageAt, NUM_OF_PAD_BYTES, NUM_OF_SYNC_BYTES,
     NUM_OF_BAUD_SYNC, NUM_OF_HANG_BYTES
<1>6. p < at + 120 + blocks * 240
  <2>1. p \in Used(Message(at, blocks))
    BY <1>2 DEF Used
  <2> HIDE DEF at
  <2>2. p < at + 120 + 240 * blocks
    BY <1>3, <1>5, <2>1, UsedMessage
  <2> QED
    BY <1>3, <2>2
<1>7. /\ part \in parts
      /\ \A other \in parts : Covers(other, p) <=> other = part
  BY <1>2, <1>3, PartAlone
<1> HIDE DEF tx, carrier, parts, at
<1>8. p \in 0..(carrier - 1)
  BY <1>3, <1>5, <1>6
<1> QED
  BY <1>4, <1>5, <1>7, <1>8, BufferBits DEF tx

\* What follows a sequence is found behind it.
LEMMA Appended ==
  ASSUME NEW s \in Seq(Bit), NEW t \in Seq(Bit)
  PROVE  /\ s \o t \in Seq(Bit)
         /\ Len(s \o t) = Len(s) + Len(t)
         /\ \A i \in 1..Len(s) : (s \o t)[i] = s[i]
         /\ \A i \in 1..Len(t) : (s \o t)[Len(s) + i] = t[i]
  OBVIOUS

\* The control bytes with their FEC are a frame head.
LEMMA HeadSequence ==
  ASSUME NEW control \in [0..1 -> Byte]
  PROVE  LET h == control_bits(encode_control(control))
         IN  /\ h \in Seq(Bit) /\ Len(h) = 24
             /\ \A k \in {0, 1} : \A i \in 1..8 :
                  h[8 * k + i] = IF 8 - i \in control[k] THEN 1 ELSE 0
             /\ \A k \in {0, 1} : \A i \in 1..4 :
                  h[16 + 4 * k + i] = IF 4 - i \in calc_fec(control[k]) THEN 1 ELSE 0
<1> DEFINE a == ByteBits(control[0])
           b == ByteBits(control[1])
           c == NibbleBits(calc_fec(control[0]))
           d == NibbleBits(calc_fec(control[1]))
<1>1. /\ \A i \in 1..8 : a[i] = IF 8 - i \in control[0] THEN 1 ELSE 0
      /\ \A i \in 1..8 : b[i] = IF 8 - i \in control[1] THEN 1 ELSE 0
      /\ \A i \in 1..4 : c[i] = IF 4 - i \in calc_fec(control[0]) THEN 1 ELSE 0
      /\ \A i \in 1..4 : d[i] = IF 4 - i \in calc_fec(control[1]) THEN 1 ELSE 0
  BY DEF ByteBits, NibbleBits
<1>2. /\ a \in Seq(Bit) /\ Len(a) = 8 /\ b \in Seq(Bit) /\ Len(b) = 8
      /\ c \in Seq(Bit) /\ Len(c) = 4 /\ d \in Seq(Bit) /\ Len(d) = 4
  BY DEF ByteBits, NibbleBits, Bit
<1>3. control_bits(encode_control(control)) = a \o b \o c \o d
  BY DEF encode_control, control_bits
<1> HIDE DEF a, b, c, d
<1>4. PICK ab : ab = a \o b
  OBVIOUS
<1>5. /\ ab \in Seq(Bit) /\ Len(ab) = 16
      /\ \A i \in 1..8 : ab[i] = a[i]
      /\ \A i \in 1..8 : ab[8 + i] = b[i]
  <2>1. a \in Seq(Bit) /\ b \in Seq(Bit) /\ Len(a) = 8 /\ Len(b) = 8
    BY <1>2
  <2>2. ab \in Seq(Bit)
    BY <1>4, <2>1, Appended
  <2>3. Len(ab) = Len(a) + Len(b)
    BY <1>4, <2>1, Appended
  <2>4. \A i \in 1..Len(a) : ab[i] = a[i]
    BY <1>4, <2>1, Appended
  <2>5. \A i \in 1..Len(b) : ab[Len(a) + i] = b[i]
    BY <1>4, <2>1, Appended
  <2> QED
    BY <2>1, <2>2, <2>3, <2>4, <2>5
<1>6. PICK abc : abc = ab \o c
  OBVIOUS
<1>7. /\ abc \in Seq(Bit) /\ Len(abc) = 20
      /\ \A i \in 1..16 : abc[i] = ab[i]
      /\ \A i \in 1..4 : abc[16 + i] = c[i]
  <2>1. ab \in Seq(Bit) /\ c \in Seq(Bit) /\ Len(ab) = 16 /\ Len(c) = 4
    BY <1>2, <1>5
  <2>2. abc \in Seq(Bit)
    BY <1>6, <2>1, Appended
  <2>3. Len(abc) = Len(ab) + Len(c)
    BY <1>6, <2>1, Appended
  <2>4. \A i \in 1..Len(ab) : abc[i] = ab[i]
    BY <1>6, <2>1, Appended
  <2>5. \A i \in 1..Len(c) : abc[Len(ab) + i] = c[i]
    BY <1>6, <2>1, Appended
  <2> QED
    BY <2>1, <2>2, <2>3, <2>4, <2>5
<1>8. PICK h : h = abc \o d
  OBVIOUS
<1>9. /\ h \in Seq(Bit) /\ Len(h) = 24
      /\ \A i \in 1..20 : h[i] = abc[i]
      /\ \A i \in 1..4 : h[20 + i] = d[i]
  <2>1. abc \in Seq(Bit) /\ d \in Seq(Bit) /\ Len(abc) = 20 /\ Len(d) = 4
    BY <1>2, <1>7
  <2>2. h \in Seq(Bit)
    BY <1>8, <2>1, Appended
  <2>3. Len(h) = Len(abc) + Len(d)
    BY <1>8, <2>1, Appended
  <2>4. \A i \in 1..Len(abc) : h[i] = abc[i]
    BY <1>8, <2>1, Appended
  <2>5. \A i \in 1..Len(d) : h[Len(abc) + i] = d[i]
    BY <1>8, <2>1, Appended
  <2> QED
    BY <2>1, <2>2, <2>3, <2>4, <2>5
<1>10. h = control_bits(encode_control(control)) /\ h \in Seq(Bit) /\ Len(h) = 24
  <2>1. Len(h) = 24 /\ h \in Seq(Bit)
    BY <1>9
  <2> QED
    BY <1>3, <1>4, <1>6, <1>8, <2>1
<1>11. ASSUME NEW i \in 1..8 PROVE h[8 * 0 + i] = a[i] /\ h[8 * 1 + i] = b[i]
  <2>1. /\ i \in 1..20 /\ 8 + i \in 1..20 /\ i \in 1..16 /\ 8 + i \in 1..16
        /\ 8 * 0 + i = i /\ 8 * 1 + i = 8 + i
    OBVIOUS
  <2>2. h[i] = abc[i] /\ h[8 + i] = abc[8 + i]
    BY <1>9, <2>1, Zenon
  <2>3. abc[i] = ab[i] /\ abc[8 + i] = ab[8 + i]
    BY <1>7, <2>1, Zenon
  <2> QED
    BY <1>5, <2>1, <2>2, <2>3, Zenon
<1>12. ASSUME NEW i \in 1..4 PROVE h[16 + 4 * 0 + i] = c[i] /\ h[16 + 4 * 1 + i] = d[i]
  <2>1. 16 + i \in 1..20 /\ 16 + 4 * 0 + i = 16 + i /\ 16 + 4 * 1 + i = 20 + i
    OBVIOUS
  <2> QED
    BY <1>7, <1>9, <2>1, ZenonT(30)
<1>13. \A k \in {0, 1} : k = 0 \/ k = 1
  OBVIOUS
<1>14. /\ \A k \in {0, 1} : \A i \in 1..8 :
            h[8 * k + i] = IF 8 - i \in control[k] THEN 1 ELSE 0
       /\ \A k \in {0, 1} : \A i \in 1..4 :
            h[16 + 4 * k + i] = IF 4 - i \in calc_fec(control[k]) THEN 1 ELSE 0
  <2>1. \A i \in 1..8 : /\ h[8 * 0 + i] = IF 8 - i \in control[0] THEN 1 ELSE 0
                       /\ h[8 * 1 + i] = IF 8 - i \in control[1] THEN 1 ELSE 0
    BY <1>1, <1>11
  <2>2. \A i \in 1..4 :
          /\ h[16 + 4 * 0 + i] = IF 4 - i \in calc_fec(control[0]) THEN 1 ELSE 0
          /\ h[16 + 4 * 1 + i] = IF 4 - i \in calc_fec(control[1]) THEN 1 ELSE 0
    BY <1>1, <1>12, Zenon
  <2> QED
    BY <1>13, <2>1, <2>2
<1> QED
  BY <1>10, <1>14, Zenon

\* Of a byte with its own FEC no row fails, and nothing is corrected.
LEMMA OwnFec ==
  ASSUME NEW b \in Byte, NEW w, w = WordOf(b, calc_fec(b))
  PROVE  Correctable(w) /\ decalc_fec(w) = {}
<1>1. w \in Word /\ ShiftRight(w, 4) = b
  BY WordParts, CalcBits
<1>2. FailingRows(w) = {}
  BY <1>1, NoRowFails
<1>3. Correction(w) = {}
  BY <1>2 DEF Correction
<1>4. Xor(w, {}) = w /\ ShiftRight({}, 4) = {}
  BY DEF Xor, SymDiff, ShiftRight
<1> QED
  BY <1>2, <1>3, <1>4 DEF Correctable, decalc_fec

LEMMA HeadWord ==
  ASSUME NEW control \in [0..1 -> Byte], NEW k \in {0, 1}
  PROVE  ControlWord(control_bits(encode_control(control)), k)
           = WordOf(control[k], calc_fec(control[k]))
<1> DEFINE h == control_bits(encode_control(control))
<1> DEFINE b == control[k]
           f == calc_fec(b)
<1>1. b \in Byte
  OBVIOUS
<1>2. f \in Nibble
  BY CalcBits
<1>3. \A i \in 0..3 : h[20 + 4 * k - i] = 1 <=> i \in f
  <2> SUFFICES ASSUME NEW i \in 0..3 PROVE h[20 + 4 * k - i] = 1 <=> i \in f
    OBVIOUS
  <2>1. 4 - i \in 1..4 /\ 16 + 4 * k + (4 - i) = 20 + 4 * k - i /\ 4 - (4 - i) = i
    OBVIOUS
  <2>2. h[16 + 4 * k + (4 - i)] = IF 4 - (4 - i) \in f THEN 1 ELSE 0
    BY <2>1, HeadSequence
  <2> QED
    BY <2>1, <2>2
<1>4. \A i \in 4..11 : h[12 + 8 * k - i] = 1 <=> i - 4 \in b
  <2> SUFFICES ASSUME NEW i \in 4..11 PROVE h[12 + 8 * k - i] = 1 <=> i - 4 \in b
    OBVIOUS
  <2>1. 12 - i \in 1..8 /\ 8 * k + (12 - i) = 12 + 8 * k - i /\ 8 - (12 - i) = i - 4
    OBVIOUS
  <2>2. h[8 * k + (12 - i)] = IF 8 - (12 - i) \in b THEN 1 ELSE 0
    BY <2>1, HeadSequence
  <2> QED
    BY <2>1, <2>2
<1> HIDE DEF h, f, b
<1>5. {i \in 4..11 : i - 4 \in b} = {j + 4 : j \in b}
  BY <1>1 DEF Byte
<1>6. ControlWord(h, k) = WordOf(b, f)
  BY <1>2, <1>3, <1>4, <1>5 DEF ControlWord, WordOf, ShiftLeft, Nibble
<1> QED
  BY <1>6 DEF h, b, f

\* The receiver's check finds no error in it, and changes nothing.
LEMMA HeadIsOk ==
  ASSUME NEW control \in [0..1 -> Byte]
  PROVE  LET h == control_bits(encode_control(control))
         IN  control_ok(h) /\ decode_control(h) = h
<1> DEFINE h == control_bits(encode_control(control))
<1>1. \A k \in {0, 1} : Correctable(ControlWord(h, k)) /\ decalc_fec(ControlWord(h, k)) = {}
  BY HeadWord, OwnFec
<1>2. h = [j \in 1..24 |-> h[j]]
  <2>1. h \in Seq(Bit) /\ Len(h) = 24
    BY HeadSequence
  <2> QED
    BY <2>1
<1> HIDE DEF h
<1>3. control_ok(h)
  BY <1>1 DEF control_ok
<1>4. decode_control(h) = h
  <2> DEFINE corrected == {k \in {0, 1} : \A j \in 0..k : Correctable(ControlWord(h, j))}
             flips(k) == {12 + 8 * k - (i + 4) : i \in decalc_fec(ControlWord(h, k))}
  <2>1. \A k \in corrected : flips(k) = {}
    BY <1>1
  <2>2. decode_control(h) =
          [j \in 1..HeadBits |-> IF j \in UNION {flips(k) : k \in corrected} THEN 1 - h[j] ELSE h[j]]
    BY DEF decode_control
  <2> HIDE DEF corrected, flips
  <2>3. UNION {flips(k) : k \in corrected} = {}
    BY <2>1
  <2> QED
    BY <1>2, <2>2, <2>3 DEF HeadBits
<1> QED
  BY <1>3, <1>4 DEF h

\* Between encoder and modulator, the head of the message is intact.
LEMMA PublishedHead ==
  ASSUME PublishedInv
  PROVE  HeadAnnouncesMessage
<1> SUFFICES ASSUME phase = "published" PROVE HeadAnnouncesMessage
  BY DEF HeadAnnouncesMessage
<1> DEFINE tx == Encoded(msg)
           at == MessageAt(tx.baud)
           cur == encode_control(msg.control)
           sent == write_header(cur)
           heard == [n \in 1..40 |-> IF Carrier[at + n - 1] = 1 THEN 1 ELSE 0]
<1>1. IsMessage(msg)
  BY MessagesAssumption DEF PublishedInv
<1>2. /\ tx.baud = baud_bit(head) /\ tx.blocks = blocks /\ tx.cur = cur
      /\ tx.baud \in BOOLEAN
  BY DEF Encoded, head, blocks, baud_bit
<1>3. blocks \in Nat /\ msg.control \in [0..1 -> Byte] /\ DOMAIN msg.data = 0..(blocks - 1)
  BY <1>1, MessagesAssumption DEF IsMessage, head, blocks
<1>5. at \in Nat
  BY <1>2, Sizes DEF MessageAt
<1>6. BitsOfPart("header", tx) = sent
  <2>1. AfterBcHeader(cur) = cur
    BY <1>3 DEF AfterBcHeader, BaudchangeHead, encode_control
  <2> HIDE DEF tx, cur
  <2> QED
    BY <1>2, <2>1 DEF BitsOfPart
<1>7. /\ sent \in Seq(Bit) /\ Len(sent) = 40
      /\ SubSeq(sent, 1, 16) = FRAMESYNC /\ SubSeq(sent, 17, 40) = head
  <2>1. head \in Seq(Bit) /\ Len(head) = 24
    BY <1>3, HeadSequence DEF head
  <2>2. FRAMESYNC \in Seq(Bit) /\ Len(FRAMESYNC) = 16
    BY DEF FRAMESYNC, Bit
  <2>3. sent = FRAMESYNC \o head
    BY DEF write_header, head
  <2> HIDE DEF sent
  <2>4. /\ sent \in Seq(Bit) /\ Len(sent) = 40
        /\ \A i \in 1..16 : sent[i] = FRAMESYNC[i]
        /\ \A i \in 1..24 : sent[16 + i] = head[i]
    <3>1. head \in Seq(Bit) /\ FRAMESYNC \in Seq(Bit) /\ Len(head) = 24 /\ Len(FRAMESYNC) = 16
      BY <2>1, <2>2
    <3>2. sent \in Seq(Bit)
      BY <2>3, <3>1, Appended
    <3>3. Len(sent) = Len(FRAMESYNC) + Len(head)
      BY <2>3, <3>1, Appended
    <3>4. \A i \in 1..Len(FRAMESYNC) : sent[i] = FRAMESYNC[i]
      BY <2>3, <3>1, Appended
    <3>5. \A i \in 1..Len(head) : sent[Len(FRAMESYNC) + i] = head[i]
      BY <2>3, <3>1, Appended
    <3> QED
      BY <3>1, <3>2, <3>3, <3>4, <3>5
  <2>5. SubSeq(sent, 1, 16) = FRAMESYNC
    BY <2>2, <2>4
  <2>6. SubSeq(sent, 17, 40) = head
    BY <2>1, <2>4
  <2> QED
    BY <2>4, <2>5, <2>6
<1>8. ASSUME NEW n \in 1..40 PROVE heard[n] = sent[n]
  <2>1. PICK part, p : part = Part("header", at, 40) /\ p = at + n - 1
    OBVIOUS
  <2>2. part.name = "header" /\ part.at = at /\ part.len = 40 /\ part \in Message(at, blocks)
    BY <2>1 DEF Part, Message
  <2>3. p \in Nat /\ Covers(part, p) /\ p - at + 1 = n
    BY <1>5, <2>1, <2>2 DEF Covers
  <2> HIDE DEF sent
  <2>4. Carrier[p] = con(sent[n])
    <3>1. Carrier[p] = con(BitsOfPart(part.name, Encoded(msg))[p - part.at + 1])
      BY <1>2, <2>2, <2>3, CarrierBits
    <3> QED
      BY <1>6, <2>2, <2>3, <3>1
  <2>5. sent[n] \in Bit
    BY <1>7, ElementOfSeq
  <2> QED
    BY <2>1, <2>4, <2>5 DEF con, Bit
<1>9. heard = sent
  <2> HIDE DEF sent
  <2>1. sent = [n \in 1..40 |-> sent[n]]
    BY <1>7
  <2> QED
    BY <1>8, <2>1
<1>10. Cardinality(DOMAIN msg.data) = blocks
  <2>1. blocks - 1 \in Int /\ 0 \in Int
    BY <1>3
  <2>2. Cardinality(0..(blocks - 1)) = IF 0 > blocks - 1 THEN 0 ELSE (blocks - 1) - 0 + 1
    BY <2>1, FS_Interval
  <2> QED
    BY <1>3, <2>2
<1>11. control_ok(head) /\ decode_control(head) = head
  BY <1>3, HeadIsOk DEF head
<1>12. num_of_blocks(head) = blocks
  BY DEF blocks
<1> HIDE DEF heard, sent, tx, at
<1>13. SubSeq(heard, 1, 16) = FRAMESYNC /\ SubSeq(heard, 17, 40) = head
  BY <1>7, <1>9
<1> QED
  BY <1>2, <1>10, <1>11, <1>12, <1>13 DEF HeadAnnouncesMessage, heard, at

\* Whatever the message, its head can be read where the receiver of its rate
\* finds it: write_bc_header, which put another control byte in the buffer,
\* has put the first one back.
THEOREM HeadIsOwn == Spec => []HeadAnnouncesMessage
<1>1. Init => PublishedInv
  BY DEF Init, PublishedInv
<1> QED
  BY <1>1, PublishedNext, PublishedHead, PTL DEF Spec

------------------------------------------------------------------------------
(* The scrambler: the encoder's register at each bit                        *)

\* A set of numbers that is not empty has a least one.
LEMMA LeastNumber ==
  ASSUME NEW T \in SUBSET Nat, T # {}
  PROVE  \E m \in T : \A k \in T : m <= k
<1> DEFINE R == {ss \in Nat \X Nat : ss[1] < ss[2]}
<1>1. IsWellFoundedOn(R, Nat)
  BY NatLessThanWellFounded DEF OpToRel
<1> HIDE DEF R
<1>2. PICK x \in T : \A y \in T : ~ (<<y, x>> \in R)
  BY <1>1, WFMin, Zenon
<1>3. \A y \in T : ~(y < x)
  BY <1>2 DEF R
<1> QED
  BY <1>3

\* Induction, stated of a set of numbers: with it the recursive functions of the
\* scrambler can be proved about.
LEMMA SetInduction ==
  ASSUME NEW T, 0 \in T, \A n \in Nat : n \in T => n + 1 \in T
  PROVE  Nat \subseteq T
<1> SUFFICES ASSUME Nat \ T # {} PROVE FALSE
  OBVIOUS
<1>1. PICK m \in Nat \ T : \A k \in Nat \ T : m <= k
  BY LeastNumber
<1>2. m # 0 /\ m - 1 \in Nat
  BY <1>1
<1>3. m - 1 \in T
  BY <1>1, <1>2
<1>4. m - 1 + 1 \in T
  BY <1>2, <1>3
<1> QED
  BY <1>1, <1>4

\* The register keeps its nine bits.
LEMMA NextType ==
  ASSUME NEW x \in ScrambleRegister
  PROVE  NextRegister(x) \in ScrambleRegister
<1> DEFINE a == IF (0 \in x) # (4 \in x) THEN x \cup {9} ELSE x
<1>1. a \subseteq 0..9
  BY DEF ScrambleRegister
<1>2. NextRegister(x) = ShiftRight(a, 1)
  BY DEF NextRegister
<1> HIDE DEF a
<1> QED
  BY <1>1, <1>2 DEF ShiftRight, ScrambleRegister

\* The register n bits on, first with n as large as one likes.
Steps(g, N) ==
  \A n \in 0..N :
    g[n] = [x \in ScrambleRegister |-> IF n = 0 THEN x ELSE g[n - 1][NextRegister(x)]]

\* There is such a function for any number of bits.
LEMMA StepsExist == \A N \in Nat : \E g : Steps(g, N)
<1> DEFINE T == {N \in Nat : \E g : Steps(g, N)}
<1>1. 0 \in T
  <2> DEFINE g == [n \in {0} |-> [x \in ScrambleRegister |-> x]]
  <2>1. Steps(g, 0)
    BY DEF Steps
  <2> QED
    BY <2>1
<1>2. ASSUME NEW N \in Nat, N \in T PROVE N + 1 \in T
  <2>1. PICK g : Steps(g, N)
    BY <1>2
  <2> DEFINE next(n) == [x \in ScrambleRegister |->
                           IF n = 0 THEN x ELSE g[n - 1][NextRegister(x)]]
             h == [n \in 0..(N + 1) |-> next(n)]
  <2>2. ASSUME NEW n \in 0..N PROVE next(n) = g[n]
    BY <2>1 DEF Steps
  <2>3. ASSUME NEW n \in 0..(N + 1)
        PROVE  h[n] = [x \in ScrambleRegister |->
                         IF n = 0 THEN x ELSE h[n - 1][NextRegister(x)]]
    <3>1. h[n] = next(n)
      OBVIOUS
    <3>2. n # 0 => h[n - 1] = next(n - 1) /\ n - 1 \in 0..N
      OBVIOUS
    <3>3. n # 0 => h[n - 1] = g[n - 1]
      <4> HIDE DEF h, next
      <4> QED
        BY <2>2, <3>2
    <3> HIDE DEF h
    <3> QED
      BY <3>1, <3>3
  <2>4. Steps(h, N + 1)
    <3> HIDE DEF h
    <3> QED
      BY <2>3 DEF Steps
  <2> QED
    BY <2>4
<1> HIDE DEF T
<1>3. Nat \subseteq T
  BY <1>1, <1>2, SetInduction
<1> QED
  BY <1>3 DEF T

\* So Advance, which is defined by this recursion, satisfies it.
LEMMA AdvanceSteps == Steps(Advance, 20)
<1>1. PICK g : Steps(g, 20)
  BY StepsExist
<1> DEFINE f == [n \in 0..20 |-> g[n]]
<1>2. f = [n \in 0..20 |-> [x \in ScrambleRegister |->
                              IF n = 0 THEN x ELSE f[n - 1][NextRegister(x)]]]
  <2>1. ASSUME NEW n \in 0..20
        PROVE  g[n] = [x \in ScrambleRegister |->
                         IF n = 0 THEN x ELSE f[n - 1][NextRegister(x)]]
    <3>1. n # 0 => f[n - 1] = g[n - 1]
      OBVIOUS
    <3> HIDE DEF f
    <3> QED
      BY <1>1, <3>1 DEF Steps
  <2> QED
    BY <2>1
<1> HIDE DEF f
<1>3. Advance = [n \in 0..20 |-> [x \in ScrambleRegister |->
                   IF n = 0 THEN x ELSE Advance[n - 1][NextRegister(x)]]]
  BY <1>2 DEF Advance
<1> QED
  BY <1>3 DEF Steps

\* One bit further on is one clock of the register later.
LEMMA AdvanceFacts ==
  ASSUME NEW i \in 0..19, NEW first \in ScrambleRegister
  PROVE  /\ Advance[0][first] = first
         /\ Advance[i][first] \in ScrambleRegister
         /\ Advance[i + 1][first] = NextRegister(Advance[i][first])
<1> DEFINE Good(k) == \A r \in ScrambleRegister :
                        /\ Advance[k][r] \in ScrambleRegister
                        /\ Advance[k + 1][r] = NextRegister(Advance[k][r])
           T == {k \in Nat : k \in 0..19 => Good(k)}
<1>1. ASSUME NEW k \in 0..19, NEW r \in ScrambleRegister
      PROVE  /\ Advance[0][r] = r
             /\ Advance[k + 1][r] = Advance[k][NextRegister(r)]
  <2>1. k + 1 \in 0..20 /\ 0 \in 0..20 /\ k + 1 # 0 /\ k + 1 - 1 = k
    OBVIOUS
  <2>2. \A n \in 0..20 : Advance[n] = [x \in ScrambleRegister |->
                           IF n = 0 THEN x ELSE Advance[n - 1][NextRegister(x)]]
    BY AdvanceSteps DEF Steps
  <2>3. \A n \in 0..20 : Advance[n][r] = IF n = 0 THEN r ELSE Advance[n - 1][NextRegister(r)]
    BY <2>2
  <2> QED
    BY <2>1, <2>3
<1>2. 0 \in T
  <2> SUFFICES ASSUME NEW r \in ScrambleRegister
               PROVE  Advance[0][r] \in ScrambleRegister /\ Advance[0 + 1][r] = NextRegister(Advance[0][r])
    OBVIOUS
  <2>1. 0 \in 0..19
    OBVIOUS
  <2>2. Advance[0 + 1][r] = Advance[0][NextRegister(r)] /\ Advance[0][r] = r
    BY <1>1, <2>1
  <2>3. NextRegister(r) \in ScrambleRegister
    BY NextType
  <2>4. Advance[0][NextRegister(r)] = NextRegister(r)
    BY <1>1, <2>1, <2>3
  <2> QED
    BY <2>2, <2>4
<1>3. ASSUME NEW k \in Nat, k \in T PROVE k + 1 \in T
  <2> SUFFICES ASSUME k + 1 \in 0..19, NEW r \in ScrambleRegister
               PROVE  /\ Advance[k + 1][r] \in ScrambleRegister
                      /\ Advance[k + 1 + 1][r] = NextRegister(Advance[k + 1][r])
    OBVIOUS
  <2>1. k \in 0..19 /\ Good(k)
    BY <1>3
  <2>2. NextRegister(r) \in ScrambleRegister
    BY NextType
  <2>3. Advance[k + 1][r] = Advance[k][NextRegister(r)]
    BY <1>1, <2>1
  <2>4. Advance[k + 1 + 1][r] = Advance[k + 1][NextRegister(r)]
    BY <1>1
  <2>5. /\ Advance[k][NextRegister(r)] \in ScrambleRegister
        /\ Advance[k + 1][NextRegister(r)] = NextRegister(Advance[k][NextRegister(r)])
    BY <2>1, <2>2
  <2> QED
    BY <2>3, <2>4, <2>5
<1> HIDE DEF T
<1>4. i \in T
  BY <1>2, <1>3, SetInduction
<1>5. Good(i)
  BY <1>4 DEF T
<1>6. Advance[0][first] = first
  BY <1>1
<1> QED
  BY <1>5, <1>6

\* The registers the rows begin with.
Rows(g, N) == \A r \in 0..N : g[r] = IF r = 0 THEN reset_scrambler ELSE Advance[20][g[r - 1]]

\* There is such a function for any number of rows.
LEMMA RowsExist == \A N \in Nat : \E g : Rows(g, N)
<1> DEFINE T == {N \in Nat : \E g : Rows(g, N)}
<1>1. 0 \in T
  <2> DEFINE g == [n \in {0} |-> reset_scrambler]
  <2>1. Rows(g, 0)
    BY DEF Rows
  <2> QED
    BY <2>1
<1>2. ASSUME NEW N \in Nat, N \in T PROVE N + 1 \in T
  <2>1. PICK g : Rows(g, N)
    BY <1>2
  <2> DEFINE next(n) == IF n = 0 THEN reset_scrambler ELSE Advance[20][g[n - 1]]
             h == [n \in 0..(N + 1) |-> next(n)]
  <2>2. ASSUME NEW n \in 0..N PROVE next(n) = g[n]
    BY <2>1 DEF Rows
  <2>3. ASSUME NEW n \in 0..(N + 1)
        PROVE  h[n] = IF n = 0 THEN reset_scrambler ELSE Advance[20][h[n - 1]]
    <3>1. h[n] = next(n)
      OBVIOUS
    <3>2. n # 0 => h[n - 1] = next(n - 1) /\ n - 1 \in 0..N
      OBVIOUS
    <3>3. n # 0 => h[n - 1] = g[n - 1]
      <4> HIDE DEF h, next
      <4> QED
        BY <2>2, <3>2
    <3> HIDE DEF h
    <3> QED
      BY <3>1, <3>3
  <2>4. Rows(h, N + 1)
    <3> HIDE DEF h
    <3> QED
      BY <2>3 DEF Rows
  <2> QED
    BY <2>4
<1> HIDE DEF T
<1>3. Nat \subseteq T
  BY <1>1, <1>2, SetInduction
<1> QED
  BY <1>3 DEF T

\* So RowRegister satisfies the recursion that defines it.
LEMMA RowRegisterSteps ==
  \A r \in 0..384 : RowRegister[r] = IF r = 0 THEN reset_scrambler
                                     ELSE Advance[20][RowRegister[r - 1]]
<1> DEFINE last == 32 * 12
<1>0. last = 384 /\ last \in Nat
  OBVIOUS
<1> HIDE DEF last
<1>1. PICK g : Rows(g, last)
  BY <1>0, RowsExist
<1> DEFINE f == [r \in 0..last |-> g[r]]
<1>2. f = [r \in 0..last |-> IF r = 0 THEN reset_scrambler ELSE Advance[20][f[r - 1]]]
  <2>1. ASSUME NEW r \in 0..last
        PROVE  g[r] = IF r = 0 THEN reset_scrambler ELSE Advance[20][f[r - 1]]
    <3>1. r # 0 => f[r - 1] = g[r - 1]
      BY <1>0
    <3> HIDE DEF f
    <3> QED
      BY <1>1, <3>1 DEF Rows
  <2> QED
    BY <2>1
<1> HIDE DEF f
<1>3. RowRegister = [r \in 0..last |-> IF r = 0 THEN reset_scrambler
                                       ELSE Advance[20][RowRegister[r - 1]]]
  BY <1>2 DEF RowRegister, last
<1>4. \A r \in 0..last : RowRegister[r] = IF r = 0 THEN reset_scrambler
                                          ELSE Advance[20][RowRegister[r - 1]]
  BY <1>3
<1> QED
  BY <1>0, <1>4

\* A row begins where the one before it ended.
LEMMA NextRow ==
  ASSUME NEW r \in 0..383
  PROVE  RowRegister[r + 1] = Advance[20][RowRegister[r]]
<1>1. PICK next : next = r + 1
  OBVIOUS
<1>2. next \in 0..384 /\ next # 0 /\ next - 1 = r
  BY <1>1
<1>3. RowRegister[next] = Advance[20][RowRegister[next - 1]]
  BY <1>2, RowRegisterSteps
<1> QED
  BY <1>1, <1>2, <1>3

\* The scrambler of the encoder before bit n of the data, counted from 0.
RegisterAt(n) == Advance[n % 20][RowRegister[n \div 20]]

\* Every row begins with a register of nine bits.
LEMMA RowRegisterType == \A r \in 0..384 : RowRegister[r] \in ScrambleRegister
<1> DEFINE T == {r \in Nat : r \in 0..384 => RowRegister[r] \in ScrambleRegister}
<1>1. 0 \in T
  BY RowRegisterSteps DEF reset_scrambler, ScrambleRegister
<1>2. ASSUME NEW r \in Nat, r \in T PROVE r + 1 \in T
  <2> SUFFICES ASSUME r + 1 \in 0..384 PROVE RowRegister[r + 1] \in ScrambleRegister
    OBVIOUS
  <2>1. RowRegister[r] \in ScrambleRegister
    BY <1>2
  <2>2. RowRegister[r + 1] = Advance[19 + 1][RowRegister[r]]
    <3>1. r \in 0..383 /\ 19 + 1 = 20
      OBVIOUS
    <3> QED
      BY <3>1, NextRow
  <2>3. 19 \in 0..19
    OBVIOUS
  <2> QED
    BY <2>1, <2>2, <2>3, AdvanceFacts, NextType
<1> HIDE DEF T
<1>3. Nat \subseteq T
  BY <1>1, <1>2, SetInduction
<1> QED
  BY <1>3 DEF T

\* Where bit col of row row is.
LEMMA RowAndColumn ==
  ASSUME NEW row \in Nat, NEW col \in 0..19
  PROVE  (20 * row + col) % 20 = col /\ (20 * row + col) \div 20 = row
  OBVIOUS

\* The register at a bit of a row is that many clocks after the first of the row.
LEMMA RegisterIn ==
  ASSUME NEW row \in Nat, NEW col \in 0..19, NEW n, n = 20 * row + col
  PROVE  RegisterAt(n) = Advance[col][RowRegister[row]]
<1>1. n % 20 = col /\ n \div 20 = row
  BY RowAndColumn
<1> QED
  BY <1>1, Zenon DEF RegisterAt

\* The first bit of the data is scrambled with the register just reset.
LEMMA RegisterFirst == RegisterAt(0) = reset_scrambler
<1>1. 0 \in 0..384 /\ 0 \in 0..19 /\ 0 = 20 * 0 + 0 /\ 0 \in Nat
  OBVIOUS
<1>2. RegisterAt(0) = Advance[0][RowRegister[0]]
  BY <1>1, RegisterIn, Zenon
<1>3. RowRegister[0] = reset_scrambler
  BY <1>1, RowRegisterSteps
<1>4. Advance[0][RowRegister[0]] = RowRegister[0]
  BY <1>1, RowRegisterType, AdvanceFacts
<1> QED
  BY <1>2, <1>3, <1>4

\* From each bit to the next, over the end of a row too, the register is clocked
\* once: what the encoder looks up by row is what the receiver counts through.
LEMMA RegisterStep ==
  ASSUME NEW row \in 0..383, NEW col \in 0..19
  PROVE  RegisterAt(20 * row + col + 1) = NextRegister(RegisterAt(20 * row + col))
<1> PICK n : n = 20 * row + col
  OBVIOUS
<1>1. row \in Nat /\ row \in 0..384 /\ row + 1 \in 0..384 /\ row + 1 \in Nat
  OBVIOUS
<1>2. RowRegister[row] \in ScrambleRegister /\ RowRegister[row + 1] \in ScrambleRegister
  BY <1>1, RowRegisterType
<1>3. Advance[col + 1][RowRegister[row]] = NextRegister(Advance[col][RowRegister[row]])
  BY <1>2, AdvanceFacts
<1>4. RegisterAt(n) = Advance[col][RowRegister[row]]
  BY <1>1, RegisterIn
<1>5. CASE col < 19
  <2>1. n + 1 = 20 * row + (col + 1) /\ col + 1 \in 0..19
    BY <1>1, <1>5
  <2>2. RegisterAt(n + 1) = Advance[col + 1][RowRegister[row]]
    BY <1>1, <2>1, RegisterIn, Zenon
  <2> QED
    BY <1>3, <1>4, <2>2, Zenon
<1>6. CASE col = 19
  <2>1. n + 1 = 20 * (row + 1) + 0 /\ 0 \in 0..19 /\ col + 1 = 20
    BY <1>1, <1>6
  <2>2. RegisterAt(n + 1) = Advance[0][RowRegister[row + 1]]
    BY <1>1, <2>1, RegisterIn, Zenon
  <2>3. Advance[0][RowRegister[row + 1]] = RowRegister[row + 1]
    BY <1>2, <2>1, AdvanceFacts
  <2>4. RowRegister[row + 1] = Advance[20][RowRegister[row]]
    BY NextRow
  <2> QED
    BY <1>3, <1>4, <2>1, <2>2, <2>3, <2>4, Zenon
<1>7. RegisterAt(n + 1) = NextRegister(RegisterAt(n))
  BY <1>5, <1>6
<1> QED
  BY <1>7, Zenon

\* The same, counted by datablocks.
LEMMA RegisterNext ==
  \A k \in 0..31, d \in 0..239 :
    RegisterAt(240 * k + d + 1) = NextRegister(RegisterAt(240 * k + d))
<1> TAKE k \in 0..31, d \in 0..239
<1>1. PICK row, col : row = 12 * k + (d \div 20) /\ col = d % 20
  OBVIOUS
<1>2. row \in 0..383 /\ col \in 0..19 /\ 240 * k + d = 20 * row + col
  BY <1>1
<1>3. \A r \in 0..383, c \in 0..19 :
        RegisterAt(20 * r + c + 1) = NextRegister(RegisterAt(20 * r + c))
  BY RegisterStep
<1>4. RegisterAt(20 * row + col + 1) = NextRegister(RegisterAt(20 * row + col))
  BY <1>2, <1>3
<1> QED
  BY <1>2, <1>4

------------------------------------------------------------------------------
(* Blocks, bit by bit                                                       *)

\* A bit that was scrambled is the same again when descrambled, and a wrong one
\* is wrong.
LEMMA ScrambleTwice ==
  ASSUME NEW bit \in Bit, NEW register
  PROVE  /\ scramble(scramble(bit, register), register) = bit
         /\ scramble(1 - scramble(bit, register), register) = 1 - bit
         /\ scramble(bit, register) \in Bit
  BY DEF scramble, Bit

\* Bit n of a block, in the order of the air, is set.
HasBit(block, n) ==
  IF RowOf(n) < 8 THEN 7 - RowOf(n) \in block.data[ByteOf(n)]
  ELSE 11 - RowOf(n) \in block.fec[ByteOf(n)]

\* Each bit of a block has a row and a byte.
LEMMA Places ==
  ASSUME NEW n \in 0..239
  PROVE  RowOf(n) \in 0..11 /\ ByteOf(n) \in 0..19 /\ n = 20 * RowOf(n) + ByteOf(n)
  BY DEF RowOf, ByteOf

\* read_data puts a bit in its place, and changes no other.
LEMMA DeinterleavedBits ==
  ASSUME NEW block \in Datablock, NEW d \in 0..239, NEW bit \in Bit
  PROVE  /\ Deinterleaved(block, d, bit) \in Datablock
         /\ \A n \in 0..239 :
              HasBit(Deinterleaved(block, d, bit), n) <=> HasBit(block, n) \/ (n = d /\ bit = 1)
<1> PICK r : r = RowOf(d)
  OBVIOUS
<1> PICK j : j = ByteOf(d)
  OBVIOUS
<1>0. r \in 0..11 /\ j \in 0..19 /\ d = 20 * r + j
  BY Places
<1> PICK place : place = IF r < 8 THEN 7 - r ELSE 11 - r
  OBVIOUS
<1> PICK one : one = IF bit = 1 THEN {place} ELSE {}
  OBVIOUS
<1> PICK new : new = Deinterleaved(block, d, bit)
  OBVIOUS
<1>1. /\ r < 8 => new = [block EXCEPT !.data[j] = @ \cup one]
      /\ ~(r < 8) => new = [block EXCEPT !.fec[j] = @ \cup one]
  BY DEF Deinterleaved
<1>2. one \subseteq {place}
  OBVIOUS
<1>3. ASSUME r < 8 PROVE place = 7 - r /\ one \subseteq 0..7
  <2>1. place = 7 - r
    BY <1>3
  <2>2. place \in 0..7
    BY <1>0, <1>3, <2>1
  <2> QED
    BY <1>2, <2>1, <2>2
<1>7. ASSUME ~(r < 8) PROVE place = 11 - r /\ one \subseteq 0..3
  <2>1. place = 11 - r
    BY <1>7
  <2>2. place \in 0..3
    BY <1>0, <1>7, <2>1
  <2> QED
    BY <1>2, <2>1, <2>2
<1>4. block.data \in [0..19 -> Byte] /\ block.fec \in [0..19 -> Nibble]
  BY DEF Datablock
<1>5. CASE r < 8
  <2>1. new = [block EXCEPT !.data = [block.data EXCEPT ![j] = @ \cup one]]
    BY <1>1, <1>5
  <2>2. block.data[j] \cup one \in Byte
    BY <1>0, <1>3, <1>4, <1>5 DEF Byte
  <2>3. [block.data EXCEPT ![j] = @ \cup one] \in [0..19 -> Byte]
    BY <1>4, <2>2
  <2>4. new \in Datablock
    BY <2>1, <2>3 DEF Datablock
  <2>5. new.fec = block.fec /\ \A i \in 0..19 : new.data[i] = IF i = j THEN block.data[j] \cup one ELSE block.data[i]
    BY <1>4, <2>1 DEF Datablock
  <2>6. ASSUME NEW n \in 0..239
        PROVE  HasBit(new, n) <=> HasBit(block, n) \/ (n = d /\ bit = 1)
    <3>0. PICK q, i : q = RowOf(n) /\ i = ByteOf(n)
      OBVIOUS
    <3>1. q \in 0..11 /\ i \in 0..19 /\ n = 20 * q + i /\ q = RowOf(n) /\ i = ByteOf(n)
      BY <3>0, Places
    <3>2. n = d <=> q = r /\ i = j
      BY <1>0, <3>1
    <3>3. q < 8 => (7 - q \in one <=> q = r /\ bit = 1)
      BY <1>0, <1>2, <1>3, <1>5, <3>1
    <3>4. CASE q < 8
      <4>1. HasBit(new, n) <=> 7 - q \in new.data[i]
        BY <3>1, <3>4 DEF HasBit
      <4>2. HasBit(block, n) <=> 7 - q \in block.data[i]
        BY <3>1, <3>4 DEF HasBit
      <4>3. 7 - q \in new.data[i] <=> 7 - q \in block.data[i] \/ (i = j /\ 7 - q \in one)
        BY <2>5, <3>1
      <4>4. 7 - q \in one <=> q = r /\ bit = 1
        BY <3>3, <3>4
      <4> QED
        BY <3>2, <4>1, <4>2, <4>3, <4>4, Zenon
    <3>5. CASE ~(q < 8)
      <4>1. HasBit(new, n) <=> HasBit(block, n)
        BY <2>5, <3>1, <3>5 DEF HasBit
      <4> QED
        BY <1>5, <3>2, <3>5, <4>1
    <3> QED
      BY <3>4, <3>5
  <2> QED
    BY <2>4, <2>6
<1>6. CASE ~(r < 8)
  <2>1. new = [block EXCEPT !.fec = [block.fec EXCEPT ![j] = @ \cup one]]
    BY <1>1, <1>6
  <2>2. block.fec[j] \cup one \in Nibble
    BY <1>0, <1>7, <1>4, <1>6 DEF Nibble
  <2>3. [block.fec EXCEPT ![j] = @ \cup one] \in [0..19 -> Nibble]
    BY <1>4, <2>2
  <2>4. new \in Datablock
    BY <2>1, <2>3 DEF Datablock
  <2>5. new.data = block.data /\ \A i \in 0..19 : new.fec[i] = IF i = j THEN block.fec[j] \cup one ELSE block.fec[i]
    BY <1>4, <2>1 DEF Datablock
  <2>6. ASSUME NEW n \in 0..239
        PROVE  HasBit(new, n) <=> HasBit(block, n) \/ (n = d /\ bit = 1)
    <3>0. PICK q, i : q = RowOf(n) /\ i = ByteOf(n)
      OBVIOUS
    <3>1. q \in 0..11 /\ i \in 0..19 /\ n = 20 * q + i /\ q = RowOf(n) /\ i = ByteOf(n)
      BY <3>0, Places
    <3>2. n = d <=> q = r /\ i = j
      BY <1>0, <3>1
    <3>3. ~(q < 8) => (11 - q \in one <=> q = r /\ bit = 1)
      BY <1>0, <1>2, <1>7, <1>6, <3>1
    <3>4. CASE ~(q < 8)
      <4>1. HasBit(new, n) <=> 11 - q \in new.fec[i]
        BY <3>1, <3>4 DEF HasBit
      <4>2. HasBit(block, n) <=> 11 - q \in block.fec[i]
        BY <3>1, <3>4 DEF HasBit
      <4>3. 11 - q \in new.fec[i] <=> 11 - q \in block.fec[i] \/ (i = j /\ 11 - q \in one)
        BY <2>5, <3>1
      <4>4. 11 - q \in one <=> q = r /\ bit = 1
        BY <3>3, <3>4
      <4> QED
        BY <3>2, <4>1, <4>2, <4>3, <4>4, Zenon
    <3>5. CASE q < 8
      <4>1. HasBit(new, n) <=> HasBit(block, n)
        BY <2>5, <3>1, <3>5 DEF HasBit
      <4> QED
        BY <1>6, <3>2, <3>5, <4>1
    <3> QED
      BY <3>4, <3>5
  <2> QED
    BY <2>4, <2>6
<1> QED
  BY <1>5, <1>6

\* The bit of row r and byte j is bit 11 - r of that byte's word.
LEMMA BitOfWord ==
  ASSUME NEW block \in Datablock, NEW i \in 0..11, NEW j \in 0..19
  PROVE  /\ 20 * (11 - i) + j \in 0..239
         /\ ByteOf(20 * (11 - i) + j) = j
         /\ HasBit(block, 20 * (11 - i) + j) <=> i \in WordOf(block.data[j], block.fec[j])
<1>1. PICK r : r = 11 - i
  OBVIOUS
<1>2. r \in Nat /\ r \in 0..11 /\ i = 11 - r
  BY <1>1
<1>3. RowOf(20 * r + j) = r /\ ByteOf(20 * r + j) = j
  BY <1>2, RowAndColumn DEF RowOf, ByteOf
<1>4. block.data[j] \subseteq 0..7 /\ block.fec[j] \subseteq 0..3
  BY DEF Datablock, Byte, Nibble
<1>5. HasBit(block, 20 * r + j) <=> i \in WordOf(block.data[j], block.fec[j])
  <2>1. HasBit(block, 20 * r + j) <=> IF r < 8 THEN 7 - r \in block.data[j]
                                      ELSE 11 - r \in block.fec[j]
    BY <1>3 DEF HasBit
  <2>2. WordOf(block.data[j], block.fec[j]) = {k + 4 : k \in block.data[j]} \cup block.fec[j]
    BY DEF WordOf, ShiftLeft
  <2>3. CASE r < 8
    <3>1. i \notin block.fec[j] /\ 7 - r = i - 4
      BY <1>2, <1>4, <2>3
    <3>2. i \in {k + 4 : k \in block.data[j]} <=> i - 4 \in block.data[j]
      BY <1>2, <1>4
    <3> QED
      BY <2>1, <2>2, <2>3, <3>1, <3>2
  <2>4. CASE ~(r < 8)
    <3>1. i \notin {k + 4 : k \in block.data[j]}
      BY <1>2, <1>4, <2>4
    <3> QED
      BY <1>2, <2>1, <2>2, <2>4, <3>1
  <2> QED
    BY <2>3, <2>4
<1>6. 20 * r + j \in 0..239
  BY <1>2
<1> QED
  BY <1>1, <1>3, <1>5, <1>6

\* A byte read with one wrong bit at most is decoded to the byte sent.
LEMMA ByteRead ==
  ASSUME NEW b \in Byte, NEW x \in Byte, NEW f \in Nibble,
         NEW s, s = {} \/ \E i \in 0..11 : s = {i},
         \A i \in 0..11 : i \in WordOf(x, f) <=> (i \in WordOf(b, calc_fec(b)) <=> i \notin s)
  PROVE  Corrected(x, f) = b /\ Correctable(WordOf(x, f))
<1>1. PICK w : w = WordOf(x, f)
  OBVIOUS
<1>2. PICK sent : sent = WordOf(b, calc_fec(b))
  OBVIOUS
<1>3. w \subseteq 0..11 /\ ShiftRight(w, 4) = x /\ w \cap (0..3) = f
  BY <1>1, WordParts DEF Word
<1>4. calc_fec(b) \in Nibble
  BY CalcBits
<1>5. sent \subseteq 0..11 /\ s \subseteq 0..11
  BY <1>2, <1>4, WordParts DEF Word
<1>6. w = Xor(sent, s)
  BY <1>1, <1>2, <1>3, <1>5 DEF Xor, SymDiff
<1> QED
  BY <1>1, <1>2, <1>3, <1>6, AtMostOneBit, Zenon

\* The CRC of a block is that of its 18 bytes of data, whatever follows them.
LEMMA SameCrc ==
  ASSUME NEW a, NEW b, \A i \in 0..17 : a[i] = b[i]
  PROVE  calc_db_crc(a, 18) = calc_db_crc(b, 18)
<1>1. \A k \in 0..18 : k # 0 => a[k - 1] = b[k - 1]
  OBVIOUS
<1> QED
  BY <1>1, Zenon DEF calc_db_crc

\* An encoded block holds its data, the FEC of each byte and the CRC of the data.
LEMMA Encoding ==
  ASSUME NEW bytes \in [0..17 -> Byte]
  PROVE  /\ encode_datablock(bytes) \in Datablock
         /\ \A j \in 0..19 : encode_datablock(bytes).fec[j] = calc_fec(encode_datablock(bytes).data[j])
         /\ \A j \in 0..17 : encode_datablock(bytes).data[j] = bytes[j]
         /\ CrcOk(encode_datablock(bytes).data)
<1>1. PICK crc : crc = calc_db_crc(bytes, 18)
  OBVIOUS
<1>2. PICK data : data = [j \in 0..19 |-> IF j < 18 THEN bytes[j]
                                          ELSE IF j = 18 THEN HighByte(crc) ELSE LowByte(crc)]
  OBVIOUS
<1>3. encode_datablock(bytes) = [data |-> data, fec |-> [j \in 0..19 |-> calc_fec(data[j])]]
  BY <1>1, <1>2 DEF encode_datablock
<1>4. HighByte(crc) \in Byte /\ LowByte(crc) \in Byte
  BY DEF HighByte, LowByte, Byte
<1>5. data \in [0..19 -> Byte]
  BY <1>2, <1>4
<1>6. \A j \in 0..19 : calc_fec(data[j]) \in Nibble
  BY CalcBits
<1>7. /\ encode_datablock(bytes).data = data
      /\ encode_datablock(bytes).fec = [j \in 0..19 |-> calc_fec(data[j])]
  BY <1>3
<1>8. encode_datablock(bytes) \in Datablock
  BY <1>3, <1>5, <1>6 DEF Datablock
<1>9. /\ \A j \in 0..17 : data[j] = bytes[j]
      /\ data[18] = HighByte(crc) /\ data[19] = LowByte(crc)
  BY <1>2
<1>10. calc_db_crc(data, 18) = crc
  BY <1>1, <1>9, SameCrc
<1>11. CrcOk(data)
  BY <1>9, <1>10 DEF CrcOk
<1> QED
  BY <1>7, <1>8, <1>9, <1>11

\* A block in which every byte has one wrong bit at most is decoded to the block
\* that was sent.
LEMMA Decoding ==
  ASSUME NEW bytes \in [0..17 -> Byte], NEW read \in Datablock, NEW wrong,
         \A n \in 0..239 : HasBit(read, n) <=>
           (HasBit(encode_datablock(bytes), n) <=> n \notin wrong),
         \A m, n \in wrong \cap (0..239) : ByteOf(m) = ByteOf(n) => m = n
  PROVE  /\ decode_datablock(read).ok
         /\ decode_datablock(read).block \in Datablock
         /\ \A i \in 0..17 : decode_datablock(read).block.data[i] = bytes[i]
<1>1. PICK sent : sent = encode_datablock(bytes)
  OBVIOUS
<1>2. /\ sent \in Datablock /\ CrcOk(sent.data)
      /\ \A j \in 0..19 : sent.fec[j] = calc_fec(sent.data[j])
      /\ \A i \in 0..17 : sent.data[i] = bytes[i]
  BY <1>1, Encoding
<1>3. ASSUME NEW j \in 0..19
      PROVE  /\ Corrected(read.data[j], read.fec[j]) = sent.data[j]
             /\ Correctable(WordOf(read.data[j], read.fec[j]))
  <2>1. PICK s : s = {i \in 0..11 : 20 * (11 - i) + j \in wrong}
    OBVIOUS
  <2>2. ASSUME NEW i \in s, NEW k \in s PROVE i = k
    <3>1. i \in 0..11 /\ k \in 0..11
      BY <2>1
    <3>2. PICK m, n : m = 20 * (11 - i) + j /\ n = 20 * (11 - k) + j
      OBVIOUS
    <3>3. m \in wrong \cap (0..239) /\ n \in wrong \cap (0..239)
      BY <2>1, <3>1, <3>2
    <3>4. ByteOf(m) = j /\ ByteOf(n) = j
      BY <1>2, <3>1, <3>2, BitOfWord
    <3>5. m = n
      BY <3>3, <3>4
    <3> QED
      BY <3>1, <3>2, <3>5
  <2>3. s = {} \/ \E i \in 0..11 : s = {i}
    <3> SUFFICES ASSUME s # {} PROVE \E i \in 0..11 : s = {i}
      OBVIOUS
    <3>1. PICK i : i \in s
      OBVIOUS
    <3>2. i \in 0..11
      BY <2>1, <3>1
    <3>3. \A k \in s : k = i
      BY <2>2, <3>1
    <3>4. s = {i}
      BY <3>1, <3>3
    <3> QED
      BY <3>2, <3>4
  <2>4. /\ sent.data[j] \in Byte /\ sent.fec[j] = calc_fec(sent.data[j])
        /\ read.data[j] \in Byte /\ read.fec[j] \in Nibble
    BY <1>2 DEF Datablock
  <2>5. ASSUME NEW i \in 0..11
        PROVE  i \in WordOf(read.data[j], read.fec[j]) <=>
                 (i \in WordOf(sent.data[j], calc_fec(sent.data[j])) <=> i \notin s)
    <3>1. PICK n : n = 20 * (11 - i) + j
      OBVIOUS
    <3>2. n \in 0..239
      BY <3>1
    <3>3. HasBit(read, n) <=> i \in WordOf(read.data[j], read.fec[j])
      BY <3>1, BitOfWord
    <3>4. HasBit(sent, n) <=> i \in WordOf(sent.data[j], sent.fec[j])
      BY <1>2, <3>1, BitOfWord
    <3>5. n \in wrong <=> i \in s
      BY <2>1, <3>1
    <3>6. HasBit(read, n) <=> (HasBit(sent, n) <=> n \notin wrong)
      BY <1>1, <3>2
    <3> QED
      BY <2>4, <3>3, <3>4, <3>5, <3>6
  <2> QED
    BY <2>3, <2>4, <2>5, ByteRead
<1>4. DecodedData(read) = sent.data
  <2>1. sent.data \in [0..19 -> Byte]
    BY <1>2 DEF Datablock
  <2> QED
    BY <1>3, <2>1 DEF DecodedData
<1>5. FecOk(read)
  BY <1>3 DEF FecOk
<1>6. decode_datablock(read) = [ok |-> TRUE, block |-> [read EXCEPT !.data = sent.data]]
  BY <1>2, <1>4, <1>5 DEF decode_datablock
<1>7. [read EXCEPT !.data = sent.data] \in Datablock /\ [read EXCEPT !.data = sent.data].data = sent.data
  BY <1>2 DEF Datablock
<1>8. /\ decode_datablock(read).ok
      /\ decode_datablock(read).block = [read EXCEPT !.data = sent.data]
  BY <1>6
<1>9. \A i \in 0..17 : [read EXCEPT !.data = sent.data].data[i] = bytes[i]
  BY <1>2, <1>7
<1> QED
  BY <1>7, <1>8, <1>9, Zenon

------------------------------------------------------------------------------
(* Interleaving and disturbances                                            *)

\* The block the sender made of datablock k of the message.
SentBlock(k) == encode_datablock(msg.data[k])

\* The data on the air is scrambled from its first bit on.
AirInv ==
  phase \in {"callsign", "data"} =>
    \A n \in 0..(240 * blocks - 1) :
      air[65 + n] = scramble(Interleaved(SentBlock(n \div 240), n % 240), RegisterAt(n))

\* The counters and buffers of the receiver rest at their initial values outside
\* their fields.
RestInv ==
  /\ phase \in {"idle", "published", "callsign", "data"}
  /\ phase # "idle" => msg \in Messages
  /\ rd \in [callsign : 0..63, data : 0..239, block : Nat]
  /\ phase # "callsign" => rd.callsign = 0
  /\ phase # "data" => rd.data = 0 /\ rd.block = 0 /\ mob = clear_blocks
  /\ noise \in [left : Nat, callsign : Nat, data : Nat]
  /\ noise.callsign + noise.data = 0 => noise.left = 0
  /\ phase \in {"published", "callsign"} => noise.data = 0

\* The data bits read so far, and those of them a disturbance flipped that
\* began with bit first.
DataRead == 240 * rd.block + rd.data
Flipped(first, count) == first..(first + count - 1)

\* A disturbance that began with bit first ends before the next bit, or just
\* there if it is to go on.
BurstAt(first, next, now) ==
  first + now.data <= next /\ (now.left > 0 => first + now.data = next)

\* A block of which d bits were read holds them as they were sent, except for
\* the wrong ones.
BlockAt(block, sent, base, d, wrong) ==
  \A n \in 0..239 :
    HasBit(block, n) <=> n < d /\ (HasBit(sent, n) <=> base + n \notin wrong)

\* Reading: the receiver's register is the sender's, the bits of the block are
\* in their places, and what was read with 20 wrong bits at most is right.
ReadingInv(first) ==
  /\ rd.block < blocks
  /\ reg = RegisterAt(DataRead)
  /\ mob \in [Blocks -> Datablock]
  /\ \A k \in Blocks : k > rd.block => mob[k] = clear_block
  /\ BurstAt(first, DataRead, noise)
  /\ BlockAt(mob[rd.block], SentBlock(rd.block), 240 * rd.block, rd.data,
             Flipped(first, noise.data))
  /\ noise.data <= 20 =>
       /\ errs = {}
       /\ \A k \in 0..(rd.block - 1) : \A i \in 0..17 : mob[k].data[i] = msg.data[k][i]

\* Together with what is published they are inductive.
LinkInv ==
  /\ PublishedInv
  /\ RestInv
  /\ AirInv
  /\ phase = "data" => \E first \in Nat : ReadingInv(first)
  /\ ShortBurstCorrected

\* Bit n of the encoder is the one read_data calls bit n.
LEMMA InterleavedBit ==
  ASSUME NEW block, NEW n
  PROVE  Interleaved(block, n) = (IF HasBit(block, n) THEN 1 ELSE 0)
  BY DEF Interleaved, HasBit

\* A message has the bytes of its blocks, 32 at most.
LEMMA MessageTypes ==
  ASSUME msg \in Messages
  PROVE  /\ blocks \in 1..32 /\ blocks \in 1..MaxBlocks /\ MaxBlocks \in Nat
         /\ msg.data \in [0..(blocks - 1) -> [0..17 -> Byte]]
<1>1. IsMessage(msg) /\ MaxBlocks \in 1..32
  BY MessagesAssumption
<1>2. /\ blocks \in 1..MaxBlocks
      /\ msg.data \in [0..(blocks - 1) -> [0..17 -> Byte]]
  BY <1>1 DEF IsMessage, head, blocks
<1>3. \A most \in 1..32 : \A n \in 1..most : n \in 1..32 /\ most \in Nat
  OBVIOUS
<1> QED
  BY <1>1, <1>2, <1>3, Zenon

\* Transmit puts the scrambled bits of the blocks on the air.
LEMMA DataSent ==
  ASSUME PublishedInv, phase = "published", NEW n \in 0..(240 * blocks - 1)
  PROVE  (IF Carrier[MessageAt(baud_bit(head)) + 40 + (65 + n) - 1] = 1 THEN 1 ELSE 0)
           = scramble(Interleaved(SentBlock(n \div 240), n % 240), RegisterAt(n))
<1> DEFINE tx == Encoded(msg)
<1>1. PICK at, p, part : /\ at = MessageAt(baud_bit(head)) /\ p = at + 104 + n
                         /\ part = Part("data", at + 104, blocks * 240)
  OBVIOUS
<1>2. msg \in Messages
  BY DEF PublishedInv
<1>3. blocks \in 1..32 /\ DOMAIN msg.data = 0..(blocks - 1)
  BY <1>2, MessageTypes
<1>4. at \in Nat
  BY <1>1, Sizes DEF MessageAt, baud_bit
<1>5. p \in Nat /\ n \in Nat /\ p - (at + 104) + 1 = n + 1 /\ at + 40 + (65 + n) - 1 = p
  BY <1>1, <1>3, <1>4
<1>6. part.name = "data" /\ part.at = at + 104 /\ part.len = blocks * 240
  BY <1>1 DEF Part
<1>7. Covers(part, p)
  BY <1>1, <1>3, <1>4, <1>6 DEF Covers
<1>8. part \in Message(at, blocks)
  BY <1>1 DEF Message
<1>9. Carrier[p] = con(BitsOfPart("data", tx)[n + 1])
  <2>1. Carrier[p] = con(BitsOfPart(part.name, tx)[p - part.at + 1])
    BY <1>1, <1>5, <1>7, <1>8, CarrierBits
  <2> QED
    BY <1>5, <1>6, <2>1
<1>10. BitsOfPart("data", tx) = write_data(tx.mob, tx.blocks)
  BY DEF BitsOfPart
<1>11. tx.blocks = blocks /\ tx.mob = [k \in DOMAIN msg.data |-> SentBlock(k)]
  BY DEF Encoded, blocks, head, SentBlock
<1> HIDE DEF tx
<1>12. n \div 240 \in 0..(blocks - 1) /\ n + 1 \in 1..(blocks * 240) /\ n + 1 - 1 = n
  BY <1>3
<1>13. write_data(tx.mob, blocks)[n + 1]
         = scramble(Interleaved(tx.mob[n \div 240], n % 240), RegisterAt(n))
  <2>1. \A m \in 1..(blocks * 240) :
          write_data(tx.mob, blocks)[m]
            = scramble(Interleaved(tx.mob[(m - 1) \div 240], (m - 1) % 240), RegisterAt(m - 1))
    BY DEF write_data, RegisterAt
  <2> QED
    BY <1>12, <2>1
<1>14. tx.mob[n \div 240] = SentBlock(n \div 240)
  BY <1>3, <1>11, <1>12
<1>15. PICK bit : bit = scramble(Interleaved(SentBlock(n \div 240), n % 240), RegisterAt(n))
  OBVIOUS
<1>16. bit \in Bit
  <2>1. Interleaved(SentBlock(n \div 240), n % 240) \in Bit
    BY DEF Interleaved, Bit
  <2> QED
    BY <1>15, <2>1, ScrambleTwice
<1>17. Carrier[p] = con(bit)
  BY <1>9, <1>10, <1>11, <1>13, <1>14, <1>15
<1>18. (IF Carrier[p] = 1 THEN 1 ELSE 0) = bit
  BY <1>16, <1>17 DEF con, Bit
<1> QED
  BY <1>1, <1>5, <1>15, <1>18

\* What reading a bit of the data leaves of a disturbance.
Disturbs(now, left, next) ==
  next = IF left = 0 THEN now ELSE [now EXCEPT !.left = left - 1, !.data = @ + 1]

\* The one disturbance of a frame when its data was read up to bit read: it is
\* still to come, goes on with left bits, or is over.
OneBurst(first, read, left, now) ==
  /\ BurstAt(first, read, now)
  /\ now.callsign + now.data = 0 => now.left = 0
  /\ now.callsign + now.data # 0 => left = now.left

\* Bit read is flipped if there are bits left, and what was flipped remains so.
BurstGoesOn(first, read, left, now, next) ==
  /\ next \in [left : Nat, callsign : Nat, data : Nat]
  /\ now.data <= next.data
  /\ \E g \in Nat :
       /\ BurstAt(g, read + 1, next)
       /\ \A m \in 0..(read - 1) : m \in Flipped(g, next.data) <=> m \in Flipped(first, now.data)
       /\ read \in Flipped(g, next.data) <=> left > 0

\* One more bit of a disturbance: it goes on where it left off, or ends.
LEMMA FlippedNext ==
  ASSUME NEW first \in Nat, NEW read \in Nat, NEW left \in Nat,
         NEW now \in [left : Nat, callsign : Nat, data : Nat],
         NEW next, Disturbs(now, left, next), OneBurst(first, read, left, now)
  PROVE  BurstGoesOn(first, read, left, now, next)
<1>0. /\ BurstAt(first, read, now)
      /\ now.callsign + now.data = 0 => now.left = 0
      /\ now.callsign + now.data # 0 => left = now.left
  BY DEF OneBurst
<1>1. CASE left = 0
  <2>1. next = now
    BY <1>1 DEF Disturbs
  <2>2. now.left = 0
    BY <1>0, <1>1
  <2>3. read \notin Flipped(first, now.data)
    BY <1>0 DEF Flipped, BurstAt
  <2>4. BurstAt(first, read + 1, now)
    BY <1>0, <2>2 DEF BurstAt
  <2> QED
    BY <1>1, <2>1, <2>3, <2>4 DEF BurstGoesOn
<1>2. CASE left > 0
  <2>0. next = [now EXCEPT !.left = left - 1, !.data = now.data + 1]
    BY <1>2 DEF Disturbs
  <2>1. next = [left |-> left - 1, callsign |-> now.callsign, data |-> now.data + 1]
    BY <2>0
  <2>2. next \in [left : Nat, callsign : Nat, data : Nat]
    BY <1>2, <2>1
  <2>3. next.data = now.data + 1 /\ next.data # 0 /\ next.callsign \in Nat
    BY <2>1
  <2>4. CASE now.data = 0
    <3>1. read + next.data = read + 1
      BY <2>3, <2>4
    <3>2. \A m \in 0..(read - 1) : m \in Flipped(read, next.data) <=> m \in Flipped(first, now.data)
      BY <2>3, <2>4 DEF Flipped
    <3>3. read \in Flipped(read, next.data)
      BY <2>3, <2>4 DEF Flipped
    <3>4. read \in Nat /\ read + next.data <= read + 1
      BY <3>1
    <3>5. \E g \in Nat :
              /\ BurstAt(g, read + 1, next)
              /\ \A m \in 0..(read - 1) : m \in Flipped(g, next.data) <=> m \in Flipped(first, now.data)
              /\ read \in Flipped(g, next.data) <=> left > 0
      BY <1>2, <3>1, <3>2, <3>3, <3>4 DEF BurstAt
    <3> QED
      BY <2>2, <2>3, <3>5 DEF BurstGoesOn
  <2>5. CASE now.data # 0
    <3>1. first + now.data = read /\ first + next.data = read + 1
      BY <1>0, <1>2, <2>3, <2>5 DEF BurstAt
    <3>2. \A m \in 0..(read - 1) : m \in Flipped(first, next.data) <=> m \in Flipped(first, now.data)
      BY <2>3, <3>1 DEF Flipped
    <3>3. read \in Flipped(first, next.data)
      BY <2>3, <3>1 DEF Flipped
    <3>4. first + next.data <= read + 1
      BY <3>1
    <3>5. \E g \in Nat :
              /\ BurstAt(g, read + 1, next)
              /\ \A m \in 0..(read - 1) : m \in Flipped(g, next.data) <=> m \in Flipped(first, now.data)
              /\ read \in Flipped(g, next.data) <=> left > 0
      BY <1>2, <3>1, <3>2, <3>3, <3>4 DEF BurstAt
    <3> QED
      BY <2>2, <2>3, <3>5 DEF BurstGoesOn
  <2> QED
    BY <2>4, <2>5
<1> QED
  BY <1>1, <1>2

\* One more bit of a block: descrambled, it is the sender's bit or the opposite.
LEMMA BlockNext ==
  ASSUME NEW block \in Datablock, NEW sent \in Datablock, NEW d \in 0..239,
         NEW base \in Nat, NEW register, NEW wrong, NEW wrongNow, NEW got,
         BlockAt(block, sent, base, d, wrong),
         \A m \in 0..(base + d - 1) : m \in wrongNow <=> m \in wrong,
         got = LET bit == scramble(Interleaved(sent, d), register)
               IN  scramble(IF base + d \in wrongNow THEN 1 - bit ELSE bit, register)
  PROVE  /\ Deinterleaved(block, d, got) \in Datablock
         /\ BlockAt(Deinterleaved(block, d, got), sent, base, d + 1, wrongNow)
<1>1. PICK bit : bit = Interleaved(sent, d)
  OBVIOUS
<1>2. bit = (IF HasBit(sent, d) THEN 1 ELSE 0)
  BY <1>1, InterleavedBit
<1>3. bit \in Bit
  BY <1>2 DEF Bit
<1>4. got = IF base + d \in wrongNow THEN 1 - bit ELSE bit
  BY <1>1, <1>3, ScrambleTwice
<1>5. got \in Bit /\ (got = 1 <=> (HasBit(sent, d) <=> base + d \notin wrongNow))
  BY <1>2, <1>4 DEF Bit
<1>6. PICK new : new = Deinterleaved(block, d, got)
  OBVIOUS
<1>7. /\ new \in Datablock
      /\ \A n \in 0..239 : HasBit(new, n) <=> HasBit(block, n) \/ (n = d /\ got = 1)
  <2>1. got \in Bit
    BY <1>5
  <2>2. \A b \in Bit :
          /\ Deinterleaved(block, d, b) \in Datablock
          /\ \A n \in 0..239 :
               HasBit(Deinterleaved(block, d, b), n) <=> HasBit(block, n) \/ (n = d /\ b = 1)
    BY DeinterleavedBits
  <2>3. /\ Deinterleaved(block, d, got) \in Datablock
        /\ \A n \in 0..239 :
             HasBit(Deinterleaved(block, d, got), n) <=> HasBit(block, n) \/ (n = d /\ got = 1)
    BY <2>1, <2>2, Zenon
  <2> QED
    BY <1>6, <2>2, <2>3
<1>0. \A n \in 0..239 :
        HasBit(block, n) <=> n < d /\ (HasBit(sent, n) <=> base + n \notin wrong)
  BY DEF BlockAt
<1>8. ASSUME NEW n \in 0..239
      PROVE  HasBit(new, n) <=> n < d + 1 /\ (HasBit(sent, n) <=> base + n \notin wrongNow)
  <2>1. n < d => (base + n \in wrongNow <=> base + n \in wrong)
    OBVIOUS
  <2>2. n < d + 1 <=> n < d \/ n = d
    OBVIOUS
  <2>3. CASE n = d
    <3>1. ~(n < d)
      BY <2>3
    <3> QED
      BY <1>0, <1>5, <1>7, <2>2, <2>3, <3>1
  <2>4. CASE n # d
    BY <1>0, <1>7, <2>1, <2>2, <2>4
  <2> QED
    BY <2>3, <2>4
<1> QED
  BY <1>6, <1>7, <1>8 DEF BlockAt

\* Whether a disturbance begins, goes on or is over, it flips a number of bits.
LEMMA LeftType ==
  ASSUME RestInv, NEW bursts \in SUBSET (Nat \ {0}), NEW left \in NoiseStarts(bursts)
  PROVE  left \in Nat /\ (noise.callsign + noise.data # 0 => left = noise.left)
  BY DEF NoiseStarts, RestInv

\* What ReadData does when the block is not complete, is, and was the last one.
LEMMA ReadDataCases ==
  ASSUME NEW left, ReadData(left), NEW read,
         read = Deinterleaved(mob[rd.block], rd.data, scramble(Received(left), reg))
  PROVE  \/ /\ rd.data < 239 /\ phase' = phase
            /\ mob' = [mob EXCEPT ![rd.block] = read]
            /\ rd' = [rd EXCEPT !.data = @ + 1]
            /\ errs' = errs
         \/ /\ rd.data = 239 /\ rd.block + 1 # blocks /\ phase' = phase
            /\ mob' = [mob EXCEPT ![rd.block] = decode_datablock(read).block]
            /\ rd' = [rd EXCEPT !.data = 0, !.block = @ + 1]
            /\ errs' = IF decode_datablock(read).ok THEN errs ELSE errs \cup {rd.block}
         \/ /\ rd.data = 239 /\ rd.block + 1 = blocks /\ phase' = "idle"
            /\ mob' = clear_blocks
            /\ rd' = [rd EXCEPT !.data = 0, !.block = 0]
            /\ errs' = IF decode_datablock(read).ok THEN errs ELSE errs \cup {rd.block}
            /\ out' = output_message([mob EXCEPT ![rd.block] = decode_datablock(read).block], errs')
  BY ZenonT(30) DEF ReadData

\* Every step keeps the counters in their ranges and the buffers cleared.
LEMMA RestNext ==
  ASSUME PublishedInv, RestInv, [Next]_vars
  PROVE  RestInv'
<1>0. CallsignBursts \in SUBSET (Nat \ {0}) /\ DataBursts \in SUBSET (Nat \ {0})
  BY BurstsAssumption
<1>1. ASSUME NEW m \in Messages, handle_msg(m)
      PROVE  RestInv'
  BY <1>1 DEF handle_msg, RestInv, Quiet, clear_blocks
<1>2. CASE Transmit
  BY <1>2 DEF Transmit, RestInv, clear_blocks
<1>3. ASSUME NEW left \in NoiseStarts(CallsignBursts), ReadCallsign(left)
      PROVE  RestInv'
  <2>1. left \in Nat /\ phase = "callsign" /\ msg \in Messages /\ msg' = msg /\ mob' = mob
    BY <1>0, <1>3, LeftType DEF ReadCallsign, RestInv
  <2>2. noise' = IF left = 0 THEN noise
                 ELSE [noise EXCEPT !.left = left - 1, !.callsign = @ + 1]
    BY <1>3 DEF ReadCallsign, Disturbed
  <2>3. /\ noise \in [left : Nat, callsign : Nat, data : Nat] /\ noise.data = 0
        /\ noise.callsign + noise.data = 0 => noise.left = 0
    BY <2>1 DEF RestInv
  <2>4. /\ noise' \in [left : Nat, callsign : Nat, data : Nat] /\ noise'.data = 0
        /\ noise'.callsign + noise'.data = 0 => noise'.left = 0
    <3>1. CASE left = 0
      BY <2>2, <2>3, <3>1
    <3>2. CASE left > 0
      <4>1. noise' = [noise EXCEPT !.left = left - 1, !.callsign = noise.callsign + 1]
        BY <2>2, <3>2
      <4>2. noise' = [left |-> left - 1, callsign |-> noise.callsign + 1, data |-> noise.data]
        BY <2>3, <4>1
      <4>3. left - 1 \in Nat /\ noise.callsign + 1 \in Nat /\ noise.callsign + 1 + 0 # 0
        BY <2>1, <2>3, <3>2
      <4> QED
        BY <2>3, <4>2, <4>3
    <3> QED
      BY <2>1, <3>1, <3>2
  <2>5. /\ rd' \in [callsign : 0..63, data : 0..239, block : Nat]
        /\ rd'.data = 0 /\ rd'.block = 0
        /\ phase' \in {"callsign", "data"} /\ (phase' # "callsign" => rd'.callsign = 0)
    <3>1. rd \in [callsign : 0..63, data : 0..239, block : Nat] /\ rd.data = 0 /\ rd.block = 0
      BY <2>1 DEF RestInv
    <3>2. CASE rd.callsign < 63
      BY <1>3, <2>1, <3>1, <3>2 DEF ReadCallsign
    <3>3. CASE ~(rd.callsign < 63)
      BY <1>3, <2>1, <3>1, <3>3 DEF ReadCallsign
    <3> QED
      BY <3>2, <3>3
  <2> QED
    BY <2>1, <2>4, <2>5 DEF RestInv, clear_blocks
<1>4. ASSUME NEW left \in NoiseStarts(DataBursts), ReadData(left)
      PROVE  RestInv'
  <2>1. left \in Nat /\ phase = "data" /\ msg \in Messages /\ msg' = msg
    BY <1>0, <1>4, LeftType DEF ReadData, RestInv
  <2>2. noise' = IF left = 0 THEN noise
                 ELSE [noise EXCEPT !.left = left - 1, !.data = @ + 1]
    BY <1>4 DEF ReadData, Disturbed
  <2>3. /\ noise \in [left : Nat, callsign : Nat, data : Nat]
        /\ noise.callsign + noise.data = 0 => noise.left = 0
    BY DEF RestInv
  <2>4. /\ noise' \in [left : Nat, callsign : Nat, data : Nat]
        /\ noise'.callsign + noise'.data = 0 => noise'.left = 0
    <3>1. CASE left = 0
      BY <2>2, <2>3, <3>1
    <3>2. CASE left > 0
      <4>1. noise' = [noise EXCEPT !.left = left - 1, !.data = noise.data + 1]
        BY <2>2, <3>2
      <4>2. noise' = [left |-> left - 1, callsign |-> noise.callsign, data |-> noise.data + 1]
        BY <2>3, <4>1
      <4>3. left - 1 \in Nat /\ noise.data + 1 \in Nat /\ noise.callsign + (noise.data + 1) # 0
        BY <2>1, <2>3, <3>2
      <4> QED
        BY <2>3, <4>2, <4>3
    <3> QED
      BY <2>1, <3>1, <3>2
  <2>5. /\ rd' \in [callsign : 0..63, data : 0..239, block : Nat] /\ rd'.callsign = 0
        /\ phase' \in {"idle", "data"}
        /\ phase' # "data" => rd'.data = 0 /\ rd'.block = 0 /\ mob' = clear_blocks
    <3>1. rd \in [callsign : 0..63, data : 0..239, block : Nat] /\ rd.callsign = 0
      BY <2>1 DEF RestInv
    <3>2. rd.callsign = 0 /\ rd.data \in 0..239 /\ rd.block \in Nat
      BY <3>1
    <3>3. CASE rd.data < 239 /\ phase' = phase /\ rd' = [rd EXCEPT !.data = @ + 1]
      <4>1. rd' = [callsign |-> rd.callsign, data |-> rd.data + 1, block |-> rd.block]
        BY <3>1, <3>3
      <4>2. rd.data + 1 \in 0..239
        BY <3>2, <3>3
      <4>3. phase' = "data"
        BY <2>1, <3>3
      <4> QED
        BY <3>2, <4>1, <4>2, <4>3
    <3>4. CASE phase' = phase /\ rd' = [rd EXCEPT !.data = 0, !.block = @ + 1]
      <4>1. rd' = [callsign |-> rd.callsign, data |-> 0, block |-> rd.block + 1]
        BY <3>1, <3>4
      <4> QED
        BY <2>1, <3>2, <3>4, <4>1
    <3>5. CASE phase' = "idle" /\ mob' = clear_blocks /\ rd' = [rd EXCEPT !.data = 0, !.block = 0]
      <4>1. rd' = [callsign |-> rd.callsign, data |-> 0, block |-> 0]
        BY <3>1, <3>5
      <4> QED
        BY <3>2, <3>5, <4>1
    <3> QED
      BY <1>4, <3>3, <3>4, <3>5, ReadDataCases, ZenonT(30)
  <2> QED
    BY <2>1, <2>4, <2>5 DEF RestInv, clear_blocks
<1>5. CASE UNCHANGED vars
  BY <1>5 DEF vars, RestInv, clear_blocks
<1> QED
  BY <1>1, <1>2, <1>3, <1>4, <1>5 DEF Next

\* Every step keeps the bits on the air those of the message.
LEMMA AirNext ==
  ASSUME PublishedInv, RestInv, AirInv, [Next]_vars
  PROVE  AirInv'
<1>1. ASSUME NEW m \in Messages, handle_msg(m)
      PROVE  AirInv'
  BY <1>1 DEF handle_msg, AirInv
<1>2. CASE Transmit
  <2>1. /\ phase = "published" /\ msg' = msg
        /\ air' = [n \in 1..(64 + blocks * 240) |->
                     IF Carrier[MessageAt(baud_bit(head)) + 40 + n - 1] = 1 THEN 1 ELSE 0]
    BY <1>2 DEF Transmit
  <2>2. blocks \in 1..32
    BY <2>1, MessageTypes DEF PublishedInv
  <2>3. ASSUME NEW n \in 0..(240 * blocks - 1)
        PROVE  air'[65 + n] = scramble(Interleaved(SentBlock(n \div 240), n % 240), RegisterAt(n))
    <3>1. 65 + n \in 1..(64 + blocks * 240)
      BY <2>2
    <3>2. air'[65 + n] = IF Carrier[MessageAt(baud_bit(head)) + 40 + (65 + n) - 1] = 1 THEN 1 ELSE 0
      BY <2>1, <3>1
    <3> QED
      BY <2>1, <3>2, DataSent
  <2>4. blocks' = blocks /\ \A k : SentBlock(k)' = SentBlock(k)
    BY <2>1 DEF blocks, head, SentBlock
  <2> QED
    BY <2>3, <2>4 DEF AirInv
<1>3. ASSUME phase \in {"callsign", "data"}, msg' = msg, air' = air
      PROVE  AirInv'
  <2>1. blocks' = blocks /\ \A k : SentBlock(k)' = SentBlock(k)
    BY <1>3 DEF blocks, head, SentBlock
  <2> QED
    BY <1>3, <2>1 DEF AirInv
<1>4. ASSUME NEW left, ReadCallsign(left)
      PROVE  AirInv'
  BY <1>3, <1>4 DEF ReadCallsign
<1>5. ASSUME NEW left, ReadData(left)
      PROVE  AirInv'
  <2>1. CASE phase' = "idle"
    BY <2>1 DEF AirInv
  <2>2. CASE phase' # "idle"
    BY <1>3, <1>5, <2>2 DEF ReadData
  <2> QED
    BY <2>1, <2>2
<1>6. CASE UNCHANGED vars
  <2>1. phase' = phase /\ msg' = msg /\ air' = air
    BY <1>6 DEF vars
  <2>2. CASE phase \in {"callsign", "data"}
    BY <1>3, <2>1, <2>2
  <2>3. CASE phase \notin {"callsign", "data"}
    BY <2>1, <2>3 DEF AirInv
  <2> QED
    BY <2>2, <2>3
<1> QED
  BY <1>1, <1>2, <1>4, <1>5, <1>6 DEF Next

\* The first bit of the data follows a complete callsign.
LEMMA ReadingBegins ==
  ASSUME RestInv, NEW left, ReadCallsign(left), phase' = "data"
  PROVE  ReadingInv(0)'
<1>1. phase = "callsign"
  BY DEF ReadCallsign
<1>2. /\ rd.callsign \in 0..63 /\ rd.data = 0 /\ rd.block = 0 /\ mob = clear_blocks
      /\ rd \in [callsign : 0..63, data : 0..239, block : Nat] /\ msg \in Messages
      /\ noise \in [left : Nat, callsign : Nat, data : Nat] /\ noise.data = 0
  BY <1>1 DEF RestInv
<1>3. CASE ~(rd.callsign < 63)
  <2>1. /\ rd' = [rd EXCEPT !.callsign = 0] /\ errs' = {} /\ reg' = reset_scrambler
        /\ msg' = msg /\ mob' = mob
    BY <1>3 DEF ReadCallsign
  <2>2. rd'.data = 0 /\ rd'.block = 0 /\ DataRead' = 0
    BY <1>2, <2>1 DEF DataRead
  <2>3. noise'.data = 0
    BY <1>2 DEF ReadCallsign, Disturbed
  <2>4. blocks' = blocks /\ blocks \in 1..MaxBlocks /\ MaxBlocks \in Nat
    BY <1>2, <2>1, MessageTypes DEF blocks, head
  <2>5. clear_block \in Datablock
    BY DEF clear_block, Datablock, Byte, Nibble
  <2>6. mob' \in [Blocks -> Datablock] /\ \A k \in Blocks : mob'[k] = clear_block
    BY <1>2, <2>1, <2>5 DEF clear_blocks
  <2>7. 0 \in Blocks
    BY <2>4 DEF Blocks
  <2>8. ASSUME NEW n \in 0..239 PROVE ~HasBit(mob'[0], n)
    <3>1. mob'[0] = clear_block
      BY <2>6, <2>7
    <3>2. RowOf(n) \in 0..11 /\ ByteOf(n) \in 0..19
      BY Places
    <3>3. clear_block.data[ByteOf(n)] = {} /\ clear_block.fec[ByteOf(n)] = {}
      BY <3>2 DEF clear_block
    <3> QED
      BY <3>1, <3>3 DEF HasBit
  <2>9. reg' = RegisterAt(DataRead)'
    BY <2>1, <2>2, RegisterFirst DEF RegisterAt
  <2>10. rd'.block < blocks'
    BY <2>2, <2>4
  <2>11. BurstAt(0, DataRead', noise')
    <3>1. noise'.left > 0 => 0 + noise'.data = DataRead'
      BY <2>2, <2>3
    <3> QED
      BY <2>2, <2>3, <3>1 DEF BurstAt
  <2>12. BlockAt(mob'[rd'.block], SentBlock(rd.block)', 240 * rd'.block, rd'.data,
                 Flipped(0, noise'.data))
    <3>1. \A n \in 0..239 : ~(n < 0)
      OBVIOUS
    <3> QED
      BY <2>2, <2>8, <3>1 DEF BlockAt
  <2>13. /\ errs' = {}
         /\ \A k \in 0..(rd'.block - 1) : \A i \in 0..17 : mob'[k].data[i] = msg'.data[k][i]
    <3>1. 0..(rd'.block - 1) = {}
      BY <2>2
    <3> QED
      BY <2>1, <3>1
  <2> QED
    BY <2>6, <2>9, <2>10, <2>11, <2>12, <2>13 DEF ReadingInv
<1>4. CASE rd.callsign < 63
  BY <1>1, <1>4 DEF ReadCallsign
<1> QED
  BY <1>2, <1>3, <1>4

\* Whatever was read, decoding leaves a block.
LEMMA DecodedType ==
  ASSUME NEW read \in Datablock
  PROVE  decode_datablock(read).block \in Datablock
<1>1. ASSUME NEW j \in 0..19 PROVE DecodedData(read)[j] \in Byte
  <2>1. PICK b, f, w : b = read.data[j] /\ f = read.fec[j] /\ w = WordOf(b, f)
    OBVIOUS
  <2>2. b \in Byte /\ f \in Nibble
    BY <2>1 DEF Datablock
  <2>3. DecodedData(read)[j] = IF Correctable(w) THEN Corrected(b, f) ELSE b
    BY <2>1 DEF DecodedData, Corrected
  <2>4. ASSUME Correctable(w) PROVE Corrected(b, f) \in Byte
    <3>1. w \in Word /\ ShiftRight(w, 4) = b /\ w \cap (0..3) = f
      BY <2>1, <2>2, WordParts
    <3>2. Correction(w) \in Word
      BY <2>4, CorrectionInWord
    <3>3. Corrected(b, f) = ShiftRight(Xor(w, Correction(w)), 4)
      <4>1. Corrected(ShiftRight(w, 4), w \cap (0..3)) = ShiftRight(Xor(w, Correction(w)), 4)
        BY <2>4, <3>1, <3>2, CorrectedByte
      <4> QED
        BY <3>1, <4>1
    <3>4. Xor(w, Correction(w)) \in Word
      BY <3>1, <3>2, ByteXor
    <3>5. ShiftRight(Xor(w, Correction(w)), 4) = {i \in 0..7 : i + 4 \in Xor(w, Correction(w))}
      BY <3>4, BitsOfByte
    <3> QED
      BY <3>3, <3>5 DEF Byte
  <2> QED
    BY <2>2, <2>3, <2>4
<1>2. DecodedData(read) \in [0..19 -> Byte]
  <2>1. DecodedData(read) = [j \in 0..19 |-> DecodedData(read)[j]]
    BY DEF DecodedData
  <2> QED
    BY <1>1, <2>1
<1>3. decode_datablock(read).block = [read EXCEPT !.data = DecodedData(read)]
  BY DEF decode_datablock
<1> QED
  BY <1>2, <1>3 DEF Datablock

\* The bit just read completes what is known of the block.
LEMMA ReadBit ==
  ASSUME RestInv, AirInv, NEW first \in Nat, ReadingInv(first),
         NEW left \in NoiseStarts(DataBursts), ReadData(left), NEW read,
         read = Deinterleaved(mob[rd.block], rd.data, scramble(Received(left), reg))
  PROVE  /\ read \in Datablock
         /\ noise.data <= noise'.data /\ noise'.data \in Nat
         /\ \E g \in Nat :
              /\ BurstAt(g, DataRead + 1, noise')
              /\ BlockAt(read, SentBlock(rd.block), 240 * rd.block, rd.data + 1,
                         Flipped(g, noise'.data))
<1>1. /\ phase = "data" /\ msg \in Messages /\ rd.callsign = 0
      /\ rd.data \in 0..239 /\ rd.block \in Nat
      /\ noise \in [left : Nat, callsign : Nat, data : Nat]
      /\ noise.callsign + noise.data = 0 => noise.left = 0
  BY DEF RestInv, ReadData
<1>2. DataBursts \in SUBSET (Nat \ {0})
  BY BurstsAssumption
<1>3. left \in Nat /\ (noise.callsign + noise.data # 0 => left = noise.left)
  BY <1>2, LeftType
<1>4. noise' = IF left = 0 THEN noise
               ELSE [noise EXCEPT !.left = left - 1, !.data = @ + 1]
  BY DEF ReadData, Disturbed
<1>5. /\ blocks \in 1..32 /\ blocks <= MaxBlocks /\ MaxBlocks \in Nat
      /\ msg.data \in [0..(blocks - 1) -> [0..17 -> Byte]]
  BY <1>1, MessageTypes
<1>6. /\ rd.block \in 0..(blocks - 1) /\ rd.block \in Blocks
      /\ DataRead \in 0..(240 * blocks - 1) /\ DataRead \in Nat
  <2>1. rd.block < blocks
    BY DEF ReadingInv
  <2>2. rd.block \in 0..(blocks - 1)
    BY <1>1, <1>5, <2>1
  <2>3. rd.block \in Blocks
    BY <1>5, <2>2 DEF Blocks
  <2>4. DataRead \in 0..(240 * blocks - 1)
    <3>1. \A k \in Nat, d \in 0..239, n \in Nat : k + 1 <= n => 240 * k + d \in 0..(240 * n - 1)
      OBVIOUS
    <3>2. blocks \in Nat
      BY <1>5
    <3>3. rd.block + 1 <= blocks
      BY <1>1, <2>1, <3>2
    <3> QED
      BY <1>1, <3>1, <3>2, <3>3 DEF DataRead
  <2> QED
    BY <2>2, <2>3, <2>4
<1>7. DataRead \div 240 = rd.block /\ DataRead % 240 = rd.data
  BY <1>1 DEF DataRead
<1>8. PICK sent : sent = SentBlock(rd.block)
  OBVIOUS
<1>9. sent \in Datablock
  <2>1. msg.data[rd.block] \in [0..17 -> Byte]
    BY <1>5, <1>6
  <2> QED
    BY <1>8, <2>1, Encoding DEF SentBlock
<1>10. PICK block : block = mob[rd.block]
  OBVIOUS
<1>11. block \in Datablock /\ reg = RegisterAt(DataRead)
  BY <1>6, <1>10 DEF ReadingInv
<1>12. PICK bit : bit = scramble(Interleaved(sent, rd.data), reg)
  OBVIOUS
<1>13. Received(left) = IF left > 0 THEN 1 - bit ELSE bit
  <2>1. air[65 + DataRead] = bit
    <3>1. air[65 + DataRead] = scramble(Interleaved(SentBlock(DataRead \div 240), DataRead % 240),
                                        RegisterAt(DataRead))
      BY <1>1, <1>6 DEF AirInv
    <3> QED
      BY <1>7, <1>8, <1>11, <1>12, <3>1
  <2>2. 1 + rd.callsign + rd.data + 240 * rd.block + 64 = 65 + DataRead
    BY <1>1 DEF DataRead
  <2> QED
    BY <1>1, <2>1, <2>2 DEF Received
<1>14. BurstAt(first, DataRead, noise)
  BY DEF ReadingInv
<1>15. PICK now, next, at : now = noise /\ next = noise' /\ at = DataRead
  OBVIOUS
<1>16. now \in [left : Nat, callsign : Nat, data : Nat]
  BY <1>1, <1>15
<1>17. Disturbs(now, left, next)
  BY <1>4, <1>15 DEF Disturbs
<1>18. BurstAt(first, at, now)
  BY <1>14, <1>15
<1>19. at \in Nat /\ left \in Nat
  BY <1>3, <1>6, <1>15
<1>20. OneBurst(first, at, left, now)
  BY <1>1, <1>3, <1>15, <1>18 DEF OneBurst
<1>22. BurstGoesOn(first, at, left, now, next)
  BY <1>16, <1>17, <1>19, <1>20, FlippedNext
<1>23. next.data \in Nat /\ now.data <= next.data
  BY <1>22 DEF BurstGoesOn
<1>24. PICK g \in Nat :
         /\ BurstAt(g, at + 1, next)
         /\ \A m \in 0..(at - 1) : m \in Flipped(g, next.data) <=> m \in Flipped(first, now.data)
         /\ at \in Flipped(g, next.data) <=> left > 0
  BY <1>22 DEF BurstGoesOn
<1>25. PICK base, d, got, register : /\ base = 240 * rd.block /\ d = rd.data /\ register = reg
                                     /\ got = scramble(Received(left), reg)
  OBVIOUS
<1>26. base \in Nat /\ d \in 0..239 /\ base + d = at
  BY <1>1, <1>15, <1>25 DEF DataRead
<1>27. PICK wrong, wrongNow : wrong = Flipped(first, now.data) /\ wrongNow = Flipped(g, next.data)
  OBVIOUS
<1>28. BlockAt(block, sent, base, d, wrong)
  BY <1>8, <1>10, <1>15, <1>25, <1>27 DEF ReadingInv
<1>29. \A m \in 0..(base + d - 1) : m \in wrongNow <=> m \in wrong
  BY <1>24, <1>26, <1>27
<1>30. base + d \in wrongNow <=> left > 0
  BY <1>24, <1>26, <1>27
<1>31. got = scramble(IF base + d \in wrongNow THEN 1 - scramble(Interleaved(sent, d), register)
                      ELSE scramble(Interleaved(sent, d), register), register)
  BY <1>12, <1>13, <1>25, <1>30
<1>32. block \in Datablock /\ read = Deinterleaved(block, d, got)
  BY <1>10, <1>11, <1>25
<1>33. /\ Deinterleaved(block, d, got) \in Datablock
       /\ BlockAt(Deinterleaved(block, d, got), sent, base, d + 1, wrongNow)
  BY <1>9, <1>26, <1>28, <1>29, <1>31, <1>32, BlockNext
<1>34. BlockAt(read, SentBlock(rd.block), 240 * rd.block, rd.data + 1, Flipped(g, noise'.data))
  BY <1>8, <1>15, <1>25, <1>27, <1>32, <1>33
<1>35. BurstAt(g, DataRead + 1, noise')
  BY <1>15, <1>24
<1>36. noise'.data \in Nat /\ noise.data <= noise'.data
  BY <1>15, <1>23
<1> QED
  BY <1>24, <1>32, <1>33, <1>34, <1>35, <1>36
\* The wrong bits of a block, if they are 20 in a row at most, are in different
\* bytes.
LEMMA Spread ==
  ASSUME NEW g \in Nat, NEW count \in 0..20, NEW base \in Nat,
         NEW m \in 0..239, NEW n \in 0..239, ByteOf(m) = ByteOf(n),
         base + m \in Flipped(g, count), base + n \in Flipped(g, count)
  PROVE  m = n
<1>1. \A a, b \in 0..239 : a < b /\ b < a + 20 => ByteOf(a) # ByteOf(b)
  <2> TAKE a, b \in 0..239
  <2>1. a % 240 = a /\ b % 240 = b
    OBVIOUS
  <2> QED
    BY <2>1, BurstsAreSpread
<1>2. base + m \in g..(g + count - 1) /\ base + n \in g..(g + count - 1)
  BY DEF Flipped
<1>3. m < n + 20 /\ n < m + 20
  BY <1>2
<1>4. ~(m < n) /\ ~(n < m)
  BY <1>1, <1>3
<1> QED
  BY <1>4

\* A complete block with a short burst in it is decoded to what was sent.
LEMMA BlockDone ==
  ASSUME NEW bytes \in [0..17 -> Byte], NEW read \in Datablock, NEW base \in Nat,
         NEW g \in Nat, NEW count \in 0..20,
         BlockAt(read, encode_datablock(bytes), base, 240, Flipped(g, count))
  PROVE  /\ decode_datablock(read).ok
         /\ \A i \in 0..17 : decode_datablock(read).block.data[i] = bytes[i]
<1>1. PICK wrong : wrong = {i \in 0..239 : base + i \in Flipped(g, count)}
  OBVIOUS
<1>2. ASSUME NEW m \in wrong, NEW n \in wrong, ByteOf(m) = ByteOf(n)
      PROVE  m = n
  <2>1. /\ m \in 0..239 /\ base + m \in Flipped(g, count)
        /\ n \in 0..239 /\ base + n \in Flipped(g, count)
    BY <1>1
  <2> QED
    BY <1>2, <2>1, Spread
<1>3. ASSUME NEW n \in 0..239
      PROVE  HasBit(read, n) <=> (HasBit(encode_datablock(bytes), n) <=> n \notin wrong)
  <2>1. n < 240
    OBVIOUS
  <2> QED
    BY <1>1, <2>1 DEF BlockAt
<1> QED
  BY <1>2, <1>3, Decoding

\* With the next bit of the data the receiver goes on reading, or has the message.
LEMMA ReadingNext ==
  ASSUME RestInv, AirInv, NEW first \in Nat, ReadingInv(first),
         NEW left \in NoiseStarts(DataBursts), ReadData(left)
  PROVE  /\ phase' = "data" => \E g \in Nat : ReadingInv(g)'
         /\ ShortBurstCorrected'
<1>1. PICK read : read = Deinterleaved(mob[rd.block], rd.data, scramble(Received(left), reg))
  OBVIOUS
<1>2. PICK k, d : k = rd.block /\ d = rd.data
  OBVIOUS
<1>3. /\ phase = "data" /\ msg \in Messages /\ rd.callsign = 0 /\ d \in 0..239
      /\ rd \in [callsign : 0..63, data : 0..239, block : Nat]
      /\ noise.data \in Nat
  BY <1>2 DEF RestInv, ReadData
<1>4. /\ blocks \in 1..32 /\ blocks <= MaxBlocks /\ MaxBlocks \in Nat
      /\ msg.data \in [0..(blocks - 1) -> [0..17 -> Byte]]
  BY <1>3, MessageTypes
<1>5. /\ reg = RegisterAt(DataRead) /\ mob \in [Blocks -> Datablock]
      /\ \A i \in Blocks : i > k => mob[i] = clear_block
      /\ noise.data <= 20 =>
           errs = {} /\ \A j \in 0..(k - 1) : \A i \in 0..17 : mob[j].data[i] = msg.data[j][i]
  BY <1>2 DEF ReadingInv
<1>6. /\ k \in Nat /\ blocks \in Nat /\ k + 1 <= blocks
      /\ k \in 0..31 /\ k \in 0..(blocks - 1) /\ k \in Blocks
      /\ k + 1 # blocks => k + 1 < blocks /\ k + 1 \in Blocks
  <2>1. rd.block < blocks /\ rd.block \in Nat
    BY <1>3 DEF ReadingInv
  <2>2. blocks \in Nat /\ blocks <= 32 /\ blocks <= MaxBlocks
    BY <1>4
  <2>3. \A n \in Nat, b \in Nat, most \in Nat :
          n < b /\ b <= 32 /\ b <= most =>
            /\ n + 1 <= b /\ n \in 0..31 /\ n \in 0..(b - 1) /\ n \in 0..(most - 1)
            /\ n + 1 # b => n + 1 < b /\ n + 1 \in 0..(most - 1)
    OBVIOUS
  <2>4. k \in Nat /\ k < blocks
    BY <1>2, <2>1
  <2> QED
    BY <1>4, <2>2, <2>3, <2>4 DEF Blocks
<1>7. /\ read \in Datablock
      /\ noise.data <= noise'.data /\ noise'.data \in Nat
      /\ \E g \in Nat :
           /\ BurstAt(g, DataRead + 1, noise')
           /\ BlockAt(read, SentBlock(rd.block), 240 * rd.block, rd.data + 1,
                      Flipped(g, noise'.data))
  BY <1>1, ReadBit
<1>8. PICK g \in Nat :
         /\ BurstAt(g, DataRead + 1, noise')
         /\ BlockAt(read, SentBlock(k), 240 * k, d + 1, Flipped(g, noise'.data))
  BY <1>2, <1>7
<1>9. /\ reg' = NextRegister(reg) /\ msg' = msg
      /\ blocks' = blocks /\ \A i : SentBlock(i)' = SentBlock(i)
  <2>1. msg' = msg /\ reg' = NextRegister(reg)
    BY DEF ReadData
  <2> QED
    BY <2>1 DEF blocks, head, SentBlock
<1>10. reg' = RegisterAt(DataRead + 1)
  <2>1. DataRead = 240 * k + d
    BY <1>2 DEF DataRead
  <2>2. RegisterAt(240 * k + d + 1) = NextRegister(RegisterAt(240 * k + d))
    BY <1>3, <1>6, RegisterNext
  <2> QED
    BY <1>5, <1>9, <2>1, <2>2
<1>11. noise'.data <= 20 => noise.data <= 20
  BY <1>3, <1>7
<1>12. CASE /\ d < 239 /\ phase' = phase /\ mob' = [mob EXCEPT ![k] = read]
            /\ rd' = [rd EXCEPT !.data = @ + 1] /\ errs' = errs
  <2>1. rd' = [callsign |-> 0, data |-> d + 1, block |-> k]
    BY <1>2, <1>3, <1>12
  <2>2. rd'.data = d + 1 /\ rd'.block = k /\ DataRead' = DataRead + 1
    BY <1>2, <1>3, <1>6, <2>1 DEF DataRead
  <2>3. mob' \in [Blocks -> Datablock] /\ mob'[k] = read /\ \A i \in Blocks : i # k => mob'[i] = mob[i]
    BY <1>5, <1>6, <1>7, <1>12
  <2>4. \A i \in Blocks : i > k => mob'[i] = clear_block
    BY <1>5, <1>6, <2>3 DEF Blocks
  <2>5. noise'.data <= 20 =>
          errs' = {} /\ \A j \in 0..(k - 1) : \A i \in 0..17 : mob'[j].data[i] = msg.data[j][i]
    <3>1. \A j \in 0..(k - 1) : j \in Blocks /\ j # k
      BY <1>4, <1>6 DEF Blocks
    <3> QED
      BY <1>5, <1>11, <1>12, <2>3, <3>1
  <2>6. k < blocks'
    BY <1>4, <1>6, <1>9
  <2>7. ReadingInv(g)'
    BY <1>8, <1>9, <1>10, <2>2, <2>3, <2>4, <2>5, <2>6 DEF ReadingInv
  <2>8. ShortBurstCorrected'
    BY <1>3, <1>12 DEF ShortBurstCorrected, Delivered
  <2> QED
    BY <2>7, <2>8
<1>13. PICK result : result = decode_datablock(read)
  OBVIOUS
<1>14. result.block \in Datablock
  BY <1>7, <1>13, DecodedType
<1>15. ASSUME d = 239, noise'.data <= 20
       PROVE  /\ result.ok
              /\ \A i \in 0..17 : result.block.data[i] = msg.data[k][i]
  <2>1. PICK bytes, base, count : bytes = msg.data[k] /\ base = 240 * k /\ count = noise'.data
    OBVIOUS
  <2>2. /\ bytes \in [0..17 -> Byte]
        /\ base \in Nat
        /\ count \in 0..20
    <3>1. msg.data[k] \in [0..17 -> Byte]
      BY <1>4, <1>6
    <3>2. base \in Nat
      BY <1>6, <2>1
    <3>3. count \in 0..20
      BY <1>7, <1>15, <2>1
    <3> QED
      BY <2>1, <3>1, <3>2, <3>3
  <2>3. SentBlock(k) = encode_datablock(bytes)
    BY <2>1 DEF SentBlock
  <2>4. BlockAt(read, encode_datablock(bytes), base, 240, Flipped(g, count))
    BY <1>8, <1>15, <2>1, <2>3
  <2>5. decode_datablock(read).ok
    BY <1>7, <2>2, <2>4, BlockDone
  <2>6. \A i \in 0..17 : decode_datablock(read).block.data[i] = bytes[i]
    BY <1>7, <2>2, <2>4, BlockDone
  <2> QED
    BY <1>13, <2>1, <2>5, <2>6
<1>16. CASE /\ d = 239 /\ k + 1 # blocks /\ phase' = phase
            /\ mob' = [mob EXCEPT ![k] = result.block]
            /\ rd' = [rd EXCEPT !.data = 0, !.block = @ + 1]
            /\ errs' = IF result.ok THEN errs ELSE errs \cup {k}
  <2>1. rd' = [callsign |-> 0, data |-> 0, block |-> k + 1]
    BY <1>2, <1>3, <1>16
  <2>2. rd'.data = 0 /\ rd'.block = k + 1 /\ DataRead' = DataRead + 1
    BY <1>2, <1>3, <1>6, <1>16, <2>1 DEF DataRead
  <2>3. mob' \in [Blocks -> Datablock] /\ mob'[k] = result.block
        /\ \A i \in Blocks : i # k => mob'[i] = mob[i]
    BY <1>5, <1>6, <1>14, <1>16
  <2>4. \A i \in Blocks : i > k => mob'[i] = clear_block
    BY <1>5, <1>6, <2>3 DEF Blocks
  <2>5. /\ k + 1 < blocks'
        /\ k + 1 \in Blocks
        /\ k + 1 > k
    BY <1>6, <1>9, <1>16
  <2>6. noise'.data <= 20 =>
          errs' = {} /\ \A j \in 0..(k + 1 - 1) : \A i \in 0..17 : mob'[j].data[i] = msg.data[j][i]
    <3>1. \A j \in 0..(k + 1 - 1) : j = k \/ (j \in 0..(k - 1) /\ j \in Blocks /\ j # k)
      BY <1>4, <1>6 DEF Blocks
    <3> QED
      BY <1>5, <1>11, <1>15, <1>16, <2>3, <3>1
  <2>7. BlockAt(mob'[k + 1], SentBlock(k + 1), 240 * (k + 1), 0, Flipped(g, noise'.data))
    <3>1. mob'[k + 1] = clear_block
      BY <2>4, <2>5
    <3>2. ASSUME NEW n \in 0..239 PROVE ~HasBit(clear_block, n) /\ ~(n < 0)
      BY Places DEF HasBit, clear_block
    <3> QED
      BY <3>1, <3>2 DEF BlockAt
  <2>8. ReadingInv(g)'
    <3>1. \A i \in Blocks : i > k + 1 => mob'[i] = clear_block
      BY <1>6, <2>4 DEF Blocks
    <3>2. BlockAt(mob'[rd'.block], SentBlock(rd.block)', 240 * rd'.block, rd'.data,
                  Flipped(g, noise'.data))
      <4>1. SentBlock(rd.block)' = SentBlock(k + 1)
        BY <1>9, <2>2 DEF SentBlock
      <4> QED
        BY <2>2, <2>7, <4>1
    <3>3. reg' = RegisterAt(DataRead)' /\ BurstAt(g, DataRead', noise')
      BY <1>8, <1>10, <2>2 DEF RegisterAt
    <3>4. rd'.block < blocks'
      BY <2>2, <2>5
    <3>5. \A i \in Blocks : i > rd'.block => mob'[i] = clear_block
      BY <2>2, <3>1
    <3>6. noise'.data <= 20 =>
            /\ errs' = {}
            /\ \A j \in 0..(rd'.block - 1) : \A i \in 0..17 : mob'[j].data[i] = msg'.data[j][i]
      <4>1. 0..(rd'.block - 1) = 0..(k + 1 - 1)
        <5>1. rd'.block = k + 1
          BY <2>2
        <5> QED
          BY <1>6, <5>1
      <4> QED
        BY <1>9, <2>6, <4>1
    <3> QED
      BY <2>3, <3>2, <3>3, <3>4, <3>5, <3>6 DEF ReadingInv
  <2>9. ShortBurstCorrected'
    BY <1>3, <1>16 DEF ShortBurstCorrected, Delivered
  <2> QED
    BY <2>8, <2>9
<1>17. CASE /\ d = 239 /\ k + 1 = blocks /\ phase' = "idle"
            /\ errs' = IF result.ok THEN errs ELSE errs \cup {k}
            /\ out' = output_message([mob EXCEPT ![k] = result.block], errs')
  <2> SUFFICES ASSUME noise'.data <= 20
               PROVE  \E o \in out' : o.errs = {} /\ o.data = msg.data
    BY <1>9, <1>17 DEF ShortBurstCorrected
  <2>1. PICK decoded : decoded = [mob EXCEPT ![k] = result.block]
    OBVIOUS
  <2>2. errs' = {}
    BY <1>5, <1>11, <1>15, <1>17
  <2>3. \A j \in 0..(blocks - 1) : \A i \in 0..17 : decoded[j].data[i] = msg.data[j][i]
    <3>1. decoded[k] = result.block /\ \A i \in Blocks : i # k => decoded[i] = mob[i]
      BY <1>5, <1>6, <2>1
    <3>2. \A j \in 0..(blocks - 1) : j = k \/ (j \in 0..(k - 1) /\ j \in Blocks /\ j # k)
      BY <1>4, <1>6, <1>17 DEF Blocks
    <3>3. \A j \in 0..(k - 1) : \A i \in 0..17 : mob[j].data[i] = msg.data[j][i]
      BY <1>5, <1>11
    <3>4. \A i \in 0..17 : result.block.data[i] = msg.data[k][i]
      BY <1>15, <1>17
    <3> QED
      BY <3>1, <3>2, <3>3, <3>4
  <2>4. [j \in 0..(blocks - 1) |-> [i \in 0..17 |-> decoded[j].data[i]]] = msg.data
    <3>1. ASSUME NEW j \in 0..(blocks - 1)
          PROVE  [i \in 0..17 |-> decoded[j].data[i]] = msg.data[j]
      <4>1. msg.data[j] \in [0..17 -> Byte]
        BY <1>4
      <4> QED
        BY <2>3, <4>1
    <3>2. msg.data = [j \in 0..(blocks - 1) |-> msg.data[j]]
      BY <1>4
    <3> QED
      BY <3>1, <3>2
  <2>5. PICK o : o = [control |-> msg.control, callsign |-> callsign, data |-> msg.data, errs |-> {}]
    OBVIOUS
  <2>6. out' = {o}
    <3>1. output_message(decoded, {})
            = {[control |-> msg.control, callsign |-> callsign,
                data |-> [j \in 0..(blocks - 1) |-> [i \in 0..17 |-> decoded[j].data[i]]],
                errs |-> {}]}
      BY DEF output_message
    <3> QED
      BY <1>17, <2>1, <2>2, <2>4, <2>5, <3>1
  <2> QED
    BY <2>5, <2>6
<1> QED
  BY <1>1, <1>2, <1>12, <1>13, <1>16, <1>17, ReadDataCases

\* Every step keeps the invariant of the data.
LEMMA LinkNext ==
  ASSUME LinkInv, [Next]_vars
  PROVE  LinkInv'
<1>1. PublishedInv /\ RestInv /\ AirInv
  BY DEF LinkInv
<1>2. PublishedInv' /\ RestInv' /\ AirInv'
  BY <1>1, PublishedNext, RestNext, AirNext
<1> DEFINE Goal == (phase' = "data" => \E g \in Nat : ReadingInv(g)') /\ ShortBurstCorrected'
<1>3. ASSUME NEW m \in Messages, handle_msg(m) PROVE Goal
  BY <1>3 DEF handle_msg, ShortBurstCorrected, Delivered
<1>4. ASSUME Transmit PROVE Goal
  BY <1>4 DEF Transmit, ShortBurstCorrected, Delivered
<1>5. ASSUME NEW left \in NoiseStarts(CallsignBursts), ReadCallsign(left) PROVE Goal
  <2>1. phase' \in {"callsign", "data"}
    BY <1>5 DEF ReadCallsign
  <2>2. ShortBurstCorrected'
    BY <2>1 DEF ShortBurstCorrected, Delivered
  <2>3. ASSUME phase' = "data" PROVE ReadingInv(0)'
    BY <1>1, <1>5, <2>3, ReadingBegins
  <2> QED
    BY <2>2, <2>3
<1>6. ASSUME NEW left \in NoiseStarts(DataBursts), ReadData(left) PROVE Goal
  <2>1. phase = "data"
    BY <1>6 DEF ReadData
  <2>2. PICK first \in Nat : ReadingInv(first)
    BY <2>1 DEF LinkInv
  <2> QED
    BY <1>1, <1>6, <2>2, ReadingNext
<1>7. ASSUME UNCHANGED vars PROVE Goal
  <2>1. ShortBurstCorrected'
    BY <1>7 DEF vars, LinkInv, ShortBurstCorrected, Delivered
  <2>2. ASSUME phase' = "data" PROVE \E g \in Nat : ReadingInv(g)'
    <3>1. PICK first \in Nat : ReadingInv(first)
      BY <1>7, <2>2 DEF vars, LinkInv
    <3>2. ReadingInv(first)'
      BY <1>7, <3>1 DEF vars, ReadingInv, DataRead, blocks, head, SentBlock
    <3> QED
      BY <3>2
  <2> QED
    BY <2>1, <2>2
<1>8. Goal
  BY <1>3, <1>4, <1>5, <1>6, <1>7 DEF Next
<1> QED
  BY <1>2, <1>8 DEF LinkInv

\* Nothing is on its way initially.
LEMMA LinkInit == Init => LinkInv
<1> SUFFICES ASSUME Init PROVE LinkInv
  OBVIOUS
<1>1. phase = "idle" /\ msg = NoMessage /\ noise = Quiet /\ mob = clear_blocks
      /\ rd = [callsign |-> 0, data |-> 0, block |-> 0]
  BY DEF Init
<1>2. PublishedInv /\ AirInv /\ ShortBurstCorrected
  BY <1>1 DEF PublishedInv, AirInv, ShortBurstCorrected, Delivered
<1>3. RestInv
  BY <1>1 DEF RestInv, Quiet
<1> QED
  BY <1>1, <1>2, <1>3 DEF LinkInv

\* A disturbance of twenty bits in a row, the bytes of a datablock, at most does
\* no harm to any message, wherever in the data it begins.
THEOREM BurstsCorrected == Spec => []ShortBurstCorrected
<1>1. LinkInv /\ [Next]_vars => LinkInv'
  BY LinkNext
<1>2. LinkInv => ShortBurstCorrected
  BY DEF LinkInv
<1> QED
  BY <1>1, <1>2, LinkInit, PTL DEF Spec

------------------------------------------------------------------------------
(* The checksum of the callsign                                             *)

LEMMA XorIn == ASSUME NEW a, NEW b, NEW i PROVE i \in Xor(a, b) <=> ~(i \in a <=> i \in b)
  BY DEF Xor, SymDiff

LEMMA XorRegister ==
  ASSUME NEW a \in Register, NEW b \in Register
  PROVE  Xor(a, b) \in Register
  BY DEF Xor, SymDiff, Register

LEMMA CrcShiftBits ==
  ASSUME NEW r \in Register
  PROVE  /\ CrcShift(r) \in Register
         /\ \A i \in 0..15 : i \in CrcShift(r) <=>
              IF i \in {0, 5, 12} THEN ~(i - 1 \in r <=> 15 \in r) ELSE i - 1 \in r
<1> DEFINE moved == ShiftLeft(r, 1) \ {16}
<1>1. \A i \in r : i \in 0..15
  BY DEF Register
<1>2. \A i \in 0..15 : i \in moved <=> i - 1 \in r
  <2> TAKE i \in 0..15
  <2>1. i \in moved => i - 1 \in r
    BY <1>1 DEF ShiftLeft
  <2>2. i - 1 \in r => i \in moved
    <3>1. (i - 1) + 1 = i /\ i # 16
      OBVIOUS
    <3> QED
      BY <3>1 DEF ShiftLeft
  <2> QED
    BY <2>1, <2>2
<1>3. moved \in Register
  <2> SUFFICES ASSUME NEW i \in moved PROVE i \in 0..15
    BY DEF Register
  <2> QED
    BY <1>1 DEF ShiftLeft
<1>4. CrcShift(r) = IF 15 \in r THEN Xor(moved, {12, 5, 0}) ELSE moved
  BY DEF CrcShift, GEN_POLY_CS
<1> HIDE DEF moved
<1>5. {12, 5, 0} \in Register
  BY DEF Register
<1>6. CASE 15 \in r
  <2>1. CrcShift(r) \in Register
    BY <1>3, <1>4, <1>5, <1>6, XorRegister
  <2>2. \A i : i \in CrcShift(r) <=> ~(i \in moved <=> i \in {12, 5, 0})
    BY <1>4, <1>6, XorIn
  <2> QED
    BY <1>2, <1>6, <2>1, <2>2
<1>7. CASE 15 \notin r
  <2>1. -1 \notin r
    BY <1>1
  <2> QED
    BY <1>2, <1>3, <1>4, <1>7
<1> QED
  BY <1>6, <1>7

\* Two registers with the same bits are the same.
LEMMA SameRegister ==
  ASSUME NEW a \in Register, NEW b \in Register, \A i \in 0..15 : i \in a <=> i \in b
  PROVE  a = b
  BY DEF Register

\* A shift is linear, and only the empty register becomes empty.
LEMMA CrcShiftLinear ==
  ASSUME NEW a \in Register, NEW b \in Register
  PROVE  CrcShift(Xor(a, b)) = Xor(CrcShift(a), CrcShift(b))
<1> DEFINE x == Xor(a, b)
           y == CrcShift(x)
           z == Xor(CrcShift(a), CrcShift(b))
<1>1. x \in Register /\ \A i : i \in x <=> ~(i \in a <=> i \in b)
  BY XorRegister, XorIn
<1>2. /\ CrcShift(a) \in Register /\ CrcShift(b) \in Register
      /\ \A i \in 0..15 : i \in CrcShift(a) <=>
              IF i \in {0, 5, 12} THEN ~(i - 1 \in a <=> 15 \in a) ELSE i - 1 \in a
      /\ \A i \in 0..15 : i \in CrcShift(b) <=>
              IF i \in {0, 5, 12} THEN ~(i - 1 \in b <=> 15 \in b) ELSE i - 1 \in b
  BY CrcShiftBits
<1>3. z \in Register /\ \A i : i \in z <=> ~(i \in CrcShift(a) <=> i \in CrcShift(b))
  BY <1>2, XorRegister, XorIn
<1> HIDE DEF x, z
<1>4. /\ y \in Register
      /\ \A i \in 0..15 : i \in y <=>
              IF i \in {0, 5, 12} THEN ~(i - 1 \in x <=> 15 \in x) ELSE i - 1 \in x
  BY <1>1, CrcShiftBits
<1> HIDE DEF y
<1>5. \A i \in 0..15 : i \in y <=> i \in z
  BY <1>1, <1>2, <1>3, <1>4
<1>6. y = z
  BY <1>3, <1>4, <1>5, SameRegister
<1> QED
  BY <1>6 DEF x, y, z

LEMMA CrcShiftKernel ==
  ASSUME NEW r \in Register, CrcShift(r) = {}
  PROVE  r = {}
<1>1. \A i \in 0..15 : ~(IF i \in {0, 5, 12} THEN ~(i - 1 \in r <=> 15 \in r) ELSE i - 1 \in r)
  BY CrcShiftBits
<1>2. 15 \notin r
  <2>1. -1 \notin r
    BY DEF Register
  <2> QED
    BY <1>1, <2>1
<1>3. \A i \in 0..15 : i - 1 \notin r
  BY <1>1, <1>2
<1>4. \A j \in 0..14 : j \notin r
  <2> TAKE j \in 0..14
  <2>1. PICK i : i = j + 1
    OBVIOUS
  <2>2. i \in 0..15 /\ i - 1 = j
    BY <2>1
  <2> QED
    BY <1>3, <2>2
<1>5. \A i \in 0..15 : i \in r <=> i \in {}
  BY <1>2, <1>4
<1> QED
  BY <1>5, SameRegister DEF Register

------------------------------------------------------------------------------
(* Many shifts                                                              *)

\* The register n bits on, for n up to N.
Shifts(g, N) ==
  \A n \in 0..N : g[n] = [r \in Register |-> IF n = 0 THEN r ELSE g[n - 1][CrcShift(r)]]

LEMMA ShiftsExist == \A N \in Nat : \E g : Shifts(g, N)
<1> DEFINE T == {N \in Nat : \E g : Shifts(g, N)}
<1>1. 0 \in T
  <2> DEFINE g == [n \in {0} |-> [r \in Register |-> r]]
  <2>1. Shifts(g, 0)
    BY DEF Shifts
  <2> QED
    BY <2>1
<1>2. ASSUME NEW N \in Nat, N \in T PROVE N + 1 \in T
  <2>1. PICK g : Shifts(g, N)
    BY <1>2
  <2> DEFINE next(n) == [r \in Register |-> IF n = 0 THEN r ELSE g[n - 1][CrcShift(r)]]
             h == [n \in 0..(N + 1) |-> next(n)]
  <2>2. ASSUME NEW n \in 0..N PROVE next(n) = g[n]
    BY <2>1 DEF Shifts
  <2>3. ASSUME NEW n \in 0..(N + 1)
        PROVE  h[n] = [r \in Register |-> IF n = 0 THEN r ELSE h[n - 1][CrcShift(r)]]
    <3>1. h[n] = next(n)
      OBVIOUS
    <3>2. n # 0 => h[n - 1] = next(n - 1) /\ n - 1 \in 0..N
      OBVIOUS
    <3>3. n # 0 => h[n - 1] = g[n - 1]
      <4> HIDE DEF h, next
      <4> QED
        BY <2>2, <3>2
    <3> HIDE DEF h
    <3> QED
      BY <3>1, <3>3
  <2>4. Shifts(h, N + 1)
    <3> HIDE DEF h
    <3> QED
      BY <2>3 DEF Shifts
  <2> QED
    BY <2>4
<1> HIDE DEF T
<1>3. Nat \subseteq T
  BY <1>1, <1>2, SetInduction
<1> QED
  BY <1>3 DEF T

\* A callsign has 64 bits, and a bit of it enters the register at place 8 or above.
Longest == 80
ShiftsOf == CHOOSE g : Shifts(g, Longest)
After(n, r) == ShiftsOf[n][r]

LEMMA AfterSteps ==
  /\ \A r \in Register : After(0, r) = r
  /\ \A n \in 0..79 : \A r \in Register : After(n + 1, r) = After(n, CrcShift(r))
<1>1. Shifts(ShiftsOf, 80)
  <2>1. \E g : Shifts(g, 80)
    BY ShiftsExist
  <2> QED
    BY <2>1 DEF ShiftsOf, Longest
<1>2. \A n \in 0..80 : \A r \in Register :
        ShiftsOf[n][r] = IF n = 0 THEN r ELSE ShiftsOf[n - 1][CrcShift(r)]
  BY <1>1 DEF Shifts
<1>3. ASSUME NEW n \in 0..79, NEW r \in Register PROVE After(n + 1, r) = After(n, CrcShift(r))
  <2>1. PICK next : next = n + 1
    OBVIOUS
  <2>2. next \in 0..80 /\ next # 0 /\ next - 1 = n
    BY <2>1
  <2>3. ShiftsOf[next][r] = ShiftsOf[n][CrcShift(r)]
    BY <1>2, <2>2
  <2> QED
    BY <2>1, <2>3 DEF After
<1>4. ASSUME NEW r \in Register PROVE After(0, r) = r
  <2>1. 0 \in 0..80
    OBVIOUS
  <2> QED
    BY <1>2, <2>1 DEF After
<1> QED
  BY <1>3, <1>4

\* n shifts are linear, too, end with a shift, and make only the empty register empty.
LEMMA AfterFacts ==
  ASSUME NEW n \in 0..80
  PROVE  /\ \A r \in Register : After(n, r) \in Register
         /\ \A a, b \in Register : After(n, Xor(a, b)) = Xor(After(n, a), After(n, b))
         /\ \A r \in Register : After(n, r) = {} => r = {}
         /\ n < 80 => \A r \in Register : After(n + 1, r) = CrcShift(After(n, r))
<1> DEFINE Fact(k) ==
             /\ \A r \in Register : After(k, r) \in Register
             /\ \A a, b \in Register : After(k, Xor(a, b)) = Xor(After(k, a), After(k, b))
             /\ \A r \in Register : After(k, r) = {} => r = {}
             /\ k < 80 => \A r \in Register : After(k + 1, r) = CrcShift(After(k, r))
           T == {k \in Nat : k \in 0..80 => Fact(k)}
<1>1. 0 \in T
  <2>1. \A r \in Register : After(0, r) = r
    BY AfterSteps
  <2>2. \A a, b \in Register : Xor(a, b) \in Register
    BY XorRegister
  <2>3. ASSUME NEW r \in Register PROVE After(0 + 1, r) = CrcShift(After(0, r))
    <3>1. 0 \in 0..79
      OBVIOUS
    <3>2. After(0 + 1, r) = After(0, CrcShift(r))
      BY <3>1, AfterSteps
    <3>3. CrcShift(r) \in Register
      BY CrcShiftBits
    <3> QED
      BY <2>1, <3>2, <3>3
  <2> QED
    BY <2>1, <2>2, <2>3
<1>2. ASSUME NEW k \in Nat, k \in T PROVE k + 1 \in T
  <2> SUFFICES ASSUME k + 1 \in 0..80 PROVE Fact(k + 1)
    OBVIOUS
  <2>1. k \in 0..79 /\ k \in 0..80 /\ k < 80
    OBVIOUS
  <2>2. Fact(k)
    BY <1>2, <2>1
  <2>3. PICK next : next = k + 1
    OBVIOUS
  <2>4. \A r \in Register : CrcShift(r) \in Register /\ After(next, r) = After(k, CrcShift(r))
    BY <2>1, <2>3, AfterSteps, CrcShiftBits
  <2>5. \A r \in Register : After(next, r) \in Register
    BY <2>2, <2>4
  <2>6. ASSUME NEW a \in Register, NEW b \in Register
        PROVE  After(next, Xor(a, b)) = Xor(After(next, a), After(next, b))
    <3>1. Xor(a, b) \in Register /\ CrcShift(Xor(a, b)) = Xor(CrcShift(a), CrcShift(b))
      BY XorRegister, CrcShiftLinear
    <3>2. After(next, Xor(a, b)) = After(k, Xor(CrcShift(a), CrcShift(b)))
      BY <2>4, <3>1
    <3>3. CrcShift(a) \in Register /\ CrcShift(b) \in Register
      BY <2>4
    <3>4. After(k, Xor(CrcShift(a), CrcShift(b)))
            = Xor(After(k, CrcShift(a)), After(k, CrcShift(b)))
      BY <2>2, <3>3
    <3> QED
      BY <2>4, <3>2, <3>4
  <2>7. ASSUME NEW r \in Register, After(next, r) = {} PROVE r = {}
    <3>1. After(k, CrcShift(r)) = {} /\ CrcShift(r) \in Register
      BY <2>4, <2>7
    <3> QED
      BY <2>2, <3>1, CrcShiftKernel
  <2>8. ASSUME next < 80, NEW r \in Register PROVE After(next + 1, r) = CrcShift(After(next, r))
    <3>1. next \in 0..79
      BY <2>3, <2>8
    <3>2. After(next + 1, r) = After(next, CrcShift(r))
      BY <3>1, AfterSteps
    <3>3. CrcShift(r) \in Register
      BY <2>4
    <3>4. After(next, CrcShift(r)) = CrcShift(After(k, CrcShift(r)))
      BY <2>1, <2>2, <2>3, <3>3
    <3> QED
      BY <2>4, <3>2, <3>4
  <2> QED
    BY <2>3, <2>5, <2>6, <2>7, <2>8
<1> HIDE DEF T
<1>3. n \in T
  BY <1>1, <1>2, SetInduction
<1> QED
  BY <1>3 DEF T

LEMMA AfterSum ==
  ASSUME NEW b \in 0..80, NEW a \in 0..80, a + b <= 80, NEW r \in Register
  PROVE  After(a, After(b, r)) = After(a + b, r)
<1> DEFINE T == {k \in Nat : k + b <= 80 => After(k, After(b, r)) = After(k + b, r)}
<1>1. PICK x : x = After(b, r)
  OBVIOUS
<1>2. x \in Register
  BY <1>1, AfterFacts
<1>3. 0 \in T
  <2>1. After(0, x) = x
    BY <1>2, AfterSteps
  <2>2. 0 + b = b
    OBVIOUS
  <2> QED
    BY <1>1, <2>1, <2>2
<1>4. ASSUME NEW k \in Nat, k \in T PROVE k + 1 \in T
  <2> SUFFICES ASSUME k + 1 + b <= 80 PROVE After(k + 1, x) = After(k + 1 + b, r)
    BY <1>1
  <2>1. k \in 0..80 /\ k < 80 /\ k + b <= 80
    OBVIOUS
  <2>2. PICK m : m = k + b
    OBVIOUS
  <2>3. m \in 0..80 /\ m < 80 /\ k + 1 + b = m + 1
    BY <2>2
  <2>4. After(k, x) = After(m, r)
    BY <1>1, <1>4, <2>1, <2>2
  <2>5. After(k + 1, x) = CrcShift(After(k, x))
    BY <1>2, <2>1, AfterFacts
  <2>6. After(m + 1, r) = CrcShift(After(m, r))
    BY <2>3, AfterFacts
  <2> QED
    BY <2>3, <2>4, <2>5, <2>6
<1> HIDE DEF T
<1>5. a \in T
  BY <1>3, <1>4, SetInduction
<1> QED
  BY <1>5 DEF T

\* As long as no bit is lost, n shifts move the bits n places up.
LEMMA AfterMoves ==
  ASSUME NEW n \in 0..15, NEW r \in SUBSET (0..(15 - n))
  PROVE  /\ r \in Register /\ After(n, r) \in Register
         /\ \A i \in 0..15 : i \in After(n, r) <=> i - n \in r
<1> DEFINE Moved(k) == \A q \in SUBSET (0..(15 - k)) : \A i \in 0..15 :
                         i \in After(k, q) <=> i - k \in q
           T == {k \in Nat : k \in 0..15 => Moved(k)}
<1>1. 0 \in T
  <2>1. \A q \in SUBSET (0..15) : After(0, q) = q
    BY AfterSteps DEF Register
  <2> QED
    BY <2>1
<1>2. ASSUME NEW k \in Nat, k \in T PROVE k + 1 \in T
  <2> SUFFICES ASSUME k + 1 \in 0..15, NEW q \in SUBSET (0..(15 - (k + 1))), NEW i \in 0..15
               PROVE  i \in After(k + 1, q) <=> i - (k + 1) \in q
    OBVIOUS
  <2>1. k \in 0..15 /\ k \in 0..80 /\ k < 80 /\ q \in SUBSET (0..(15 - k)) /\ q \in Register
    BY DEF Register
  <2>2. PICK x : x = After(k, q)
    OBVIOUS
  <2>3. x \in Register /\ After(k + 1, q) = CrcShift(x)
    BY <2>1, <2>2, AfterFacts
  <2>4. \A j \in 0..15 : j \in x <=> j - k \in q
    BY <1>2, <2>1, <2>2
  <2>5. 15 \notin x /\ -1 \notin x
    <3>1. 15 - k \notin q
      OBVIOUS
    <3> QED
      BY <2>3, <2>4, <3>1 DEF Register
  <2>6. i \in CrcShift(x) <=> i - 1 \in x
    BY <2>3, <2>5, CrcShiftBits
  <2>7. i - 1 \in x <=> i - (k + 1) \in q
    <3>1. CASE i = 0
      <4>1. i - (k + 1) \notin q
        BY <3>1
      <4> QED
        BY <2>5, <3>1, <4>1
    <3>2. CASE i # 0
      <4>1. PICK j : j = i - 1
        OBVIOUS
      <4>2. j \in 0..15 /\ i - (k + 1) = j - k
        BY <3>2, <4>1
      <4> QED
        BY <2>4, <4>1, <4>2
    <3> QED
      BY <3>1, <3>2
  <2> QED
    BY <2>3, <2>6, <2>7
<1> HIDE DEF T
<1>3. n \in T
  BY <1>1, <1>2, SetInduction
<1>4. r \in Register /\ n \in 0..80
  BY DEF Register
<1>5. After(n, r) \in Register
  BY <1>4, AfterFacts
<1> QED
  BY <1>3, <1>4, <1>5 DEF T

\* The inner loop of calc_cs_crc is eight shifts.
LEMMA ShiftedAfter ==
  ASSUME NEW n \in 0..8, NEW r \in Register
  PROVE  Shifted[n][r] = After(n, r)
<1>1. PICK g : Shifts(g, 8)
  BY ShiftsExist
<1> DEFINE f == [k \in 0..8 |-> g[k]]
<1>2. f = [k \in 0..8 |-> [x \in Register |-> IF k = 0 THEN x ELSE f[k - 1][CrcShift(x)]]]
  <2>1. ASSUME NEW k \in 0..8
        PROVE  g[k] = [x \in Register |-> IF k = 0 THEN x ELSE f[k - 1][CrcShift(x)]]
    <3>1. k # 0 => f[k - 1] = g[k - 1]
      OBVIOUS
    <3> HIDE DEF f
    <3> QED
      BY <1>1, <3>1 DEF Shifts
  <2> QED
    BY <2>1
<1> HIDE DEF f
<1>3. Shifted = [k \in 0..8 |-> [x \in Register |->
                   IF k = 0 THEN x ELSE Shifted[k - 1][CrcShift(x)]]]
  BY <1>2 DEF Shifted
<1> DEFINE T == {k \in Nat : k \in 0..8 => \A x \in Register : Shifted[k][x] = After(k, x)}
<1>4. 0 \in T
  <2>1. \A x \in Register : Shifted[0][x] = x
    BY <1>3
  <2> QED
    BY <2>1, AfterSteps
<1>5. ASSUME NEW k \in Nat, k \in T PROVE k + 1 \in T
  <2> SUFFICES ASSUME k + 1 \in 0..8, NEW x \in Register PROVE Shifted[k + 1][x] = After(k + 1, x)
    OBVIOUS
  <2>1. PICK m : m = k + 1
    OBVIOUS
  <2>2. m \in 0..8 /\ m # 0 /\ m - 1 = k /\ k \in 0..8 /\ k \in 0..79
    BY <2>1
  <2>3. Shifted[m][x] = Shifted[k][CrcShift(x)]
    BY <1>3, <2>2
  <2>4. CrcShift(x) \in Register /\ After(k + 1, x) = After(k, CrcShift(x))
    BY <2>2, CrcShiftBits, AfterSteps
  <2>5. Shifted[k][CrcShift(x)] = After(k, CrcShift(x))
    BY <1>5, <2>2, <2>4
  <2> QED
    BY <2>1, <2>3, <2>4, <2>5
<1> HIDE DEF T
<1>6. n \in T
  BY <1>4, <1>5, SetInduction
<1> QED
  BY <1>6 DEF T

------------------------------------------------------------------------------
(* Whole callsigns                                                          *)

\* The register of the CRC after each byte, up to the N-th.
CsCrc(g, bytes, N) ==
  /\ g[0] = {}
  /\ \A k \in 0..N : g[k] \in Register
  /\ \A k \in 0..(N - 1) : g[k + 1] = After(8, Xor(g[k], ShiftLeft(bytes[k], 8)))

LEMMA HighBits ==
  ASSUME NEW b \in Byte
  PROVE  /\ ShiftLeft(b, 8) \in Register
         /\ \A i : i \in ShiftLeft(b, 8) <=> i \in 8..15 /\ i - 8 \in b
<1>1. \A i \in b : i \in 0..7 /\ i + 8 \in 8..15 /\ i + 8 \in 0..15
  BY DEF Byte
<1>2. \A i \in 8..15 : (i - 8) + 8 = i
  OBVIOUS
<1>3. ASSUME NEW i, i \in ShiftLeft(b, 8) PROVE i \in 8..15 /\ i - 8 \in b
  <2>1. PICK j \in b : i = j + 8
    BY <1>3 DEF ShiftLeft
  <2>2. j \in 0..7 /\ i - 8 = j
    BY <1>1, <2>1
  <2> QED
    BY <1>1, <2>1, <2>2
<1>4. ASSUME NEW i \in 8..15, i - 8 \in b PROVE i \in ShiftLeft(b, 8)
  BY <1>2, <1>4 DEF ShiftLeft
<1> QED
  BY <1>1, <1>3, <1>4 DEF ShiftLeft, Register

CsStep(bytes, k, r) == Shifted[8][Xor(r, ShiftLeft(bytes[k - 1], 8))]
CsSteps(g, bytes, N) == \A k \in 0..N : g[k] = IF k = 0 THEN {} ELSE CsStep(bytes, k, g[k - 1])

LEMMA CsStepsExist == \A bytes : \A N \in Nat : \E g : CsSteps(g, bytes, N)
<1> SUFFICES ASSUME NEW bytes PROVE \A N \in Nat : \E g : CsSteps(g, bytes, N)
  OBVIOUS
<1> DEFINE T == {N \in Nat : \E g : CsSteps(g, bytes, N)}
<1>1. 0 \in T
  <2> DEFINE g == [k \in {0} |-> {}]
  <2>1. CsSteps(g, bytes, 0)
    BY DEF CsSteps
  <2> QED
    BY <2>1
<1>2. ASSUME NEW N \in Nat, N \in T PROVE N + 1 \in T
  <2>1. PICK g : CsSteps(g, bytes, N)
    BY <1>2
  <2> DEFINE next(k) == IF k = 0 THEN {} ELSE CsStep(bytes, k, g[k - 1])
             h == [k \in 0..(N + 1) |-> next(k)]
  <2>2. ASSUME NEW k \in 0..N PROVE next(k) = g[k]
    BY <2>1 DEF CsSteps
  <2>3. ASSUME NEW k \in 0..(N + 1) PROVE h[k] = IF k = 0 THEN {} ELSE CsStep(bytes, k, h[k - 1])
    <3>1. h[k] = next(k)
      OBVIOUS
    <3>2. k # 0 => h[k - 1] = next(k - 1) /\ k - 1 \in 0..N
      OBVIOUS
    <3>3. k # 0 => h[k - 1] = g[k - 1]
      <4> HIDE DEF h, next
      <4> QED
        BY <2>2, <3>2
    <3> HIDE DEF h
    <3> QED
      BY <3>1, <3>3
  <2>4. CsSteps(h, bytes, N + 1)
    <3> HIDE DEF h
    <3> QED
      BY <2>3 DEF CsSteps
  <2> QED
    BY <2>4
<1> HIDE DEF T
<1>3. Nat \subseteq T
  BY <1>1, <1>2, SetInduction
<1> QED
  BY <1>3 DEF T

LEMMA CsCrcExists ==
  ASSUME NEW N \in 0..8, NEW bytes, \A k \in 0..(N - 1) : bytes[k] \in Byte
  PROVE  \E g : CsCrc(g, bytes, N) /\ calc_cs_crc(bytes, N) = g[N]
<1>1. PICK g : CsSteps(g, bytes, N)
  BY CsStepsExist
<1> DEFINE f == [k \in 0..N |-> g[k]]
<1>2. f = [k \in 0..N |-> IF k = 0 THEN {} ELSE CsStep(bytes, k, f[k - 1])]
  <2>1. ASSUME NEW k \in 0..N PROVE g[k] = IF k = 0 THEN {} ELSE CsStep(bytes, k, f[k - 1])
    <3>1. k # 0 => f[k - 1] = g[k - 1]
      OBVIOUS
    <3> HIDE DEF f
    <3> QED
      BY <1>1, <3>1 DEF CsSteps
  <2> QED
    BY <2>1
<1> HIDE DEF f
<1>3. PICK h : (h = [k \in 0..N |-> IF k = 0 THEN {}
                       ELSE Shifted[8][Xor(h[k - 1], ShiftLeft(bytes[k - 1], 8))]])
               /\ calc_cs_crc(bytes, N) = h[N]
  <2>1. \E h : h = [k \in 0..N |-> IF k = 0 THEN {}
                       ELSE Shifted[8][Xor(h[k - 1], ShiftLeft(bytes[k - 1], 8))]]
    BY <1>2 DEF CsStep
  <2> QED
    BY <2>1, Zenon DEF calc_cs_crc
<1>4. \A k \in 0..N : h[k] = IF k = 0 THEN {} ELSE Shifted[8][Xor(h[k - 1], ShiftLeft(bytes[k - 1], 8))]
  BY <1>3
<1> DEFINE Next_(k) == h[k + 1] = After(8, Xor(h[k], ShiftLeft(bytes[k], 8)))
           T == {k \in Nat : k \in 0..N => h[k] \in Register}
<1>5. ASSUME NEW k \in 0..(N - 1), h[k] \in Register
      PROVE  Next_(k) /\ h[k + 1] \in Register
  <2>1. PICK m : m = k + 1
    OBVIOUS
  <2>2. m \in 0..N /\ m # 0 /\ m - 1 = k
    BY <2>1
  <2>3. h[m] = Shifted[8][Xor(h[k], ShiftLeft(bytes[k], 8))]
    BY <1>4, <2>2
  <2>4. ShiftLeft(bytes[k], 8) \in Register
    BY HighBits
  <2>5. PICK x : x = Xor(h[k], ShiftLeft(bytes[k], 8))
    OBVIOUS
  <2>6. x \in Register
    BY <1>5, <2>4, <2>5, XorRegister
  <2>7. Shifted[8][x] = After(8, x) /\ After(8, x) \in Register
    BY <2>6, ShiftedAfter, AfterFacts
  <2> QED
    BY <2>1, <2>3, <2>5, <2>7
<1>6. 0 \in T
  BY <1>4 DEF Register
<1>7. ASSUME NEW k \in Nat, k \in T PROVE k + 1 \in T
  <2> SUFFICES ASSUME k + 1 \in 0..N PROVE h[k + 1] \in Register
    OBVIOUS
  <2>1. k \in 0..(N - 1) /\ k \in 0..N
    OBVIOUS
  <2> QED
    BY <1>5, <1>7, <2>1
<1> HIDE DEF T
<1>8. \A k \in 0..N : h[k] \in Register
  BY <1>6, <1>7, SetInduction DEF T
<1>9. \A k \in 0..(N - 1) : Next_(k)
  BY <1>5, <1>8
<1>10. h[0] = {}
  BY <1>4
<1> QED
  BY <1>3, <1>8, <1>9, <1>10 DEF CsCrc

\* The recursion has one solution, so that any will do.
LEMMA CsCrcOnly ==
  ASSUME NEW N \in 0..8, NEW bytes, NEW g, CsCrc(g, bytes, N), NEW h, CsCrc(h, bytes, N)
  PROVE  g[N] = h[N]
<1> DEFINE T == {k \in Nat : k \in 0..N => g[k] = h[k]}
<1>1. 0 \in T
  BY DEF CsCrc
<1>2. ASSUME NEW k \in Nat, k \in T PROVE k + 1 \in T
  <2> SUFFICES ASSUME k + 1 \in 0..N PROVE g[k + 1] = h[k + 1]
    OBVIOUS
  <2>1. k \in 0..(N - 1) /\ k \in 0..N
    OBVIOUS
  <2>2. g[k + 1] = After(8, Xor(g[k], ShiftLeft(bytes[k], 8)))
    BY <2>1 DEF CsCrc
  <2>3. h[k + 1] = After(8, Xor(h[k], ShiftLeft(bytes[k], 8)))
    BY <2>1 DEF CsCrc
  <2> QED
    BY <1>2, <2>1, <2>2, <2>3
<1> HIDE DEF T
<1>3. N \in T
  BY <1>1, <1>2, SetInduction
<1> QED
  BY <1>3 DEF T

\* calc_cs_crc is what any such function ends with.
LEMMA CsCrcValue ==
  ASSUME NEW N \in 0..8, NEW bytes, \A k \in 0..(N - 1) : bytes[k] \in Byte,
         NEW g, CsCrc(g, bytes, N)
  PROVE  calc_cs_crc(bytes, N) = g[N]
<1>1. PICK h : CsCrc(h, bytes, N) /\ calc_cs_crc(bytes, N) = h[N]
  BY CsCrcExists
<1> QED
  BY <1>1, CsCrcOnly

\* The CRC of a callsign is linear.
LEMMA CsCrcLinear ==
  ASSUME NEW a \in Callsign, NEW b \in Callsign, NEW x \in Callsign,
         \A k \in 0..7 : x[k] = Xor(a[k], b[k])
  PROVE  calc_cs_crc(x, 8) = Xor(calc_cs_crc(a, 8), calc_cs_crc(b, 8))
<1>1. \A k \in 0..(8 - 1) : a[k] \in Byte /\ b[k] \in Byte /\ x[k] \in Byte
  BY DEF Callsign
<1>2. PICK f : CsCrc(f, a, 8) /\ calc_cs_crc(a, 8) = f[8]
  BY <1>1, CsCrcExists
<1>3. PICK g : CsCrc(g, b, 8) /\ calc_cs_crc(b, 8) = g[8]
  BY <1>1, CsCrcExists
<1> DEFINE h == [k \in 0..8 |-> Xor(f[k], g[k])]
<1>4. CsCrc(h, x, 8)
  <2>1. h[0] = {}
    BY <1>2, <1>3 DEF CsCrc, Xor, SymDiff
  <2>2. \A k \in 0..8 : f[k] \in Register /\ g[k] \in Register /\ h[k] = Xor(f[k], g[k])
    BY <1>2, <1>3 DEF CsCrc
  <2> HIDE DEF h
  <2>3. \A k \in 0..8 : h[k] \in Register
    BY <2>2, XorRegister
  <2>4. ASSUME NEW k \in 0..(8 - 1)
        PROVE  h[k + 1] = After(8, Xor(h[k], ShiftLeft(x[k], 8)))
    <3>1. PICK m : m = k + 1
      OBVIOUS
    <3>2. m \in 0..8 /\ k \in 0..8
      BY <3>1
    <3>3. PICK p, q, r : p = ShiftLeft(a[k], 8) /\ q = ShiftLeft(b[k], 8) /\ r = ShiftLeft(x[k], 8)
      OBVIOUS
    <3>4. p \in Register /\ q \in Register /\ r \in Register /\ r = Xor(p, q)
      <4>1. p \in Register /\ q \in Register /\ r \in Register
        BY <1>1, <3>3, HighBits
      <4>2. /\ \A i : i \in p <=> i \in 8..15 /\ i - 8 \in a[k]
            /\ \A i : i \in q <=> i \in 8..15 /\ i - 8 \in b[k]
            /\ \A i : i \in r <=> i \in 8..15 /\ i - 8 \in x[k]
        BY <1>1, <3>3, HighBits
      <4>3. \A i : i \in x[k] <=> ~(i \in a[k] <=> i \in b[k])
        BY XorIn
      <4>4. \A i : i \in r <=> i \in Xor(p, q)
        BY <4>2, <4>3, XorIn
      <4> QED
        BY <4>1, <4>4
    <3>5. f[m] = After(8, Xor(f[k], p)) /\ g[m] = After(8, Xor(g[k], q))
      BY <1>2, <1>3, <3>1, <3>3 DEF CsCrc
    <3>6. h[m] = Xor(f[m], g[m]) /\ h[k] = Xor(f[k], g[k])
      BY <2>2, <3>2
    <3>7. PICK y, z : y = Xor(f[k], p) /\ z = Xor(g[k], q)
      OBVIOUS
    <3>8. y \in Register /\ z \in Register
      BY <2>2, <3>2, <3>4, <3>7, XorRegister
    <3>9. After(8, Xor(y, z)) = Xor(After(8, y), After(8, z))
      BY <3>8, AfterFacts
    <3>10. Xor(h[k], r) = Xor(y, z)
      BY <3>4, <3>6, <3>7 DEF Xor, SymDiff
    <3> QED
      BY <3>1, <3>3, <3>5, <3>6, <3>7, <3>9, <3>10
  <2> QED
    BY <2>1, <2>3, <2>4 DEF CsCrc
<1>5. calc_cs_crc(x, 8) = h[8]
  BY <1>1, <1>4, CsCrcValue
<1> QED
  BY <1>2, <1>3, <1>5

LEMMA AfterEmpty == \A n \in 0..80 : After(n, {}) = {}
<1> TAKE n \in 0..80
<1>1. {} \in Register /\ Xor({}, {}) = {}
  BY DEF Register, Xor, SymDiff
<1>2. After(n, Xor({}, {})) = Xor(After(n, {}), After(n, {}))
  BY <1>1, AfterFacts
<1>3. \A x : Xor(x, x) = {}
  BY DEF Xor, SymDiff
<1> QED
  BY <1>1, <1>2, <1>3

------------------------------------------------------------------------------
(* Single bits                                                              *)

\* The syndrome of bit n of a callsign: its CRC, were all other bits zero.
Unit(n) == [k \in 0..7 |-> IF k = n \div 8 THEN {n % 8} ELSE {}]
Exponent(n) == 8 * (8 - n \div 8) + (n % 8)
Syndrome(n) == After(Exponent(n), {8})

LEMMA UnitCrc ==
  ASSUME NEW n \in 0..63
  PROVE  Unit(n) \in Callsign /\ calc_cs_crc(Unit(n), 8) = Syndrome(n)
<1> DEFINE u == Unit(n)
<1>1. PICK b \in 0..7, j \in 0..7 : b = n \div 8 /\ j = n % 8
  OBVIOUS
<1>2. u = [k \in 0..7 |-> IF k = b THEN {j} ELSE {}]
  BY <1>1 DEF Unit
<1>3. \A k \in 0..7 : u[k] \in Byte
  BY <1>2 DEF Byte
<1>4. u \in Callsign
  BY <1>2 DEF Callsign, Byte
<1> HIDE DEF u
<1>5. {8} \in Register /\ {} \in Register
  BY DEF Register
<1> DEFINE v(k) == IF k <= b THEN {} ELSE After(8 * (k - b) + j, {8})
           g == [k \in 0..8 |-> v(k)]
<1>6. ASSUME NEW k \in 0..8 PROVE v(k) \in Register
  <2>1. CASE k <= b
    BY <1>5, <2>1
  <2>2. CASE k > b
    <3>1. PICK e : e = 8 * (k - b) + j
      OBVIOUS
    <3>2. e \in 0..80
      BY <2>2, <3>1
    <3> QED
      BY <1>5, <2>2, <3>1, <3>2, AfterFacts
  <2> QED
    BY <2>1, <2>2
<1>7. \A x \in Register : Xor(x, {}) = x /\ Xor({}, x) = x
  BY DEF Xor, SymDiff
<1>8. ShiftLeft({}, 8) = {} /\ ShiftLeft({j}, 8) = {8 + j}
  BY DEF ShiftLeft
<1>9. ASSUME NEW k \in 0..7
      PROVE  v(k + 1) = After(8, Xor(v(k), ShiftLeft(u[k], 8)))
  <2>1. CASE k < b
    <3>1. v(k + 1) = {} /\ v(k) = {} /\ u[k] = {}
      BY <1>2, <2>1
    <3>2. After(8, {}) = {}
      BY AfterEmpty
    <3> QED
      BY <1>5, <1>7, <1>8, <3>1, <3>2
  <2>2. CASE k = b
    <3>1. PICK e : e = 8 + j
      OBVIOUS
    <3>2. v(k) = {} /\ u[k] = {j} /\ v(k + 1) = After(e, {8})
      BY <1>2, <2>2, <3>1
    <3>3. e \in 8..15 /\ {e} \in Register
      BY <3>1 DEF Register
    <3>4. After(j, {8}) = {e}
      <4>1. j \in 0..15 /\ {8} \in SUBSET (0..(15 - j))
        OBVIOUS
      <4>2. After(j, {8}) \in Register /\ \A i \in 0..15 : i \in After(j, {8}) <=> i - j \in {8}
        BY <4>1, AfterMoves
      <4>3. \A i \in 0..15 : i - j \in {8} <=> i \in {e}
        BY <3>1
      <4> QED
        BY <3>3, <4>2, <4>3, SameRegister
    <3>5. After(8, After(j, {8})) = After(8 + j, {8})
      <4>1. j \in 0..80 /\ 8 \in 0..80 /\ 8 + j <= 80
        OBVIOUS
      <4> QED
        BY <1>5, <4>1, AfterSum
    <3>6. After(8, {e}) = v(k + 1)
      BY <3>1, <3>2, <3>4, <3>5
    <3>7. Xor(v(k), ShiftLeft(u[k], 8)) = {e}
      BY <1>7, <1>8, <3>1, <3>2, <3>3
    <3> QED
      BY <3>6, <3>7
  <2>3. CASE k > b
    <3>1. PICK d, e : d = 8 * (k - b) + j /\ e = 8 * (k + 1 - b) + j
      OBVIOUS
    <3>2. d \in 0..80 /\ e = 8 + d /\ 8 + d <= 80 /\ k + 1 > b
      BY <2>3, <3>1
    <3>3. v(k) = After(d, {8}) /\ u[k] = {} /\ v(k + 1) = After(e, {8})
      BY <1>2, <2>3, <3>1, <3>2
    <3>4. After(8, After(d, {8})) = After(8 + d, {8})
      BY <1>5, <3>2, AfterSum
    <3>5. After(d, {8}) \in Register
      BY <1>5, <3>2, AfterFacts
    <3> QED
      BY <1>7, <1>8, <3>2, <3>3, <3>4, <3>5
  <2> QED
    BY <2>1, <2>2, <2>3
<1>10. v(0) = {} /\ v(8) = Syndrome(n)
  <2>1. ~(8 <= b) /\ 0 <= b
    BY <1>1
  <2>2. v(0) = {} /\ v(8) = After(8 * (8 - b) + j, {8})
    BY <2>1
  <2>3. Syndrome(n) = After(8 * (8 - b) + j, {8})
    <3>1. Exponent(n) = 8 * (8 - b) + j
      BY <1>1 DEF Exponent
    <3> QED
      BY <3>1 DEF Syndrome
  <2> QED
    BY <2>2, <2>3
<1> HIDE DEF v
<1>11. \A k \in 0..8 : g[k] = v(k)
  OBVIOUS
<1> HIDE DEF g
<1>12. CsCrc(g, u, 8)
  <2>1. \A k \in 0..8 : g[k] \in Register
    BY <1>6, <1>11
  <2>2. ASSUME NEW k \in 0..(8 - 1) PROVE g[k + 1] = After(8, Xor(g[k], ShiftLeft(u[k], 8)))
    <3>1. PICK m : m = k + 1
      OBVIOUS
    <3>2. m \in 0..8 /\ k \in 0..8 /\ k \in 0..7
      BY <3>1
    <3> QED
      BY <1>9, <1>11, <3>1, <3>2
  <2>3. g[0] = {}
    BY <1>10, <1>11
  <2> QED
    BY <2>1, <2>2, <2>3 DEF CsCrc
<1>13. calc_cs_crc(u, 8) = g[8]
  <2>1. \A k \in 0..(8 - 1) : u[k] \in Byte
    BY <1>3
  <2> QED
    BY <1>12, <2>1, CsCrcValue
<1> QED
  BY <1>4, <1>10, <1>11, <1>13 DEF u


\* r moves up until its highest bit is lost, and becomes q with the next shift.
Follows(r, k, q) ==
  /\ r \in SUBSET (0..(15 - k)) /\ 15 - k \in r
  /\ q \in Register /\ q # {8}
  /\ \A i \in 0..15 : i \in q <=>
       IF i \in {0, 5, 12} THEN i - 1 - k \notin r ELSE i - 1 - k \in r

\* One bit becomes q with n shifts, and was not itself since.
Reaches(n, q) == After(n, {8}) = q /\ \A j \in 1..n : After(j, {8}) # {8}

LEMMA Segment ==
  ASSUME NEW n \in 0..62, NEW k \in 0..7, NEW r, NEW q, Reaches(n, r), Follows(r, k, q)
  PROVE  Reaches(n + k + 1, q)
<1>1. {8} \in Register /\ r \in Register
  BY DEF Register, Follows
<1>2. ASSUME NEW j \in 0..k
      PROVE  /\ After(n + j, {8}) \in Register
             /\ \A i \in 0..15 : i \in After(n + j, {8}) <=> i - j \in r
  <2>1. j \in 0..80 /\ n \in 0..80 /\ j + n <= 80 /\ n + j = j + n
    OBVIOUS
  <2>2. After(j, After(n, {8})) = After(j + n, {8})
    BY <1>1, <2>1, AfterSum
  <2>3. After(n + j, {8}) = After(j, r)
    BY <2>1, <2>2 DEF Reaches
  <2>4. j \in 0..15 /\ r \in SUBSET (0..(15 - j))
    BY DEF Follows
  <2> QED
    BY <2>3, <2>4, AfterMoves
<1>3. ASSUME NEW j \in 1..k PROVE After(n + j, {8}) # {8}
  <2>1. PICK i : i = 15 - k + j
    OBVIOUS
  <2>2. i \in 9..15 /\ i \in 0..15 /\ i - j = 15 - k /\ j \in 0..k
    BY <2>1
  <2>3. i \in After(n + j, {8})
    BY <1>2, <2>2 DEF Follows
  <2> QED
    BY <2>2, <2>3
<1>4. After(n + k + 1, {8}) = q
  <2>1. PICK m, x : m = n + k /\ x = After(m, {8})
    OBVIOUS
  <2>2. m \in 0..80 /\ m < 80 /\ k \in 0..k
    BY <2>1
  <2>3. x \in Register /\ \A i \in 0..15 : i \in x <=> i - k \in r
    BY <1>2, <2>1, <2>2
  <2>4. After(m + 1, {8}) = CrcShift(x)
    BY <1>1, <2>1, <2>2, AfterFacts
  <2>5. 15 \in x
    BY <2>3 DEF Follows
  <2>6. /\ CrcShift(x) \in Register
        /\ \A i \in 0..15 : i \in CrcShift(x) <=>
             IF i \in {0, 5, 12} THEN ~(i - 1 \in x <=> 15 \in x) ELSE i - 1 \in x
    BY <2>3, CrcShiftBits
  <2>7. ASSUME NEW i \in 0..15 PROVE i - 1 \in x <=> i - 1 - k \in r
    <3>1. CASE i = 0
      <4>1. i - 1 \notin 0..15 /\ i - 1 - k \notin 0..(15 - k)
        BY <3>1
      <4> QED
        BY <2>3, <4>1 DEF Register, Follows
    <3>2. CASE i # 0
      <4>1. i - 1 \in 0..15
        BY <3>2
      <4> QED
        BY <2>3, <4>1
    <3> QED
      BY <3>1, <3>2
  <2>8. \A i \in 0..15 : i \in CrcShift(x) <=> i \in q
    BY <2>5, <2>6, <2>7 DEF Follows
  <2>9. CrcShift(x) = q
    BY <2>6, <2>8, SameRegister DEF Follows
  <2> QED
    BY <2>1, <2>4, <2>9
<1>5. ASSUME NEW j \in 1..(n + k + 1) PROVE After(j, {8}) # {8}
  <2>1. CASE j \in 1..n
    BY <2>1 DEF Reaches
  <2>2. CASE j \in (n + 1)..(n + k)
    <3>1. PICK i : i = j - n
      OBVIOUS
    <3>2. i \in 1..k /\ n + i = j
      BY <2>2, <3>1
    <3> QED
      BY <1>3, <3>2
  <2>3. CASE j = n + k + 1
    BY <1>4, <2>3 DEF Follows
  <2> QED
    BY <2>1, <2>2, <2>3
<1> QED
  BY <1>4, <1>5 DEF Reaches

\* What the polynomial makes of one bit: 63 shifts do not bring it back.
LEMMA NoCycle == \A p \in 1..63 : After(p, {8}) # {8}
<1>0. Reaches(0, {8})
  <2>1. After(0, {8}) = {8}
    BY AfterSteps DEF Register
  <2> QED
    BY <2>1 DEF Reaches
<1>1. Reaches(8, {0, 5, 12})
  <2>1. Follows({8}, 7, {0, 5, 12})
    BY DEF Follows, Register
  <2> QED
    BY <1>0, <2>1, Segment, 0 + 7 + 1 = 8
<1>2. Reaches(12, {0, 4, 5, 9, 12})
  <2>1. Follows({0, 5, 12}, 3, {0, 4, 5, 9, 12})
    BY DEF Follows, Register
  <2> QED
    BY <1>1, <2>1, Segment, 8 + 3 + 1 = 12
<1>3. Reaches(16, {0, 4, 5, 8, 9, 12, 13})
  <2>1. Follows({0, 4, 5, 9, 12}, 3, {0, 4, 5, 8, 9, 12, 13})
    BY DEF Follows, Register
  <2> QED
    BY <1>2, <2>1, Segment, 12 + 3 + 1 = 16
<1>4. Reaches(19, {0, 3, 5, 7, 8, 11, 15})
  <2>1. Follows({0, 4, 5, 8, 9, 12, 13}, 2, {0, 3, 5, 7, 8, 11, 15})
    BY DEF Follows, Register
  <2> QED
    BY <1>3, <2>1, Segment, 16 + 2 + 1 = 19
<1>5. Reaches(20, {0, 1, 4, 5, 6, 8, 9})
  <2>1. Follows({0, 3, 5, 7, 8, 11, 15}, 0, {0, 1, 4, 5, 6, 8, 9})
    BY DEF Follows, Register
  <2> QED
    BY <1>4, <2>1, Segment, 19 + 0 + 1 = 20
<1>6. Reaches(27, {0, 5, 7, 8, 11, 13, 15})
  <2>1. Follows({0, 1, 4, 5, 6, 8, 9}, 6, {0, 5, 7, 8, 11, 13, 15})
    BY DEF Follows, Register
  <2> QED
    BY <1>5, <2>1, Segment, 20 + 6 + 1 = 27
<1>7. Reaches(28, {0, 1, 5, 6, 8, 9, 14})
  <2>1. Follows({0, 5, 7, 8, 11, 13, 15}, 0, {0, 1, 5, 6, 8, 9, 14})
    BY DEF Follows, Register
  <2> QED
    BY <1>6, <2>1, Segment, 27 + 0 + 1 = 28
<1>8. Reaches(30, {0, 2, 3, 5, 7, 8, 10, 11, 12})
  <2>1. Follows({0, 1, 5, 6, 8, 9, 14}, 1, {0, 2, 3, 5, 7, 8, 10, 11, 12})
    BY DEF Follows, Register
  <2> QED
    BY <1>7, <2>1, Segment, 28 + 1 + 1 = 30
<1>9. Reaches(34, {0, 4, 5, 6, 7, 9, 11, 14, 15})
  <2>1. Follows({0, 2, 3, 5, 7, 8, 10, 11, 12}, 3, {0, 4, 5, 6, 7, 9, 11, 14, 15})
    BY DEF Follows, Register
  <2> QED
    BY <1>8, <2>1, Segment, 30 + 3 + 1 = 34
<1>10. Reaches(35, {0, 1, 6, 7, 8, 10, 15})
  <2>1. Follows({0, 4, 5, 6, 7, 9, 11, 14, 15}, 0, {0, 1, 6, 7, 8, 10, 15})
    BY DEF Follows, Register
  <2> QED
    BY <1>9, <2>1, Segment, 34 + 0 + 1 = 35
<1>11. Reaches(36, {0, 1, 2, 5, 7, 8, 9, 11, 12})
  <2>1. Follows({0, 1, 6, 7, 8, 10, 15}, 0, {0, 1, 2, 5, 7, 8, 9, 11, 12})
    BY DEF Follows, Register
  <2> QED
    BY <1>10, <2>1, Segment, 35 + 0 + 1 = 36
<1>12. Reaches(40, {0, 4, 6, 9, 11, 13, 15})
  <2>1. Follows({0, 1, 2, 5, 7, 8, 9, 11, 12}, 3, {0, 4, 6, 9, 11, 13, 15})
    BY DEF Follows, Register
  <2> QED
    BY <1>11, <2>1, Segment, 36 + 3 + 1 = 40
<1>13. Reaches(41, {0, 1, 7, 10, 14})
  <2>1. Follows({0, 4, 6, 9, 11, 13, 15}, 0, {0, 1, 7, 10, 14})
    BY DEF Follows, Register
  <2> QED
    BY <1>12, <2>1, Segment, 40 + 0 + 1 = 41
<1>14. Reaches(43, {0, 2, 3, 5, 9})
  <2>1. Follows({0, 1, 7, 10, 14}, 1, {0, 2, 3, 5, 9})
    BY DEF Follows, Register
  <2> QED
    BY <1>13, <2>1, Segment, 41 + 1 + 1 = 43
<1>15. Reaches(50, {0, 5, 7, 9, 10})
  <2>1. Follows({0, 2, 3, 5, 9}, 6, {0, 5, 7, 9, 10})
    BY DEF Follows, Register
  <2> QED
    BY <1>14, <2>1, Segment, 43 + 6 + 1 = 50
<1>16. Reaches(56, {0, 5, 6, 11, 12, 13, 15})
  <2>1. Follows({0, 5, 7, 9, 10}, 5, {0, 5, 6, 11, 12, 13, 15})
    BY DEF Follows, Register
  <2> QED
    BY <1>15, <2>1, Segment, 50 + 5 + 1 = 56
<1>17. Reaches(57, {0, 1, 5, 6, 7, 13, 14})
  <2>1. Follows({0, 5, 6, 11, 12, 13, 15}, 0, {0, 1, 5, 6, 7, 13, 14})
    BY DEF Follows, Register
  <2> QED
    BY <1>16, <2>1, Segment, 56 + 0 + 1 = 57
<1>18. Reaches(59, {0, 2, 3, 5, 7, 8, 9, 12, 15})
  <2>1. Follows({0, 1, 5, 6, 7, 13, 14}, 1, {0, 2, 3, 5, 7, 8, 9, 12, 15})
    BY DEF Follows, Register
  <2> QED
    BY <1>17, <2>1, Segment, 57 + 1 + 1 = 59
<1>19. Reaches(60, {0, 1, 3, 4, 5, 6, 8, 9, 10, 12, 13})
  <2>1. Follows({0, 2, 3, 5, 7, 8, 9, 12, 15}, 0, {0, 1, 3, 4, 5, 6, 8, 9, 10, 12, 13})
    BY DEF Follows, Register
  <2> QED
    BY <1>18, <2>1, Segment, 59 + 0 + 1 = 60
<1>20. Reaches(63, {0, 3, 4, 5, 6, 7, 8, 9, 11, 13, 15})
  <2>1. Follows({0, 1, 3, 4, 5, 6, 8, 9, 10, 12, 13}, 2, {0, 3, 4, 5, 6, 7, 8, 9, 11, 13, 15})
    BY DEF Follows, Register
  <2> QED
    BY <1>19, <2>1, Segment, 60 + 2 + 1 = 63
<1> QED
  BY <1>20 DEF Reaches

\* The syndromes of the bits of a callsign differ, and none is empty.
LEMMA SyndromesDiffer ==
  ASSUME NEW n \in 0..63, NEW i \in 0..63
  PROVE  /\ Syndrome(n) \in Register /\ Syndrome(n) # {}
         /\ Syndrome(n) = Syndrome(i) => n = i
<1>0. ASSUME NEW m \in 0..63
      PROVE  \E b \in 0..7 : \E j \in 0..7 : m = 8 * b + j /\ Exponent(m) = 8 * (8 - b) + j
  <2>1. PICK b \in 0..7, j \in 0..7 : b = m \div 8 /\ j = m % 8
    OBVIOUS
  <2>2. m = 8 * b + j
    BY <2>1
  <2>3. Exponent(m) = 8 * (8 - b) + j
    BY <2>1 DEF Exponent
  <2> QED
    BY <2>2, <2>3
<1>1. \A m \in 0..63 : Exponent(m) \in 8..71
  <2> TAKE m \in 0..63
  <2>1. PICK b \in 0..7, j \in 0..7 : Exponent(m) = 8 * (8 - b) + j
    BY <1>0
  <2> QED
    BY <2>1
<1>2. {8} \in Register
  BY DEF Register
<1>3. \A m \in 0..63 : Syndrome(m) \in Register /\ Syndrome(m) # {}
  <2> TAKE m \in 0..63
  <2>1. PICK e \in 8..71 : e = Exponent(m)
    BY <1>1
  <2>2. e \in 0..80
    OBVIOUS
  <2> QED
    BY <1>2, <2>1, <2>2, AfterFacts DEF Syndrome
<1>4. ASSUME NEW a \in 8..71, NEW b \in 8..71, a < b PROVE After(a, {8}) # After(b, {8})
  <2>1. PICK p : p = b - a
    OBVIOUS
  <2>2. p \in 1..63 /\ p \in 0..80 /\ a \in 0..80 /\ a + p = b /\ a + p <= 80
    BY <1>4, <2>1
  <2>3. PICK x : x = After(p, {8})
    OBVIOUS
  <2>4. x \in Register /\ x # {8}
    BY <1>2, <2>2, <2>3, NoCycle, AfterFacts
  <2>5. After(a, x) = After(b, {8})
    BY <1>2, <2>2, <2>3, AfterSum
  <2>6. After(a, Xor({8}, x)) = Xor(After(a, {8}), After(a, x)) /\ Xor({8}, x) \in Register
    BY <1>2, <2>2, <2>4, AfterFacts, XorRegister
  <2>7. Xor({8}, x) # {}
    BY <2>4 DEF Xor, SymDiff
  <2>8. After(a, Xor({8}, x)) # {}
    BY <2>2, <2>6, <2>7, AfterFacts
  <2> QED
    BY <2>5, <2>6, <2>8 DEF Xor, SymDiff
<1>5. ASSUME Syndrome(n) = Syndrome(i) PROVE n = i
  <2>1. Exponent(n) = Exponent(i)
    <3>1. PICK a \in 8..71, b \in 8..71 : a = Exponent(n) /\ b = Exponent(i)
      BY <1>1
    <3>2. After(a, {8}) = After(b, {8})
      BY <1>5, <3>1 DEF Syndrome
    <3>3. ~(a < b) /\ ~(b < a)
      BY <1>4, <3>2
    <3> QED
      BY <3>1, <3>3
  <2>2. PICK b \in 0..7, j \in 0..7 : n = 8 * b + j /\ Exponent(n) = 8 * (8 - b) + j
    BY <1>0
  <2>3. PICK d \in 0..7, k \in 0..7 : i = 8 * d + k /\ Exponent(i) = 8 * (8 - d) + k
    BY <1>0
  <2> QED
    BY <2>1, <2>2, <2>3
<1> QED
  BY <1>3, <1>5

\* Callsigns with the same bytes are the same.
LEMMA SameCallsign ==
  ASSUME NEW a \in Callsign, NEW b \in Callsign, \A k \in 0..7 : a[k] = b[k]
  PROVE  a = b
  BY DEF Callsign

LEMMA FlipBit ==
  ASSUME NEW c \in Callsign, NEW n \in 0..63
  PROVE  /\ BIT_FLIP(c, {n}) \in Callsign
         /\ \A k \in 0..7 : BIT_FLIP(c, {n})[k] = Xor(c[k], Unit(n)[k])
         /\ calc_cs_crc(BIT_FLIP(c, {n}), 8) = Xor(calc_cs_crc(c, 8), Syndrome(n))
<1>1. ASSUME NEW k \in 0..7
      PROVE  {x % 8 : x \in {y \in {n} : y \div 8 = k}} = Unit(n)[k]
  BY DEF Unit
<1>2. \A k \in 0..7 : BIT_FLIP(c, {n})[k] = Xor(c[k], Unit(n)[k])
  BY <1>1 DEF BIT_FLIP
<1>3. Unit(n) \in Callsign /\ calc_cs_crc(Unit(n), 8) = Syndrome(n)
  BY UnitCrc
<1>4. \A k \in 0..7 : Xor(c[k], Unit(n)[k]) \in Byte
  BY <1>3 DEF Callsign, Byte, Xor, SymDiff
<1>5. BIT_FLIP(c, {n}) \in Callsign
  <2>1. BIT_FLIP(c, {n}) = [k \in 0..7 |-> BIT_FLIP(c, {n})[k]]
    BY DEF BIT_FLIP
  <2> QED
    BY <1>2, <1>4, <2>1 DEF Callsign
<1> QED
  BY <1>2, <1>3, <1>5, CsCrcLinear

LEMMA CrcOfCallsign == ASSUME NEW c \in Callsign PROVE calc_cs_crc(c, 8) \in Register
<1>1. \A k \in 0..(8 - 1) : c[k] \in Byte
  BY DEF Callsign
<1>2. PICK g : CsCrc(g, c, 8) /\ calc_cs_crc(c, 8) = g[8]
  BY <1>1, CsCrcExists
<1> QED
  BY <1>2 DEF CsCrc

\* decode_callsign leaves an intact callsign alone, and restores one of which
\* a single bit was flipped.
LEMMA CallsignRestored ==
  ASSUME NEW c \in Callsign, Intact(c), NEW n \in 0..63
  PROVE  decode_callsign(c) = c /\ decode_callsign(BIT_FLIP(c, {n})) = c
<1>1. decode_callsign(c) = c
  BY DEF decode_callsign
<1> DEFINE d == BIT_FLIP(c, {n})
<1>2. d \in Callsign /\ calc_cs_crc(d, 8) = Syndrome(n)
  <2>1. calc_cs_crc(c, 8) = {}
    BY DEF Intact
  <2>2. Xor({}, Syndrome(n)) = Syndrome(n)
    BY DEF Xor, SymDiff
  <2> QED
    BY <2>1, <2>2, FlipBit
<1>3. \A k \in 0..7 : d[k] = Xor(c[k], Unit(n)[k])
  BY FlipBit
<1> HIDE DEF d
<1>4. ~Intact(d)
  BY <1>2, SyndromesDiffer DEF Intact
<1>5. ASSUME NEW i \in 0..63 PROVE Intact(BIT_FLIP(d, {i})) <=> i = n
  <2>1. calc_cs_crc(BIT_FLIP(d, {i}), 8) = Xor(Syndrome(n), Syndrome(i))
    BY <1>2, FlipBit
  <2>2. Xor(Syndrome(n), Syndrome(i)) = {} <=> Syndrome(n) = Syndrome(i)
    BY DEF Xor, SymDiff
  <2>3. Syndrome(n) = Syndrome(i) <=> i = n
    BY SyndromesDiffer
  <2> QED
    BY <2>1, <2>2, <2>3 DEF Intact
<1>6. {i \in CallsignBit : Intact(BIT_FLIP(d, {i}))} = {n}
  <2>1. CallsignBit = 0..63
    BY DEF CallsignBit
  <2>2. \A i : i \in {x \in 0..63 : Intact(BIT_FLIP(d, {x}))} <=> i \in {n}
    BY <1>5
  <2> QED
    BY <2>1, <2>2
<1>7. Min({n}) = n
  BY DEF Min
<1>8. decode_callsign(d) = BIT_FLIP(d, {n})
  BY <1>4, <1>6, <1>7 DEF decode_callsign
<1>9. BIT_FLIP(d, {n}) = c
  <2>1. BIT_FLIP(d, {n}) \in Callsign /\ \A k \in 0..7 : BIT_FLIP(d, {n})[k] = Xor(d[k], Unit(n)[k])
    BY <1>2, FlipBit
  <2>2. \A x, y : Xor(Xor(x, y), y) = x
    BY DEF Xor, SymDiff
  <2>3. \A k \in 0..7 : BIT_FLIP(d, {n})[k] = c[k]
    BY <1>3, <2>1, <2>2
  <2> QED
    BY <2>1, <2>3, SameCallsign
<1> QED
  BY <1>1, <1>8, <1>9 DEF d

\* What is sent has a CRC that matches.
LEMMA EncodedIntact ==
  ASSUME NEW name \in [0..5 -> Byte]
  PROVE  encode_callsign(name) \in Callsign /\ Intact(encode_callsign(name))
<1>1. \A k \in 0..(6 - 1) : name[k] \in Byte
  OBVIOUS
<1>2. PICK g : CsCrc(g, name, 6) /\ calc_cs_crc(name, 6) = g[6]
  BY <1>1, CsCrcExists
<1> DEFINE c == encode_callsign(name)
           crc == calc_cs_crc(name, 6)
           hi == HighByte(crc)
           lo == LowByte(crc)
<1>3. crc \in Register /\ crc = g[6]
  BY <1>2 DEF CsCrc
<1>4. c = [i \in 0..7 |-> IF i < 6 THEN name[i] ELSE IF i = 6 THEN hi ELSE lo]
  BY DEF encode_callsign
<1> HIDE DEF c, crc
<1>5. hi \in Byte /\ lo \in Byte
  BY DEF HighByte, LowByte, Byte
<1>6. \A i : i \in hi <=> i \in 0..7 /\ i + 8 \in crc
  <2>1. \A i \in 0..7 : i \in ShiftRight(crc, 8) <=> i + 8 \in crc
    BY <1>3 DEF ShiftRight, Register
  <2> QED
    BY <2>1 DEF HighByte
<1>7. \A i : i \in lo <=> i \in 0..7 /\ i \in crc
  BY DEF LowByte
<1> HIDE DEF hi, lo
<1>8. \A k \in 0..7 : c[k] \in Byte
  BY <1>4, <1>5
<1>9. c \in Callsign
  BY <1>4, <1>5 DEF Callsign
<1> DEFINE h == [k \in 0..8 |-> IF k <= 6 THEN g[k] ELSE IF k = 7 THEN ShiftLeft(lo, 8) ELSE {}]
<1>10. After(8, Xor(crc, ShiftLeft(hi, 8))) = ShiftLeft(lo, 8)
  <2>1. ShiftLeft(hi, 8) \in Register /\ \A i : i \in ShiftLeft(hi, 8) <=> i \in 8..15 /\ i - 8 \in hi
    BY <1>5, HighBits
  <2>2. \A i \in 8..15 : i - 8 \in hi <=> i \in crc
    BY <1>6
  <2>3. Xor(crc, ShiftLeft(hi, 8)) = lo
    <3>1. \A i : i \in Xor(crc, ShiftLeft(hi, 8)) <=> i \in lo
      BY <1>3, <1>7, <2>1, <2>2, XorIn DEF Register
    <3> QED
      BY <3>1
  <2>4. lo \in SUBSET (0..(15 - 8)) /\ 8 \in 0..15
    BY <1>5 DEF Byte
  <2>5. After(8, lo) \in Register /\ \A i \in 0..15 : i \in After(8, lo) <=> i - 8 \in lo
    BY <2>4, AfterMoves
  <2>6. ShiftLeft(lo, 8) \in Register /\ \A i : i \in ShiftLeft(lo, 8) <=> i \in 8..15 /\ i - 8 \in lo
    BY <1>5, HighBits
  <2>7. \A i \in 0..15 : i - 8 \in lo => i \in 8..15
    BY <1>5 DEF Byte
  <2>8. After(8, lo) = ShiftLeft(lo, 8)
    BY <2>5, <2>6, <2>7, SameRegister
  <2> QED
    BY <2>3, <2>8
<1>11. After(8, Xor(ShiftLeft(lo, 8), ShiftLeft(lo, 8))) = {}
  <2>1. \A x : Xor(x, x) = {}
    BY DEF Xor, SymDiff
  <2> QED
    BY <2>1, AfterEmpty
<1>12. CsCrc(h, c, 8)
  <2>1. /\ \A k \in 0..6 : h[k] = g[k]
        /\ h[7] = ShiftLeft(lo, 8) /\ h[8] = {}
    OBVIOUS
  <2> HIDE DEF h
  <2>2. h[0] = {}
    BY <1>2, <2>1 DEF CsCrc
  <2>3. \A k \in 0..8 : h[k] \in Register
    <3>1. \A k \in 0..6 : h[k] \in Register
      BY <1>2, <2>1 DEF CsCrc
    <3>2. h[7] \in Register /\ h[8] \in Register
      BY <1>5, <2>1, HighBits DEF Register
    <3> QED
      BY <3>1, <3>2
  <2>4. ASSUME NEW k \in 0..(8 - 1) PROVE h[k + 1] = After(8, Xor(h[k], ShiftLeft(c[k], 8)))
    <3>1. CASE k < 6
      <4>1. PICK m : m = k + 1
        OBVIOUS
      <4>2. m \in 0..6 /\ k \in 0..6 /\ k \in 0..(6 - 1)
        BY <3>1, <4>1
      <4>3. c[k] = name[k]
        BY <1>4, <3>1
      <4>4. g[k + 1] = After(8, Xor(g[k], ShiftLeft(name[k], 8)))
        BY <1>2, <4>2 DEF CsCrc
      <4> QED
        BY <2>1, <4>1, <4>2, <4>3, <4>4
    <3>2. CASE k = 6
      <4>1. c[6] = hi /\ h[6] = crc /\ 6 + 1 = 7
        BY <1>3, <1>4, <2>1
      <4> QED
        BY <1>10, <2>1, <3>2, <4>1
    <3>3. CASE k = 7
      <4>1. c[7] = lo /\ 7 + 1 = 8
        BY <1>4
      <4> QED
        BY <1>11, <2>1, <3>3, <4>1
    <3> QED
      BY <3>1, <3>2, <3>3
  <2> QED
    BY <2>2, <2>3, <2>4 DEF CsCrc
<1>13. calc_cs_crc(c, 8) = {}
  <2>1. \A k \in 0..(8 - 1) : c[k] \in Byte
    BY <1>8
  <2>2. calc_cs_crc(c, 8) = h[8]
    BY <1>12, <2>1, CsCrcValue
  <2> QED
    BY <2>2
<1> QED
  BY <1>9, <1>13 DEF c, Intact

------------------------------------------------------------------------------
(* Reception of the callsign                                                *)

SentCallsign == encode_callsign(msg.callsign)

\* Bit q on the air of a callsign, most significant bits first.
BitOnAir(c, q) == 7 - (q % 8) \in c[q \div 8]

\* What was read when bit q of the callsign is the next: whole bytes of it, and
\* the bits of byte q \div 8 read so far, in its lowest places.
ReadUpTo(c, q, heard) ==
  /\ c \in Callsign
  /\ \A i \in 0..7 : \A t \in 0..7 : t \in c[i] <=>
       \/ i < q \div 8 /\ t \in heard[i]
       \/ i = q \div 8 /\ t < q % 8 /\ t + 8 - (q % 8) \in heard[i]

\* The callsign a receiver hears that was disturbed before bit q: as it was sent, or
\* with one of the bits before q flipped.
Heard(c, q, heard, flipped) ==
  \/ flipped = 0 /\ heard = c
  \/ /\ flipped = 1
     /\ \E i \in 0..7 : \E t \in 0..7 : 8 * i + (7 - t) < q /\ heard = BIT_FLIP(c, {8 * i + t})

CallsignInv ==
  /\ phase \in {"idle", "published"} => callsign = NoCallsign
  /\ phase # "idle" => out = {}
  /\ phase = "published" => noise.callsign = 0
  /\ phase = "callsign" =>
       \A q \in 0..63 : air[1 + q] = IF BitOnAir(SentCallsign, q) THEN 1 ELSE 0
  /\ phase = "callsign" /\ noise.callsign <= 1 =>
       \E heard \in Callsign :
         /\ Heard(SentCallsign, rd.callsign, heard, noise.callsign)
         /\ ReadUpTo(callsign, rd.callsign, heard)
  /\ phase = "data" /\ noise.callsign <= 1 => callsign = SentCallsign
  /\ CallsignCorrected

LEMMA SentIntact ==
  ASSUME msg \in Messages
  PROVE  SentCallsign \in Callsign /\ Intact(SentCallsign)
<1>1. msg.callsign \in [0..5 -> Byte]
  BY MessagesAssumption DEF IsMessage
<1> QED
  BY <1>1, EncodedIntact DEF SentCallsign

\* Transmit puts the bits of the callsign on the air.
LEMMA CallsignSent ==
  ASSUME PublishedInv, phase = "published", NEW q \in 0..63
  PROVE  (IF Carrier[MessageAt(baud_bit(head)) + 40 + (1 + q) - 1] = 1 THEN 1 ELSE 0)
           = IF BitOnAir(SentCallsign, q) THEN 1 ELSE 0
<1> DEFINE tx == Encoded(msg)
<1>1. PICK at, p, part : /\ at = MessageAt(baud_bit(head)) /\ p = at + 40 + q
                         /\ part = Part("callsign", at + 40, 64)
  OBVIOUS
<1>2. at \in Nat
  BY <1>1, Sizes DEF MessageAt, baud_bit
<1>3. p \in Nat /\ q \in Nat /\ p - (at + 40) + 1 = q + 1 /\ at + 40 + (1 + q) - 1 = p
  BY <1>1, <1>2
<1>4. part.name = "callsign" /\ part.at = at + 40 /\ part.len = 64
  BY <1>1 DEF Part
<1>5. Covers(part, p)
  BY <1>1, <1>2, <1>4 DEF Covers
<1>6. part \in Message(at, blocks)
  BY <1>1 DEF Message
<1>7. Carrier[p] = con(BitsOfPart("callsign", tx)[q + 1])
  <2>1. Carrier[p] = con(BitsOfPart(part.name, tx)[p - part.at + 1])
    BY <1>1, <1>3, <1>5, <1>6, CarrierBits
  <2> QED
    BY <1>3, <1>4, <2>1
<1>8. BitsOfPart("callsign", tx) = write_callsign(tx.callsign)
  BY DEF BitsOfPart
<1>9. tx.callsign = SentCallsign
  BY DEF Encoded, SentCallsign
<1> HIDE DEF tx
<1>10. \A c : \A m \in 1..64 : write_callsign(c)[m] = ByteBits(c[(m - 1) \div 8])[1 + ((m - 1) % 8)]
  BY DEF write_callsign
<1>11. q + 1 \in 1..64 /\ (q + 1) - 1 = q /\ 1 + (q % 8) \in 1..8 /\ 8 - (1 + (q % 8)) = 7 - (q % 8)
  OBVIOUS
<1>12. BitsOfPart("callsign", tx)[q + 1] = ByteBits(SentCallsign[q \div 8])[1 + (q % 8)]
  BY <1>8, <1>9, <1>10, <1>11
<1>13. \A b : ByteBits(b)[1 + (q % 8)] = IF 7 - (q % 8) \in b THEN 1 ELSE 0
  BY <1>11 DEF ByteBits
<1>14. BitsOfPart("callsign", tx)[q + 1] = IF BitOnAir(SentCallsign, q) THEN 1 ELSE 0
  BY <1>12, <1>13 DEF BitOnAir
<1>15. (IF Carrier[p] = 1 THEN 1 ELSE 0) = IF BitOnAir(SentCallsign, q) THEN 1 ELSE 0
  BY <1>7, <1>14 DEF con
<1> QED
  BY <1>1, <1>3, <1>15

\* A flipped bit, and only it, differs.
BitDiffers(h, c, i, t) ==
  /\ h \in Callsign
  /\ \A k \in 0..7 : \A s \in 0..7 : s \in h[k] <=> ~(s \in c[k] <=> k = i /\ s = t)

LEMMA FlippedBits ==
  ASSUME NEW c \in Callsign, NEW i \in 0..7, NEW t \in 0..7
  PROVE  BitDiffers(BIT_FLIP(c, {8 * i + t}), c, i, t)
<1>1. PICK n, h : n = 8 * i + t /\ h = BIT_FLIP(c, {n})
  OBVIOUS
<1>2. n \in 0..63 /\ n \div 8 = i /\ n % 8 = t
  BY <1>1
<1>3. h \in Callsign /\ \A k \in 0..7 : h[k] = Xor(c[k], Unit(n)[k])
  <2>1. /\ BIT_FLIP(c, {n}) \in Callsign
        /\ \A k \in 0..7 : BIT_FLIP(c, {n})[k] = Xor(c[k], Unit(n)[k])
    BY <1>2, FlipBit
  <2> QED
    BY <1>1, <2>1
<1>4. \A k \in 0..7 : Unit(n)[k] = IF k = i THEN {t} ELSE {}
  BY <1>2 DEF Unit
<1>5. \A k \in 0..7 : \A x : x \in h[k] <=> ~(x \in c[k] <=> k = i /\ x = t)
  BY <1>3, <1>4, XorIn
<1>6. BitDiffers(h, c, i, t)
  BY <1>3, <1>5 DEF BitDiffers
<1> QED
  BY <1>1, <1>6

\* The next bit of a byte pushes the others up.
LEMMA BitIn ==
  ASSUME NEW byte \in Byte, NEW bit
  PROVE  /\ ShiftIn(byte, bit) \in Byte
         /\ \A t \in 0..7 : t \in ShiftIn(byte, bit) <=> t - 1 \in byte \/ (t = 0 /\ bit = 1)
<1>1. \A i \in byte : i \in 0..7
  BY DEF Byte
<1>2. \A t \in 0..7 : t \in ShiftLeft(byte, 1) <=> t - 1 \in byte
  <2> TAKE t \in 0..7
  <2>1. (t - 1) + 1 = t
    OBVIOUS
  <2>2. t \in ShiftLeft(byte, 1) => t - 1 \in byte
    BY <1>1 DEF ShiftLeft
  <2>3. t - 1 \in byte => t \in ShiftLeft(byte, 1)
    BY <2>1 DEF ShiftLeft
  <2> QED
    BY <2>2, <2>3
<1>3. ShiftLeft(byte, 1) \ {8} \in SUBSET (0..7)
  BY <1>1 DEF ShiftLeft
<1>4. ShiftIn(byte, bit) = (ShiftLeft(byte, 1) \ {8}) \cup (IF bit = 1 THEN {0} ELSE {})
  BY DEF ShiftIn
<1>5. ShiftIn(byte, bit) \in Byte
  BY <1>3, <1>4 DEF Byte
<1>6. \A t \in 0..7 : t \in ShiftIn(byte, bit) <=> t \in ShiftLeft(byte, 1) \/ (t = 0 /\ bit = 1)
  BY <1>4
<1> QED
  BY <1>2, <1>5, <1>6

\* Where the bit after bit q is.
LEMMA NextBit ==
  ASSUME NEW q \in 0..63
  PROVE  \E b \in 0..7 : \E r \in 0..7 :
           /\ q = 8 * b + r /\ q \div 8 = b /\ q % 8 = r
           /\ r < 7 => (q + 1) \div 8 = b /\ (q + 1) % 8 = r + 1
           /\ r = 7 => (q + 1) \div 8 = b + 1 /\ (q + 1) % 8 = 0
<1>1. PICK b \in 0..7, r \in 0..7 : q \div 8 = b /\ q % 8 = r /\ q = 8 * b + r
  OBVIOUS
<1>2. r < 7 => (q + 1) \div 8 = b /\ (q + 1) % 8 = r + 1
  BY <1>1
<1>3. r = 7 => (q + 1) \div 8 = b + 1 /\ (q + 1) % 8 = 0
  BY <1>1
<1> QED
  BY <1>1, <1>2, <1>3

\* A bit read as it is heard keeps what was read right.
LEMMA ReadOn ==
  ASSUME NEW q \in 0..63, NEW heard \in Callsign, NEW c, ReadUpTo(c, q, heard),
         NEW bit, bit = 1 <=> BitOnAir(heard, q)
  PROVE  ReadUpTo([c EXCEPT ![q \div 8] = ShiftIn(@, bit)], q + 1, heard)
<1>1. PICK b \in 0..7, r \in 0..7 :
        /\ q = 8 * b + r /\ q \div 8 = b /\ q % 8 = r
        /\ r < 7 => (q + 1) \div 8 = b /\ (q + 1) % 8 = r + 1
        /\ r = 7 => (q + 1) \div 8 = b + 1 /\ (q + 1) % 8 = 0
  BY NextBit
<1>2. PICK d : d = [c EXCEPT ![b] = ShiftIn(@, bit)]
  OBVIOUS
<1>3. /\ c \in Callsign
      /\ \A i \in 0..7 : \A t \in 0..7 : t \in c[i] <=>
           \/ i < b /\ t \in heard[i]
           \/ i = b /\ t < r /\ t + 8 - r \in heard[i]
  BY <1>1 DEF ReadUpTo
<1>4. c[b] \in Byte
  BY <1>3 DEF Callsign
<1>5. /\ d \in Callsign /\ d[b] = ShiftIn(c[b], bit)
      /\ \A i \in 0..7 : i # b => d[i] = c[i]
  BY <1>2, <1>3, <1>4, BitIn DEF Callsign
<1>6. bit = 1 <=> 7 - r \in heard[b]
  BY <1>1 DEF BitOnAir
<1>7. ASSUME NEW t \in 0..7
      PROVE  t \in d[b] <=> t < r + 1 /\ t + 7 - r \in heard[b]
  <2>1. t \in d[b] <=> t - 1 \in c[b] \/ (t = 0 /\ bit = 1)
    BY <1>4, <1>5, BitIn
  <2>2. CASE t = 0
    <3>1. -1 \notin c[b]
      BY <1>4 DEF Byte
    <3>2. t + 7 - r = 7 - r /\ t - 1 = -1 /\ t < r + 1
      BY <2>2
    <3> QED
      BY <1>6, <2>1, <2>2, <3>1, <3>2
  <2>3. CASE t # 0
    <3>1. PICK s : s = t - 1
      OBVIOUS
    <3>2. s \in 0..7 /\ s + 8 - r = t + 7 - r /\ (s < r <=> t < r + 1)
      BY <2>3, <3>1
    <3>3. s \in c[b] <=> s < r /\ s + 8 - r \in heard[b]
      BY <1>3, <3>2
    <3> QED
      BY <2>1, <2>3, <3>1, <3>2, <3>3
  <2> QED
    BY <2>2, <2>3
<1>8. ASSUME NEW i \in 0..7, NEW t \in 0..7
      PROVE  t \in d[i] <=>
               \/ i < (q + 1) \div 8 /\ t \in heard[i]
               \/ i = (q + 1) \div 8 /\ t < (q + 1) % 8 /\ t + 8 - ((q + 1) % 8) \in heard[i]
  <2>1. CASE r < 7
    <3>1. (q + 1) \div 8 = b /\ (q + 1) % 8 = r + 1 /\ t + 8 - (r + 1) = t + 7 - r
      BY <1>1, <2>1
    <3>2. CASE i = b
      BY <1>7, <3>1, <3>2
    <3>3. CASE i # b
      BY <1>3, <1>5, <3>1, <3>3
    <3> QED
      BY <3>2, <3>3
  <2>2. CASE r = 7
    <3>1. (q + 1) \div 8 = b + 1 /\ (q + 1) % 8 = 0 /\ ~(t < 0)
      BY <1>1, <2>2
    <3>2. CASE i = b
      <4>1. t < r + 1 /\ t + 7 - r = t /\ b < b + 1
        BY <2>2
      <4> QED
        BY <1>7, <3>1, <3>2, <4>1
    <3>3. CASE i # b
      <4>1. i < b + 1 <=> i < b
        BY <3>3
      <4> QED
        BY <1>3, <1>5, <3>1, <3>3, <4>1
    <3> QED
      BY <3>2, <3>3
  <2> QED
    BY <2>1, <2>2
<1> QED
  BY <1>1, <1>2, <1>5, <1>8 DEF ReadUpTo

\* A bit of a disturbance changes what is heard from this bit on.
HeardSo(sent, c, q, h, flipped, wrong) ==
  /\ Heard(sent, q + 1, h, flipped)
  /\ ReadUpTo(c, q, h)
  /\ BitOnAir(h, q) <=> ~(BitOnAir(sent, q) <=> wrong)

LEMMA HeardNext ==
  ASSUME NEW sent \in Callsign, NEW q \in 0..63, NEW heard \in Callsign, NEW c,
         NEW flipped \in Nat, Heard(sent, q, heard, flipped), ReadUpTo(c, q, heard),
         NEW wrong \in BOOLEAN, wrong => flipped = 0,
         NEW next, next = IF wrong THEN flipped + 1 ELSE flipped
  PROVE  \E h \in Callsign : HeardSo(sent, c, q, h, next, wrong)
<1>1. PICK b \in 0..7, r \in 0..7 : q = 8 * b + r /\ q \div 8 = b /\ q % 8 = r
  BY NextBit
<1>2. CASE wrong
  <2>1. heard = sent /\ flipped = 0
    BY <1>2 DEF Heard
  <2>2. PICK t \in 0..7 : t = 7 - r
    OBVIOUS
  <2>3. PICK h : h = BIT_FLIP(sent, {8 * b + t})
    OBVIOUS
  <2>4. /\ h \in Callsign
        /\ \A k \in 0..7 : \A s \in 0..7 : s \in h[k] <=> ~(s \in sent[k] <=> k = b /\ s = t)
    <3>1. BitDiffers(h, sent, b, t)
      BY <2>3, FlippedBits
    <3> QED
      BY <3>1 DEF BitDiffers
  <2>5. Heard(sent, q + 1, h, 1)
    <3>1. 8 * b + (7 - t) < q + 1
      BY <1>1, <2>2
    <3> QED
      BY <2>3, <3>1 DEF Heard
  <2>6. ReadUpTo(c, q, h)
    <3>1. ASSUME NEW i \in 0..7, NEW s \in 0..7, i < b PROVE s \in h[i] <=> s \in heard[i]
      BY <2>1, <2>4, <3>1
    <3>2. ASSUME NEW s \in 0..7, s < r PROVE s + 8 - r \in h[b] <=> s + 8 - r \in heard[b]
      <4>1. s + 8 - r \in 0..7 /\ s + 8 - r # t
        BY <2>2, <3>2
      <4> QED
        BY <2>1, <2>4, <4>1
    <3> QED
      BY <1>1, <3>1, <3>2 DEF ReadUpTo
  <2>7. BitOnAir(h, q) <=> ~BitOnAir(sent, q)
    BY <1>1, <2>2, <2>4 DEF BitOnAir
  <2>8. next = 1
    BY <1>2, <2>1
  <2> QED
    BY <1>2, <2>4, <2>5, <2>6, <2>7, <2>8 DEF HeardSo
<1>3. CASE ~wrong
  <2>1. Heard(sent, q + 1, heard, flipped)
    <3>1. \A i \in 0..7, t \in 0..7 : 8 * i + (7 - t) < q => 8 * i + (7 - t) < q + 1
      OBVIOUS
    <3> QED
      BY <3>1 DEF Heard
  <2>2. BitOnAir(heard, q) <=> BitOnAir(sent, q)
    <3>1. CASE flipped = 0 /\ heard = sent
      BY <3>1
    <3>2. CASE ~(flipped = 0 /\ heard = sent)
      <4>1. PICK i \in 0..7, t \in 0..7 : 8 * i + (7 - t) < q /\ heard = BIT_FLIP(sent, {8 * i + t})
        BY <3>2 DEF Heard
      <4>2. \A k \in 0..7 : \A s \in 0..7 : s \in heard[k] <=> ~(s \in sent[k] <=> k = i /\ s = t)
        <5>1. BitDiffers(heard, sent, i, t)
          BY <4>1, FlippedBits
        <5> QED
          BY <5>1 DEF BitDiffers
      <4>3. ~(b = i /\ 7 - r = t) /\ 7 - r \in 0..7
        BY <1>1, <4>1
      <4> QED
        BY <1>1, <4>2, <4>3 DEF BitOnAir
    <3> QED
      BY <3>1, <3>2
  <2>3. next = flipped
    BY <1>3
  <2> QED
    BY <1>3, <2>1, <2>2, <2>3 DEF HeardSo
<1> QED
  BY <1>2, <1>3

\* A callsign heard with one bit flipped at most is decoded as it was sent.
LEMMA HeardDecoded ==
  ASSUME NEW sent \in Callsign, Intact(sent), NEW c, NEW heard \in Callsign, NEW flipped,
         Heard(sent, 64, heard, flipped), ReadUpTo(c, 64, heard)
  PROVE  decode_callsign(c) = sent
<1>1. c = heard
  <2>1. 64 \div 8 = 8
    OBVIOUS
  <2>2. \A i \in 0..7 : i < 8 /\ i # 8
    OBVIOUS
  <2>3. c \in Callsign /\ \A i \in 0..7 : \A t \in 0..7 : t \in c[i] <=> t \in heard[i]
    BY <2>1, <2>2 DEF ReadUpTo
  <2>4. \A i \in 0..7 : c[i] \in SUBSET (0..7) /\ heard[i] \in SUBSET (0..7)
    BY <2>3 DEF Callsign, Byte
  <2>5. \A i \in 0..7 : c[i] = heard[i]
    BY <2>3, <2>4
  <2> QED
    BY <2>3, <2>5, SameCallsign
<1>2. CASE heard = sent
  <2>1. 0 \in 0..63
    OBVIOUS
  <2> QED
    BY <1>1, <1>2, <2>1, CallsignRestored
<1>3. CASE heard # sent
  <2>1. PICK i \in 0..7, t \in 0..7 : heard = BIT_FLIP(sent, {8 * i + t})
    BY <1>3 DEF Heard
  <2>2. 8 * i + t \in 0..63
    OBVIOUS
  <2> QED
    BY <1>1, <2>1, <2>2, CallsignRestored
<1> QED
  BY <1>2, <1>3

\* What reading a bit of the callsign makes of the receiver.
LEMMA CallsignStep ==
  ASSUME PublishedInv, RestInv, CallsignInv, NEW left \in NoiseStarts(CallsignBursts),
         ReadCallsign(left)
  PROVE  CallsignInv'
<1>1. /\ phase = "callsign" /\ msg \in Messages /\ left \in Nat
      /\ left = 0 \/ left > 0
      /\ msg' = msg /\ air' = air /\ out' = out /\ out = {}
      /\ rd.callsign \in 0..63 /\ rd.data = 0 /\ rd.block = 0
      /\ rd \in [callsign : 0..63, data : 0..239, block : Nat]
      /\ noise \in [left : Nat, callsign : Nat, data : Nat]
  <2>1. phase = "callsign" /\ msg' = msg /\ air' = air /\ out' = out
    BY DEF ReadCallsign
  <2>2. left \in Nat
    BY LeftType, BurstsAssumption
  <2> QED
    BY <2>1, <2>2 DEF RestInv, CallsignInv
<1>2. PICK q, sent : q \in 0..63 /\ q = rd.callsign /\ sent = SentCallsign
  BY <1>1
<1>3. sent \in Callsign /\ Intact(sent)
  BY <1>1, <1>2, SentIntact
<1>4. SentCallsign' = sent
  BY <1>1, <1>2 DEF SentCallsign
<1>5. PICK flipped, next : flipped = noise.callsign /\ next = noise'.callsign
  OBVIOUS
<1>6. flipped \in Nat /\ next = IF left > 0 THEN flipped + 1 ELSE flipped
  <2>1. noise' = IF left = 0 THEN noise
                 ELSE [noise EXCEPT !.left = left - 1, !.callsign = @ + 1]
    BY DEF ReadCallsign, Disturbed
  <2>2. CASE left = 0
    BY <1>1, <1>5, <2>1, <2>2
  <2>3. CASE left > 0
    <3>1. noise' = [noise EXCEPT !.left = left - 1, !.callsign = noise.callsign + 1]
      BY <2>1, <2>3
    <3>2. noise' = [left |-> left - 1, callsign |-> noise.callsign + 1, data |-> noise.data]
      BY <1>1, <3>1
    <3> QED
      BY <1>1, <1>5, <2>3, <3>2
  <2> QED
    BY <1>1, <2>2, <2>3
<1>7. PICK bit : bit = Received(left)
  OBVIOUS
<1>8. bit = 1 <=> ~(BitOnAir(sent, q) <=> left > 0)
  <2>1. air[1 + q] = IF BitOnAir(sent, q) THEN 1 ELSE 0
    BY <1>1, <1>2 DEF CallsignInv
  <2>2. 1 + rd.callsign + rd.data + 240 * rd.block + (IF phase = "data" THEN 64 ELSE 0) = 1 + q
    BY <1>1, <1>2
  <2>3. bit = IF left > 0 THEN 1 - air[1 + q] ELSE air[1 + q]
    BY <1>7, <2>2 DEF Received
  <2> QED
    BY <2>1, <2>3
<1>9. PICK read : read = [callsign EXCEPT ![q \div 8] = ShiftIn(@, bit)]
  OBVIOUS
<1>10. \/ /\ q < 63 /\ phase' = "callsign" /\ callsign' = read
          /\ rd' = [rd EXCEPT !.callsign = @ + 1]
       \/ ~(q < 63) /\ phase' = "data" /\ callsign' = decode_callsign(read)
  <2>1. CASE rd.callsign < 63
    BY <1>1, <1>2, <1>7, <1>9, <2>1 DEF ReadCallsign
  <2>2. CASE ~(rd.callsign < 63)
    BY <1>1, <1>2, <1>7, <1>9, <2>2 DEF ReadCallsign
  <2> QED
    BY <2>1, <2>2
<1>11. ASSUME next <= 1
       PROVE  \E h \in Callsign : Heard(sent, q + 1, h, next) /\ ReadUpTo(read, q + 1, h)
  <2>1. flipped <= 1 /\ (left > 0 => flipped = 0)
    BY <1>1, <1>6, <1>11
  <2>2. PICK heard \in Callsign : Heard(sent, q, heard, flipped) /\ ReadUpTo(callsign, q, heard)
    BY <1>1, <1>2, <1>5, <2>1 DEF CallsignInv
  <2>3. PICK wrong \in BOOLEAN : wrong <=> left > 0
    OBVIOUS
  <2>4. PICK h \in Callsign : HeardSo(sent, callsign, q, h, next, wrong)
    <3>1. next = IF wrong THEN flipped + 1 ELSE flipped
      BY <1>6, <2>3
    <3> QED
      BY <1>2, <1>3, <1>6, <2>1, <2>2, <2>3, <3>1, HeardNext
  <2>5. bit = 1 <=> BitOnAir(h, q)
    BY <1>2, <1>8, <2>3, <2>4 DEF HeardSo
  <2>6. ReadUpTo(read, q + 1, h)
    BY <1>2, <1>9, <2>4, <2>5, ReadOn DEF HeardSo
  <2>7. Heard(sent, q + 1, h, next)
    BY <2>4 DEF HeardSo
  <2> QED
    BY <2>6, <2>7
<1>12. CallsignCorrected'
  BY <1>1 DEF CallsignCorrected
<1>13. CASE /\ q < 63 /\ phase' = "callsign" /\ callsign' = read
            /\ rd' = [rd EXCEPT !.callsign = @ + 1]
  <2>1. rd'.callsign = q + 1
    BY <1>1, <1>2, <1>13
  <2>2. \A p \in 0..63 : air'[1 + p] = IF BitOnAir(sent, p) THEN 1 ELSE 0
    BY <1>1, <1>2 DEF CallsignInv
  <2>3. noise'.callsign <= 1 =>
          \E heard \in Callsign :
            Heard(sent, rd'.callsign, heard, noise'.callsign) /\ ReadUpTo(callsign', rd'.callsign, heard)
    BY <1>5, <1>11, <1>13, <2>1
  <2> QED
    BY <1>1, <1>4, <1>12, <1>13, <2>2, <2>3 DEF CallsignInv
<1>14. CASE ~(q < 63) /\ phase' = "data" /\ callsign' = decode_callsign(read)
  <2>1. q + 1 = 64
    BY <1>2, <1>14
  <2>2. ASSUME next <= 1 PROVE callsign' = sent
    BY <1>3, <1>11, <1>14, <2>1, <2>2, HeardDecoded
  <2> QED
    BY <1>1, <1>4, <1>5, <1>12, <1>14, <2>2 DEF CallsignInv
<1> QED
  BY <1>10, <1>13, <1>14

\* The callsign read stays that of the message until the message is reported.
LEMMA CallsignKept ==
  ASSUME PublishedInv, RestInv, CallsignInv, NEW left \in NoiseStarts(DataBursts),
         ReadData(left)
  PROVE  CallsignInv'
<1>1. /\ phase = "data" /\ msg' = msg /\ out = {}
      /\ noise \in [left : Nat, callsign : Nat, data : Nat]
      /\ noise.callsign <= 1 => callsign = SentCallsign
  BY DEF ReadData, RestInv, CallsignInv
<1>2. SentCallsign' = SentCallsign
  BY <1>1 DEF SentCallsign
<1>3. noise'.callsign = noise.callsign
  BY <1>1 DEF ReadData, Disturbed
<1>4. \/ phase' = "data" /\ out' = out /\ callsign' = callsign
      \/ /\ phase' = "idle" /\ callsign' = NoCallsign
         /\ \E decoded, errors : out' = output_message(decoded, errors)
  BY <1>1, ZenonT(60) DEF ReadData
<1>5. CASE phase' = "data" /\ out' = out /\ callsign' = callsign
  BY <1>1, <1>2, <1>3, <1>5 DEF CallsignInv, CallsignCorrected
<1>6. CASE /\ phase' = "idle" /\ callsign' = NoCallsign
           /\ \E decoded, errors : out' = output_message(decoded, errors)
  <2>1. \A o \in out' : o.callsign = callsign
    BY <1>6 DEF output_message
  <2>2. CallsignCorrected'
    BY <1>1, <1>2, <1>3, <2>1 DEF CallsignCorrected, SentCallsign
  <2> QED
    BY <1>6, <2>2 DEF CallsignInv, NoCallsign
<1> QED
  BY <1>4, <1>5, <1>6

LEMMA CallsignNext ==
  ASSUME PublishedInv, RestInv, CallsignInv, [Next]_vars
  PROVE  CallsignInv'
<1>1. ASSUME NEW m \in Messages, handle_msg(m) PROVE CallsignInv'
  BY <1>1 DEF handle_msg, CallsignInv, CallsignCorrected, NoCallsign, Quiet
<1>2. ASSUME Transmit PROVE CallsignInv'
  <2>1. /\ phase = "published" /\ phase' = "callsign" /\ msg' = msg /\ noise' = noise /\ rd' = rd
        /\ callsign' = callsign /\ out' = out /\ out = {} /\ callsign = NoCallsign
        /\ air' = [n \in 1..(64 + blocks * 240) |->
                     IF Carrier[MessageAt(baud_bit(head)) + 40 + n - 1] = 1 THEN 1 ELSE 0]
    BY <1>2 DEF Transmit, CallsignInv
  <2>2. msg \in Messages /\ rd.callsign = 0
    BY <2>1 DEF RestInv
  <2>3. PICK sent : sent = SentCallsign
    OBVIOUS
  <2>4. sent \in Callsign /\ SentCallsign' = sent
    BY <2>1, <2>2, <2>3, SentIntact DEF SentCallsign
  <2>5. ASSUME NEW q \in 0..63 PROVE air'[1 + q] = IF BitOnAir(sent, q) THEN 1 ELSE 0
    <3>1. blocks \in 1..32
      BY <2>2, MessageTypes
    <3>2. 1 + q \in 1..(64 + blocks * 240)
      BY <3>1
    <3>3. air'[1 + q] = IF Carrier[MessageAt(baud_bit(head)) + 40 + (1 + q) - 1] = 1 THEN 1 ELSE 0
      BY <2>1, <3>2
    <3> QED
      BY <2>1, <2>3, <3>3, CallsignSent
  <2>6. noise.callsign <= 1 => Heard(sent, 0, sent, noise.callsign)
    <3>1. noise.callsign = 0
      BY <2>1 DEF CallsignInv
    <3> QED
      BY <3>1 DEF Heard
  <2>7. ReadUpTo(NoCallsign, 0, sent)
    <3>1. 0 \div 8 = 0 /\ 0 % 8 = 0
      OBVIOUS
    <3>2. NoCallsign \in Callsign /\ \A i \in 0..7 : NoCallsign[i] = {}
      BY DEF NoCallsign, Callsign, Byte
    <3>3. \A i \in 0..7 : ~(i < 0) /\ \A t \in 0..7 : ~(t < 0)
      OBVIOUS
    <3> QED
      BY <3>1, <3>2, <3>3 DEF ReadUpTo
  <2>8. CallsignCorrected'
    BY <2>1 DEF CallsignCorrected
  <2>9. noise'.callsign <= 1 =>
          \E heard \in Callsign :
            Heard(sent, rd'.callsign, heard, noise'.callsign) /\ ReadUpTo(callsign', rd'.callsign, heard)
    BY <2>1, <2>2, <2>4, <2>6, <2>7
  <2> QED
    BY <2>1, <2>4, <2>5, <2>8, <2>9 DEF CallsignInv
<1>3. ASSUME NEW left \in NoiseStarts(CallsignBursts), ReadCallsign(left) PROVE CallsignInv'
  BY <1>3, CallsignStep
<1>4. ASSUME NEW left \in NoiseStarts(DataBursts), ReadData(left) PROVE CallsignInv'
  BY <1>4, CallsignKept
<1>5. CASE UNCHANGED vars
  BY <1>5 DEF vars, CallsignInv, CallsignCorrected, SentCallsign
<1> QED
  BY <1>1, <1>2, <1>3, <1>4, <1>5 DEF Next

\* One wrong bit in the callsign of any message, or in its CRC, is put right by the
\* receiver, wherever it is: the 64 bits have syndromes of their own.
THEOREM CallsignsCorrected == Spec => []CallsignCorrected
<1> DEFINE Inv == PublishedInv /\ RestInv /\ CallsignInv
<1>1. Init => Inv
  <2> SUFFICES ASSUME Init PROVE Inv
    OBVIOUS
  <2>1. PublishedInv /\ RestInv
    BY LinkInit DEF LinkInv
  <2>2. CallsignInv
    BY DEF Init, CallsignInv, CallsignCorrected
  <2> QED
    BY <2>1, <2>2
<1>2. Inv /\ [Next]_vars => Inv'
  BY PublishedNext, RestNext, CallsignNext
<1>3. Inv => CallsignCorrected
  BY DEF CallsignInv
<1> HIDE DEF Inv
<1> QED
  BY <1>1, <1>2, <1>3, PTL DEF Spec

==============================================================================
