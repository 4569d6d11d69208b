---------------------------- MODULE FrameComposer ----------------------------
(***************************************************************************)
(* The frames of the NX encoder (frame_composer, nx_encoder_impl).  A      *)
(* frame goes to two modulators of 4800 and 9600 bit/s that transmit at    *)
(* the same time: value p of the one buffer is sent together with values   *)
(* 2p and 2p + 1 of the other.  Values are 1 and -1 for bits, and 0 where  *)
(* nothing is to be sent.                                                  *)
(***************************************************************************)
EXTENDS MobitexCoding, NxProtocol, Sequences

NUM_OF_PAD_BYTES == 40
NUM_OF_SYNC_BYTES == 6
NUM_OF_HANG_BYTES == 2
NUM_OF_BAUD_SYNC == 4

BAUDCHANGE_CTRL == {7}
HANGBYTE == {7, 6, 3, 2}
SYNC_4k8 == {7, 6, 3, 2}
SYNC_9k6 == {7, 6, 5, 4}

\* Mutated forms (used only by the mutants of PROJECT.json): the baud sync as
\* soon as the baud-change header ends; another one is below.
BaudSync_2Early == [name |-> "baud_sync_2", at |-> 2 * 408, len |-> 32]

con(bit) == IF bit > 0 THEN 1 ELSE -1

------------------------------------------------------------------------------
(* Which part of a frame is where: parts of len values from at on.          *)

Part(name, at, len) == [name |-> name, at |-> at, len |-> len]

len_4k8(baud, blocks) ==
  IF baud
  THEN (NUM_OF_PAD_BYTES + NUM_OF_SYNC_BYTES + 5 + NUM_OF_BAUD_SYNC) * 8
       + (5 + 8 + blocks * 30 + NUM_OF_HANG_BYTES) * 4
  ELSE (NUM_OF_PAD_BYTES + NUM_OF_SYNC_BYTES + 5 + 8 + blocks * 30 + NUM_OF_HANG_BYTES) * 8

\* The transmission time set_wait_msg of the TNC computes, in steps of 1/9.6 ms.
tx_time(baud, blocks) ==
  IF baud
  THEN (NUM_OF_PAD_BYTES + NUM_OF_SYNC_BYTES + 5 + NUM_OF_BAUD_SYNC) * 8 * 2
       + (5 + 8 + blocks * 30 + NUM_OF_HANG_BYTES) * 8
  ELSE (NUM_OF_PAD_BYTES + NUM_OF_SYNC_BYTES + 5 + 8 + blocks * 30 + NUM_OF_HANG_BYTES) * 8 * 2

\* Header, callsign, data and hang bytes follow each other.
Message(at, blocks) ==
  {Part("header", at, 40), Part("callsign", at + 40, 64),
   Part("data", at + 104, blocks * 240),
   Part("hang", at + 104 + blocks * 240, NUM_OF_HANG_BYTES * 8)}

SyncAtBit == NUM_OF_PAD_BYTES * 8
HeaderAtBit == SyncAtBit + NUM_OF_SYNC_BYTES * 8
BaudSyncAtBit == HeaderAtBit + 40

\* Where the message begins in the buffer that carries it.
MessageAt(baud) == IF baud THEN 2 * (BaudSyncAtBit + 32) ELSE HeaderAtBit

SyncPart == Part("sync", SyncAtBit, NUM_OF_SYNC_BYTES * 8)

\* write_baud_sync leaves out the values the other modulator still sends in.
BaudSync_2 == Part("baud_sync_2", 2 * BaudSyncAtBit + 32, 32)

SlowParts(blocks) == {SyncPart} \cup Message(HeaderAtBit, blocks)
FastParts_1 ==
  {SyncPart, Part("bc_header", HeaderAtBit, 40), Part("baud_sync_1", BaudSyncAtBit, 16)}
FastParts_2(blocks) == {BaudSync_2} \cup Message(2 * (BaudSyncAtBit + 32), blocks)

\* The parts written to the buffers of the modulators of 4800 and 9600 bit/s.
Parts_1(baud, blocks) == IF baud THEN FastParts_1 ELSE SlowParts(blocks)
Parts_2(baud, blocks) == IF baud THEN FastParts_2(blocks) ELSE {}

Covers(part, p) == part.at <= p /\ p < part.at + part.len

------------------------------------------------------------------------------
(* The bits of each part.                                                   *)

ByteBits(byte) == [i \in 1..8 |-> IF 8 - i \in byte THEN 1 ELSE 0]
NibbleBits(nibble) == [i \in 1..4 |-> IF 4 - i \in nibble THEN 1 ELSE 0]

\* struct head: the control bytes, and the FEC that was stored for them.
encode_control(control) ==
  [control |-> control, control_fec |-> [k \in 0..1 |-> calc_fec(control[k])]]

\* A head as it follows the frame-sync marker.
control_bits(cur) ==
  ByteBits(cur.control[0]) \o ByteBits(cur.control[1])
  \o NibbleBits(cur.control_fec[0]) \o NibbleBits(cur.control_fec[1])

write_header(cur) == FRAMESYNC \o control_bits(cur)

\* write_bc_header replaces the control byte and puts it back, and computes the
\* FEC each time.
BaudchangeHead(cur) == encode_control([cur.control EXCEPT ![0] = BAUDCHANGE_CTRL])
write_bc_header(cur) == write_header(BaudchangeHead(cur))
\* (Mutated form: the FEC is not computed the second time.)
AfterBcHeaderStale(cur) == [BaudchangeHead(cur) EXCEPT !.control = cur.control]
AfterBcHeader(cur) ==
  encode_control([BaudchangeHead(cur).control EXCEPT ![0] = cur.control[0]])

write_callsign(callsign) == 
  [n \in 1..64 |-> ByteBits(callsign[(n - 1) \div 8])[1 + ((n - 1) % 8)]]

\* Bit n of a block, counted from 0: row by row the bits of all its bytes,
\* most significant ones first, then those of its FEC nibbles.
RowOf(n) == n \div 20
ByteOf(n) == n % 20
Interleaved(block, n) ==
  LET one == IF RowOf(n) < 8 THEN 7 - RowOf(n) \in block.data[ByteOf(n)]
             ELSE 11 - RowOf(n) \in block.fec[ByteOf(n)]
  IN  IF one THEN 1 ELSE 0

\* Each row takes 20 bits of the scrambler, which was reset before the first;
\* there are 12 rows to a block and 32 blocks at most.
RowRegister[r \in 0..(32 * 12)] ==
  IF r = 0 THEN reset_scrambler ELSE Advance[20][RowRegister[r - 1]]

write_data(mob, blocks) ==
  [n \in 1..(blocks * 240) |->
     scramble(Interleaved(mob[(n - 1) \div 240], (n - 1) % 240),
              Advance[(n - 1) % 20][RowRegister[(n - 1) \div 20]])]

Repeated(byte, n) == [i \in 1..(8 * n) |-> ByteBits(byte)[1 + ((i - 1) % 8)]]

\* The bits of a part for what the encoder has in its buffers.  The header of
\* a fast frame is written after the baud-change header.
BitsOfPart(name, tx) ==
  CASE name = "sync" -> Repeated(SYNC_4k8, NUM_OF_SYNC_BYTES)
    [] name = "bc_header" -> write_bc_header(tx.cur)
    [] name = "baud_sync_1" -> Repeated(HANGBYTE, 2)
    [] name = "baud_sync_2" -> Repeated(SYNC_9k6, 4)
    [] name = "header" -> write_header(IF tx.baud THEN AfterBcHeader(tx.cur) ELSE tx.cur)
    [] name = "callsign" -> write_callsign(tx.callsign)
    [] name = "data" -> write_data(tx.mob, tx.blocks)
    [] name = "hang" -> Repeated(HANGBYTE, NUM_OF_HANG_BYTES)

\* A buffer of zeros with the parts written to it.
Buffer(len, parts, tx) ==
  LET bits == [part \in parts |-> BitsOfPart(part.name, tx)]
      at(p) == {part \in parts : Covers(part, p)}
  IN  [p \in 0..(len - 1) |->
         IF at(p) = {} THEN 0
         ELSE LET part == CHOOSE part \in at(p) : TRUE IN con(bits[part][p - part.at + 1])]

==============================================================================
