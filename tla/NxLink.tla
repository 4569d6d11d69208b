------------------------------- MODULE NxLink --------------------------------
(***************************************************************************)
(* A telecommand on its way: nx_encoder_impl makes a frame of it, the      *)
(* channel flips bits, and the receiver, having accepted the head of the   *)
(* frame (NxDecoder), reads callsign and datablocks bit by bit             *)
(* (frame_composer), decodes them (mobitex_coding) and reports them.       *)
(* Frames follow each other without end; the receiver keeps its counters,  *)
(* buffers and scrambler from one to the next.                             *)
(***************************************************************************)
EXTENDS FrameComposer

CONSTANTS
  Messages,        \* what handle_msg may be given
  MaxBlocks,       \* datablocks of the longest of them
  CallsignBursts,  \* how many bits in a row a disturbance may flip, if it
  DataBursts       \* begins in the callsign, or in the data

Blocks == 0..(MaxBlocks - 1)

\* Control bytes, callsign and the 18 bytes of each datablock.
IsMessage(m) ==
  LET blocks == num_of_blocks(control_bits(encode_control(m.control)))
  IN  /\ m.control \in [0..1 -> Byte]
      /\ blocks \in 1..MaxBlocks
      /\ m.callsign \in [0..5 -> Byte]
      /\ m.data \in [0..(blocks - 1) -> [0..17 -> Byte]]

ASSUME MessagesAssumption ==
  /\ MaxBlocks \in 1..32
  /\ \A m \in Messages : IsMessage(m)
ASSUME BurstsAssumption ==
  CallsignBursts \subseteq Nat \ {0} /\ DataBursts \subseteq Nat \ {0}

VARIABLES
  phase,     \* what happens next: a message, its transmission, its reception
  msg,       \* the message of the frame
  single,    \* the buffer published for the modulator of 4800 bit/s
  double,    \* the one for the modulator of 9600 bit/s
  air,       \* the bits that follow the head of the frame
  noise,     \* bits still to flip, and the number flipped in this frame
  rd,        \* the static counters of read_callsign and read_data
  reg,       \* scramble_shift_reg of the receiver
  callsign,  \* its callsign
  mob,       \* its mob_data and mob_fec
  errs,      \* its errorcode: the blocks marked bad
  out        \* what output_message made of the frame

vars == <<phase, msg, single, double, air, noise, rd, reg, callsign, mob, errs, out>>

NoMessage == [control |-> <<>>]
NoFrame == [p \in {} |-> 0]
Quiet == [left |-> 0, callsign |-> 0, data |-> 0]

\* reset_rx: clear_blocks zeroes the callsign and all blocks.
NoCallsign == [i \in 0..7 |-> {}]
clear_blocks == [k \in Blocks |-> clear_block]

Init ==
  /\ phase = "idle"
  /\ msg = NoMessage
  /\ single = NoFrame
  /\ double = NoFrame
  /\ air = <<>>
  /\ noise = Quiet
  /\ rd = [callsign |-> 0, data |-> 0, block |-> 0]
  /\ reg = reset_scrambler
  /\ callsign = NoCallsign
  /\ mob = clear_blocks
  /\ errs = {}
  /\ out = {}

------------------------------------------------------------------------------
head == control_bits(encode_control(msg.control))
blocks == num_of_blocks(head)

\* What handle_msg encodes into the buffers of the encoder.
Encoded(m) ==
  LET cur == encode_control(m.control)
      h == control_bits(cur)
  IN  [cur |-> cur,
       baud |-> baud_bit(h),
       blocks |-> num_of_blocks(h),
       callsign |-> encode_callsign(m.callsign),
       mob |-> [k \in DOMAIN m.data |-> encode_datablock(m.data[k])]]

\* What transmit_msg publishes: a buffer for each modulator, whatever the rate.
Frame(tx) ==
  LET len == len_4k8(tx.baud, tx.blocks)
  IN  [single |-> Buffer(len, Parts_1(tx.baud, tx.blocks), tx),
       double |-> Buffer(2 * len, Parts_2(tx.baud, tx.blocks), tx)]
transmit_msg == [m \in Messages |-> Frame(Encoded(m))]

handle_msg(m) ==
  /\ phase = "idle"
  /\ phase' = "published"
  /\ msg' = m
  /\ single' = transmit_msg[m].single
  /\ double' = transmit_msg[m].double
  /\ noise' = Quiet
  /\ out' = {}
  /\ UNCHANGED <<air, rd, reg, callsign, mob, errs>>

\* The frame is sent, and the receiver of its rate has accepted its head.
Carrier == IF baud_bit(head) THEN double ELSE single
Transmit ==
  /\ phase = "published"
  /\ phase' = "callsign"
  /\ LET from == MessageAt(baud_bit(head)) + 40
     IN  air' = [n \in 1..(64 + blocks * 240) |-> IF Carrier[from + n - 1] = 1 THEN 1 ELSE 0]
  /\ single' = NoFrame
  /\ double' = NoFrame
  /\ UNCHANGED <<msg, noise, rd, reg, callsign, mob, errs, out>>

------------------------------------------------------------------------------
\* One disturbance of each frame flips some bits in a row, or none does.
NoiseStarts(bursts) ==
  IF noise.callsign + noise.data = 0 THEN {0} \cup bursts ELSE {noise.left}

\* The next bit of the channel, when left bits from it on are flipped.
Received(left) ==
  LET sent == air[1 + rd.callsign + rd.data + 240 * rd.block +
                  (IF phase = "data" THEN 64 ELSE 0)]
  IN  IF left > 0 THEN 1 - sent ELSE sent

Disturbed(field, left) ==
  noise' = IF left = 0 THEN noise
           ELSE [noise EXCEPT !.left = left - 1, ![field] = @ + 1]

ShiftIn(byte, bit) == (ShiftLeft(byte, 1) \ {8}) \cup (IF bit = 1 THEN {0} ELSE {})

\* RX_CS: read_callsign, and when it is complete decode_callsign, whose
\* verdict nobody looks at.
ReadCallsign(left) ==
  /\ phase = "callsign"
  /\ Disturbed("callsign", left)
  /\ LET i == rd.callsign \div 8
         read == [callsign EXCEPT ![i] = ShiftIn(@, Received(left))]
     IN  IF rd.callsign < 63
         THEN /\ callsign' = read
              /\ rd' = [rd EXCEPT !.callsign = @ + 1]
              /\ UNCHANGED <<phase, reg, errs>>
         ELSE /\ callsign' = decode_callsign(read)
              /\ rd' = [rd EXCEPT !.callsign = 0]
              /\ phase' = "data"
              /\ errs' = {}
              /\ reg' = reset_scrambler
  /\ UNCHANGED <<msg, single, double, air, mob, out>>

\* Bit n of a block goes where the encoder took it from; it is ORed in.
Deinterleaved(block, n, bit) ==
  LET one == IF bit = 1
             THEN {IF RowOf(n) < 8 THEN 7 - RowOf(n) ELSE 11 - RowOf(n)} ELSE {}
  IN  IF RowOf(n) < 8 THEN [block EXCEPT !.data[ByteOf(n)] = @ \cup one]
      ELSE [block EXCEPT !.fec[ByteOf(n)] = @ \cup one]

\* output_message, unless the sender asked for an acknowledgement and there
\* are errors.
output_message(decoded, errors) ==
  IF ack_bit(head) /\ errors # {} THEN {}
  ELSE {[control |-> msg.control, callsign |-> callsign,
         data |-> [k \in 0..(blocks - 1) |-> [i \in 0..17 |-> decoded[k].data[i]]],
         errs |-> errors]}

\* RX_DATA: read_data, decode_datablock at the end of a block, and at the end
\* of the last one the message and reset_rx.
ReadData(left) ==
  /\ phase = "data"
  /\ Disturbed("data", left)
  /\ reg' = NextRegister(reg)
  /\ LET k == rd.block
         read == Deinterleaved(mob[k], rd.data, scramble(Received(left), reg))
         result == decode_datablock(read)
         decoded == [mob EXCEPT ![k] = result.block]
         errors == IF result.ok THEN errs ELSE errs \cup {k}
     IN  \/ /\ rd.data < 239
            /\ mob' = [mob EXCEPT ![k] = read]
            /\ rd' = [rd EXCEPT !.data = @ + 1]
            /\ UNCHANGED <<phase, errs, air, out, callsign>>
         \/ /\ rd.data = 239 /\ k + 1 # blocks
            /\ mob' = decoded
            /\ errs' = errors
            /\ rd' = [rd EXCEPT !.data = 0, !.block = @ + 1]
            /\ UNCHANGED <<phase, air, out, callsign>>
         \/ /\ rd.data = 239 /\ k + 1 = blocks
            /\ errs' = errors
            /\ out' = output_message(decoded, errors)
            /\ callsign' = NoCallsign
            /\ mob' = clear_blocks
            /\ rd' = [rd EXCEPT !.data = 0, !.block = 0]
            /\ air' = <<>>
            /\ phase' = "idle"
  /\ UNCHANGED <<msg, single, double>>

Next ==
  \/ \E m \in Messages : handle_msg(m)
  \/ Transmit
  \/ \E left \in NoiseStarts(CallsignBursts) : ReadCallsign(left)
  \/ \E left \in NoiseStarts(DataBursts) : ReadData(left)

Spec == Init /\ [][Next]_vars

------------------------------------------------------------------------------
(* Properties                                                               *)

\* The modulators take turns: after the pad there is always exactly one that
\* sends, so that the change of rate leaves no gap and no collision.
OneRateAtATime ==
  phase = "published" =>
    \A p \in DOMAIN single :
      LET fast == {q \in {2 * p, 2 * p + 1} : double[q] # 0}
      IN  fast = IF single[p] # 0 \/ p < SyncAtBit THEN {} ELSE {2 * p, 2 * p + 1}

\* The head a receiver finds before the message is the message's own, although
\* the baud-change header was made in the same buffer just before.
HeadAnnouncesMessage ==
  phase = "published" =>
    LET heard == [n \in 1..40 |-> IF Carrier[MessageAt(baud_bit(head)) + n - 1] = 1
                                  THEN 1 ELSE 0]
        received == SubSeq(heard, 17, 40)
        h == decode_control(received)
    IN  /\ SubSeq(heard, 1, 16) = FRAMESYNC
        /\ control_ok(received)
        /\ num_of_blocks(h) = Cardinality(DOMAIN msg.data)
        /\ message_type(h) = message_type(head) /\ ack_bit(h) = ack_bit(head)

Delivered == phase = "idle" /\ msg # NoMessage

\* As many wrong bits in a row as a block has bytes do no harm: interleaving
\* spreads them, one for each byte, whatever came before.
ShortBurstCorrected ==
  Delivered /\ noise.data <= 20 =>
    \E o \in out : o.errs = {} /\ o.data = msg.data

\* More wrong bits are noticed: a block not marked bad holds what was sent.
WrongBlocksMarked ==
  \A o \in out : \A k \in DOMAIN msg.data : k \in o.errs \/ o.data[k] = msg.data[k]

\* A wrong bit of the callsign, or of its CRC, is corrected.
CallsignCorrected ==
  \A o \in out : noise.callsign <= 1 => o.callsign = encode_callsign(msg.callsign)

==============================================================================
