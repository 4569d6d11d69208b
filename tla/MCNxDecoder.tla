---------------------------- MODULE MCNxDecoder ------------------------------
(***************************************************************************)
(* NxDecoder for TLC.  A stream is a few pieces one after the other: whole *)
(* frames, frames whose head is rejected, markers without their leading    *)
(* zeros, and single bits that shift what follows.  The last piece is a    *)
(* frame or a bit: what else ends a stream is followed by nothing to read. *)
(***************************************************************************)
EXTENDS NxDecoder, SequencesExt

\* The bits of number n in a field of w bits, most significant bit first.
BitsOf(n, w) == [i \in 1..w |-> (n \div 2^(w - i)) % 2]
ByteSet(n) == {i \in 0..7 : (n \div 2^i) % 2 = 1}
FecBits(n) == [i \in 1..4 |-> IF 4 - i \in calc_fec(ByteSet(n)) THEN 1 ELSE 0]

Control(c0, c1) == BitsOf(c0, 8) \o BitsOf(c1, 8) \o FecBits(c0) \o FecBits(c1)
Flipped(bits, i) == [bits EXCEPT ![i] = 1 - @]

MCCallsignBits == 2
MCBlockBits == 3
Body(blocks) == [i \in 1..(MCCallsignBits + blocks * MCBlockBits) |-> 1]

\* T_REG with one block; T_ECHO with two blocks that asks for an
\* acknowledgement, with a wrong bit the FEC corrects.
RegFrame == FRAMESYNC \o Control(32, 0) \o Body(1)
EchoFrame == FRAMESYNC \o Flipped(Control(97, 254), 3) \o Body(2)

\* Heads to reject: an acknowledgement, a foreign address, and control bytes
\* with a wrong FEC that hold the next marker.
AckHead == FRAMESYNC \o Control(0, 0)
ForeignHead == FRAMESYNC \o Control(32, 16)
BrokenHead == FRAMESYNC \o <<1, 1, 1>>
\* A marker the search finds just after a reset, although it is incomplete.
ShortMarker == SubSeq(FRAMESYNC, 5, 16)

Pieces == {RegFrame, EchoFrame, AckHead, ForeignHead, BrokenHead, ShortMarker, <<0>>, <<1>>}

Endings == {RegFrame, EchoFrame, <<0>>, <<1>>}

\* The streams for all sizes of the calls.
FewStreams ==
  {BrokenHead \o RegFrame \o Zeros(24), ShortMarker \o BrokenHead \o EchoFrame \o Zeros(7)}

MCStreams ==
  {p[1] \o p[2] \o e \o Zeros(36) : p \in [1..2 -> Pieces], e \in Endings} \cup FewStreams

MCCallSizes(s) == IF s \in FewStreams THEN 1..8 ELSE {13}
==============================================================================
