---------------------------- MODULE MobitexCoding ----------------------------
(***************************************************************************)
(* The rest of mobitex_coding: the checksums of callsign and datablocks,   *)
(* their encoding and decoding, and the scrambler.  Bytes and registers    *)
(* are sets of bits, as in MobitexFec; arrays of bytes are functions from  *)
(* 0 on.                                                                   *)
(***************************************************************************)
EXTENDS MobitexFec

\* Mutated forms (used only by the mutants of PROJECT.json): the CRC left out of
\* the search for flipped bits, bytes checked but not corrected, and a block
\* accepted on its FEC alone.
CallsignBitOfName == 0..(8 * 6 - 1)
DecodedDataAsRead(block) == block.data
CrcOkAlways(data) == TRUE

GEN_POLY_CS == {12, 5, 0}
GEN_POLY_X25 == {15, 10, 3}

HighByte(reg) == ShiftRight(reg, 8) \cap (0..7)
LowByte(reg) == reg \cap (0..7)

Register == SUBSET (0..15)

\* The register of calc_cs_crc one bit on.
CrcShift(reg) ==
  LET moved == ShiftLeft(reg, 1) \ {16}
  IN  IF 15 \in reg THEN Xor(moved, GEN_POLY_CS) ELSE moved

\* The inner loops: the register n bits on, and the CRC register after bits j to 7
\* of a byte.
Shifted[n \in 0..8] ==
  [reg \in Register |-> IF n = 0 THEN reg ELSE Shifted[n - 1][CrcShift(reg)]]

FedBack[reg \in Register, byte \in Byte, j \in 0..8] ==
  IF j = 8 THEN reg
  ELSE LET moved == ShiftRight(reg, 1)
       IN  FedBack[IF (j \in byte) # (0 \in reg) THEN Xor(moved, GEN_POLY_X25) ELSE moved,
                   byte, j + 1]

\* The CRC of the first n bytes, most significant bits first.
calc_cs_crc(bytes, n) ==
  LET crc[k \in 0..n] ==
        IF k = 0 THEN {} ELSE Shifted[8][Xor(crc[k - 1], ShiftLeft(bytes[k - 1], 8))]
  IN  crc[n]

\* The CRC of the first n bytes, least significant bits first.
calc_db_crc(bytes, n) ==
  LET crc[k \in 0..n] == IF k = 0 THEN 0..15 ELSE FedBack[crc[k - 1], bytes[k - 1], 0]
  IN  Xor(crc[n], 0..15)

------------------------------------------------------------------------------
(* Callsign: six bytes and their CRC.                                       *)

Callsign == [0..7 -> Byte]

encode_callsign(name) ==
  LET crc == calc_cs_crc(name, 6)
  IN  [i \in 0..7 |-> IF i < 6 THEN name[i] ELSE IF i = 6 THEN HighByte(crc) ELSE LowByte(crc)]

\* BIT_FLIP: bit n of the callsign is bit n % 8 of byte n \div 8.
BIT_FLIP(callsign, bits) ==
  [i \in 0..7 |-> Xor(callsign[i], {n % 8 : n \in {b \in bits : b \div 8 = i}})]

Intact(callsign) == calc_cs_crc(callsign, 8) = {}

\* The bits decode_callsign tries to flip.
CallsignBit == 0..(8 * 8 - 1)

\* The callsign with the first single bit, else the first two bits flipped
\* that make its CRC match; unchanged if there are none.
decode_callsign(callsign) ==
  LET one == {i \in CallsignBit : Intact(BIT_FLIP(callsign, {i}))}
      second(i) == {j \in CallsignBit : j > i /\ Intact(BIT_FLIP(callsign, {i, j}))}
      first == {i \in CallsignBit : second(i) # {}}
  IN  IF Intact(callsign) THEN callsign
      ELSE IF one # {} THEN BIT_FLIP(callsign, {Min(one)})
      ELSE IF first # {} THEN BIT_FLIP(callsign, {Min(first), Min(second(Min(first)))})
      ELSE callsign

------------------------------------------------------------------------------
(* Datablock: 18 bytes and their CRC, each of the 20 bytes with its FEC.    *)

Datablock == [data : [0..19 -> Byte], fec : [0..19 -> Nibble]]

clear_block == [data |-> [j \in 0..19 |-> {}], fec |-> [j \in 0..19 |-> {}]]

encode_datablock(bytes) ==
  LET crc == calc_db_crc(bytes, 18)
      data == [j \in 0..19 |->
                 IF j < 18 THEN bytes[j] ELSE IF j = 18 THEN HighByte(crc) ELSE LowByte(crc)]
  IN  [data |-> data, fec |-> [j \in 0..19 |-> calc_fec(data[j])]]

\* check_fec, for all bytes of the block.
FecOk(block) == \A j \in 0..19 : Correctable(WordOf(block.data[j], block.fec[j]))

CrcOk(data) ==
  LET crc == calc_db_crc(data, 18)
  IN  data[18] = HighByte(crc) /\ data[19] = LowByte(crc)

\* Each byte that can be corrected is, whatever becomes of the others.
DecodedData(block) ==
  [j \in 0..19 |-> Corrected(block.data[j], block.fec[j])]

decode_datablock(block) ==
  [ok |-> FecOk(block) /\ CrcOk(DecodedData(block)),
   block |-> [block EXCEPT !.data = DecodedData(block)]]

------------------------------------------------------------------------------
(* Scrambler: a register of nine bits; a bit is scrambled and descrambled   *)
(* by the same operation.                                                   *)

ScrambleRegister == SUBSET (0..8)
reset_scrambler == 0..8

scramble(bit, reg) == IF 0 \in reg THEN 1 - bit ELSE bit
NextRegister(reg) ==
  ShiftRight(IF (0 \in reg) # (4 \in reg) THEN reg \cup {9} ELSE reg, 1)

\* The register after n bits.
Advance[n \in 0..20] ==
  [reg \in ScrambleRegister |-> IF n = 0 THEN reg ELSE Advance[n - 1][NextRegister(reg)]]

==============================================================================
