----------------------------- MODULE NxProtocol ------------------------------
(***************************************************************************)
(* The control bytes of a BEESAT-2/-4 frame (nx_protocol).  A frame head   *)
(* is the 24 bits that follow the frame-sync marker, in the order they are *)
(* received: bits 1..8 and 9..16 are the control bytes, most significant   *)
(* bit first, 17..20 and 21..24 their FEC nibbles.                         *)
(***************************************************************************)
EXTENDS MobitexFec

Bit == {0, 1}
HeadBits == 24
FrameHead == [1..HeadBits -> Bit]

\* The number that bits i..j of b are, most significant bit first.
Number(b, i, j) ==
  LET n[k \in (i - 1)..j] == IF k = i - 1 THEN 0 ELSE 2 * n[k - 1] + b[k]
  IN  n[j]

FRAMESYNC == <<0, 0, 0, 0, 1, 1, 1, 0, 1, 1, 1, 1, 0, 0, 0, 0>>

\* Message types, address nibbles and sub-addresses of nx_protocol.h.
T_ACK == 0
T_REG == 1
T_DIGI == 2
T_ECHO == 3
Addresses == {0, 15}
SubAddresses == {0, 3}

message_type(head) == Number(head, 1, 3)
num_of_blocks(head) == Number(head, 4, 8) + 1
check_address(head) ==
  Number(head, 9, 12) \in Addresses /\ Number(head, 13, 14) \in SubAddresses
ack_bit(head) == head[15] = 1
baud_bit(head) == head[16] = 1

------------------------------------------------------------------------------
\* The word that control byte k (0 or 1) and its FEC nibble form.
ControlWord(head, k) ==
  {i \in 0..3 : head[20 + 4 * k - i] = 1} \cup
  {i \in 4..11 : head[12 + 8 * k - i] = 1}

\* decode_control corrects each control byte in place, the second one only if
\* the first was correctable; the FEC bits stay.
control_ok(head) == \A k \in {0, 1} : Correctable(ControlWord(head, k))

decode_control(head) ==
  LET corrected == {k \in {0, 1} : \A j \in 0..k : Correctable(ControlWord(head, j))}
      flips(k) == {12 + 8 * k - (i + 4) : i \in decalc_fec(ControlWord(head, k))}
      wrong == UNION {flips(k) : k \in corrected}
  IN  [j \in 1..HeadBits |-> IF j \in wrong THEN 1 - head[j] ELSE head[j]]

==============================================================================
