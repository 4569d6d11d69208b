------------------------------ MODULE MCNxLink -------------------------------
(***************************************************************************)
(* NxLink for TLC: a slow frame with one datablock, and a fast echo with   *)
(* two that asks for an acknowledgement.                                   *)
(***************************************************************************)
EXTENDS NxLink

ByteSet(n) == {i \in 0..7 : (n \div 2^i) % 2 = 1}

\* "DP0BEF" and "DP0BEH", the callsigns of BEESAT-2 and -4.
CallsignOf(last) ==
  [i \in 0..5 |-> ByteSet(<<68, 80, 48, 66, 69, last>>[i + 1])]

Payload(k) == [i \in 0..17 |-> ByteSet((37 * i + 101 * k) % 256)]

\* Control bytes: T_REG or T_ECHO in bits 7..5, the number of blocks less one, and the
\* acknowledgement and baud bits.
SlowMessage ==
  [control |-> <<{5}, {}>>, callsign |-> CallsignOf(70), data |-> <<Payload(0)>>]
FastMessage ==
  [control |-> <<{6, 5, 0}, {1, 0}>>, callsign |-> CallsignOf(72),
   data |-> <<Payload(1), Payload(2)>>]

\* Arrays count from 0.
FromZero(s) == [i \in 0..(Len(s) - 1) |-> s[i + 1]]
Array(m) == [m EXCEPT !.control = FromZero(@), !.data = FromZero(@)]

MCMessages == {Array(SlowMessage), Array(FastMessage)}
OneBit == {1}
OneRowTwoRows == {20, 40}
==============================================================================
