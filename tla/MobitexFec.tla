----------------------------- MODULE MobitexFec ------------------------------
(***************************************************************************)
(* The forward error correction of the Mobitex air interface               *)
(* (mobitex_coding): a byte and its four FEC bits form a word of 12 bits,  *)
(* bits 4..11 the byte and bits 0..3 the FEC.  A word is the set of its    *)
(* bits that are 1, so that & is \cap and ^ is the symmetric difference.   *)
(***************************************************************************)
EXTENDS Naturals, FiniteSetsExt

Word == SUBSET (0..11)
Byte == SUBSET (0..7)
Nibble == SUBSET (0..3)

Xor(a, b) == SymDiff(a, b)
ShiftLeft(a, n) == {i + n : i \in a}
ShiftRight(a, n) == {i - n : i \in {j \in a : j >= n}}

OddParity(a) == Cardinality(a) % 2 = 1

\* Mutated forms (used only by the mutants of PROJECT.json): a row of the
\* encoder with a wrong bit, and a wrong entry of the look-up table.
FEC_MATRIX_8bSlip ==
  [i \in 0..3 |-> CASE i = 0 -> {7, 6, 5, 3, 2}
                    [] i = 1 -> {7, 6, 4, 1, 0}
                    [] i = 2 -> {7, 5, 4, 2, 1}
                    [] i = 3 -> {6, 5, 4, 2, 0}]
FEC_LOOK_UPSlip(fec) ==
  CASE fec \in {{}} -> {}
    [] fec \in {{0}, {0, 2}, {0, 1, 2}} -> {0}
    [] fec \in {{1}, {1, 2}} -> {1}
    [] fec \in {{0, 1}} -> {0, 1}
    [] fec \in {{2}, {0, 3}, {0, 2, 3}, {0, 1, 3}} -> {2}
    [] fec \in {{3}, {1, 3}, {1, 2, 3}} -> {3}
    [] fec \in {{2, 3}, {0, 1, 2, 3}} -> 0..3

\* Row i protects the bits it holds with FEC bit 3 - i.
FEC_MATRIX_12b ==
  [i \in 0..3 |-> CASE i = 0 -> {11, 10, 9, 7, 6, 3}
                    [] i = 1 -> {11, 10, 8, 5, 4, 2}
                    [] i = 2 -> {11, 9, 8, 7, 5, 1}
                    [] i = 3 -> {10, 9, 8, 6, 4, 0}]
FEC_MATRIX_8b ==
  [i \in 0..3 |-> CASE i = 0 -> {7, 6, 5, 3, 2}
                    [] i = 1 -> {7, 6, 4, 1, 0}
                    [] i = 2 -> {7, 5, 4, 3, 1}
                    [] i = 3 -> {6, 5, 4, 2, 0}]

\* The bits to flip for the rows that fail (as FEC bits), before they are
\* moved to the nibble the number of failing rows selects.
FEC_LOOK_UP(fec) ==
  CASE fec \in {{}} -> {}
    [] fec \in {{0}, {0, 2}, {0, 1, 2}} -> {0}
    [] fec \in {{1}, {1, 2}, {0, 1, 3}} -> {1}
    [] fec \in {{0, 1}} -> {0, 1}
    [] fec \in {{2}, {0, 3}, {0, 2, 3}} -> {2}
    [] fec \in {{3}, {1, 3}, {1, 2, 3}} -> {3}
    [] fec \in {{2, 3}, {0, 1, 2, 3}} -> 0..3

calc_fec(byte) == {3 - i : i \in {r \in 0..3 : OddParity(FEC_MATRIX_8b[r] \cap byte)}}

FailingRows(word) ==
  {3 - i : i \in {r \in 0..3 : OddParity(FEC_MATRIX_12b[r] \cap word)}}

\* One correction is tried, and kept only if no row fails any more.  With
\* four failing rows it falls outside the word and never helps.
Correction(word) ==
  LET fec == FailingRows(word)
  IN  IF fec = {} THEN {}
      ELSE ShiftLeft(FEC_LOOK_UP(fec), 4 * (Cardinality(fec) - 1))

Correctable(word) == FailingRows(Xor(word, Correction(word))) = {}

\* decalc_fec: the part of the correction that concerns the byte.
decalc_fec(word) == ShiftRight(Correction(word), 4)

WordOf(byte, fec) == ShiftLeft(byte, 4) \cup fec

\* check_fec corrects the byte in place; one it cannot correct stays.
Corrected(byte, fec) ==
  LET word == WordOf(byte, fec)
  IN  IF Correctable(word) THEN Xor(byte, decalc_fec(word)) ELSE byte

==============================================================================
