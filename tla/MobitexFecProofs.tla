--------------------------- MODULE MobitexFecProofs ---------------------------
(***************************************************************************)
(* The FEC of MobitexFec corrects one wrong bit of twelve and accepts code *)
(* words only: for every byte and every word.  The rows of the check are   *)
(* linear, so that what fails depends on the wrong bits alone, and there   *)
(* are only as many cases as there are bits or sets of failing rows.       *)
(***************************************************************************)
EXTENDS MobitexFec, FiniteSetTheorems, TLAPS

------------------------------------------------------------------------------
(* Parity                                                                   *)

LEMMA FiniteWord == ASSUME NEW w \in Word PROVE IsFiniteSet(w)
<1>1. IsFiniteSet(0..11)
  BY 0 \in Int, 11 \in Int, FS_Interval, Zenon
<1> QED
  BY <1>1, FS_Subset DEF Word

\* Bits that both sets have cancel out.
LEMMA ParityXor ==
  ASSUME NEW a, NEW b, IsFiniteSet(a), IsFiniteSet(b)
  PROVE  OddParity(Xor(a, b)) <=> ~(OddParity(a) <=> OddParity(b))
<1> DEFINE c == a \cap b
           d == Xor(a, b)
<1>1. /\ IsFiniteSet(c) /\ IsFiniteSet(a \cup b)
      /\ Cardinality(a \cup b) = Cardinality(a) + Cardinality(b) - Cardinality(c)
  BY FS_Union, FS_Intersection
<1>2. d \cup c = a \cup b /\ d \cap c = {} /\ d \subseteq a \cup b
  BY DEF Xor, SymDiff
<1>3. IsFiniteSet(d)
  BY <1>1, <1>2, FS_Subset
<1> HIDE DEF c, d
<1>4. Cardinality(d \cup c) = Cardinality(d) + Cardinality(c) - Cardinality(d \cap c)
  BY <1>1, <1>3, FS_Union
<1>5. /\ Cardinality(a) \in Nat /\ Cardinality(b) \in Nat
      /\ Cardinality(c) \in Nat /\ Cardinality(d) \in Nat
  BY <1>1, <1>3, FS_CardinalityType
<1>6. Cardinality(d) = Cardinality(a) + Cardinality(b) - 2 * Cardinality(c)
  <2>1. Cardinality(d \cap c) = 0
    BY <1>2, FS_EmptySet
  <2>2. Cardinality(d) + Cardinality(c) = Cardinality(a) + Cardinality(b) - Cardinality(c)
    <3>1. Cardinality(d \cup c) = Cardinality(a \cup b)
      BY <1>2
    <3>2. Cardinality(d \cup c) = Cardinality(d) + Cardinality(c)
      BY <1>4, <1>5, <2>1
    <3> QED
      BY <1>1, <3>1, <3>2
  <2> QED
    BY <1>5, <2>2
<1> HIDE DEF OddParity
<1>7. OddParity(d) <=> ~(OddParity(a) <=> OddParity(b))
  BY <1>5, <1>6 DEF OddParity
<1> QED
  BY <1>7 DEF d

\* A single bit is odd, and no bit is even.
LEMMA ParityUnit ==
  ASSUME NEW a, NEW i
  PROVE  OddParity(a \cap {i}) <=> i \in a
<1>1. CASE i \in a
  <2>1. a \cap {i} = {i}
    BY <1>1
  <2>2. Cardinality(a \cap {i}) = 1
    BY <2>1, FS_Singleton, Zenon
  <2> QED
    BY <1>1, <2>2 DEF OddParity
<1>2. CASE i \notin a
  <2>1. a \cap {i} = {}
    BY <1>2
  <2>2. Cardinality(a \cap {i}) = 0
    BY <2>1, FS_EmptySet, Zenon
  <2> QED
    BY <1>2, <2>2 DEF OddParity
<1> QED
  BY <1>1, <1>2

\* Moving the bits of a nibble or byte changes none of them.
LEMMA ParityShift ==
  ASSUME NEW a \in Byte
  PROVE  OddParity(ShiftLeft(a, 4)) <=> OddParity(a)
<1> DEFINE b == ShiftLeft(a, 4)
           f == [i \in a |-> i + 4]
<1>1. IsFiniteSet(a)
  <2>1. IsFiniteSet(0..7)
    BY 0 \in Int, 7 \in Int, FS_Interval, Zenon
  <2> QED
    BY <2>1, FS_Subset DEF Byte
<1>2. f \in Bijection(a, b)
  BY DEF Byte, ShiftLeft, Bijection, Injection, Surjection, IsInjective
<1>3. Cardinality(b) = Cardinality(a)
  BY <1>1, <1>2, FS_Bijection DEF ExistsBijection
<1> QED
  BY <1>3 DEF OddParity

------------------------------------------------------------------------------
(* The rows of the check                                                    *)

LEMMA RowFails ==
  ASSUME NEW w, NEW r \in 0..3
  PROVE  3 - r \in FailingRows(w) <=> OddParity(FEC_MATRIX_12b[r] \cap w)
<1>1. \A q \in 0..3 : 3 - q = 3 - r => q = r
  OBVIOUS
<1> QED
  BY <1>1 DEF FailingRows

LEMMA RowsOnly ==
  ASSUME NEW w
  PROVE  /\ FailingRows(w) \subseteq 0..3
         /\ \A k \in FailingRows(w) : 3 - k \in 0..3 /\ k = 3 - (3 - k)
<1>1. \A k \in FailingRows(w) : \E r \in 0..3 : k = 3 - r
  BY DEF FailingRows
<1> QED
  BY <1>1

\* Rows fail in equal words alike.
LEMMA SameRows ==
  ASSUME NEW v, NEW w,
         \A r \in 0..3 : OddParity(FEC_MATRIX_12b[r] \cap v) <=> OddParity(FEC_MATRIX_12b[r] \cap w)
  PROVE  FailingRows(v) = FailingRows(w)
<1>1. {r \in 0..3 : OddParity(FEC_MATRIX_12b[r] \cap v)} = {r \in 0..3 : OddParity(FEC_MATRIX_12b[r] \cap w)}
  OBVIOUS
<1> QED
  BY <1>1 DEF FailingRows

\* The check is linear.
LEMMA RowXor ==
  ASSUME NEW v \in Word, NEW w \in Word, NEW r \in 0..3
  PROVE  OddParity(FEC_MATRIX_12b[r] \cap Xor(v, w))
           <=> ~(OddParity(FEC_MATRIX_12b[r] \cap v) <=> OddParity(FEC_MATRIX_12b[r] \cap w))
<1> DEFINE m == FEC_MATRIX_12b[r]
<1>1. m \cap Xor(v, w) = Xor(m \cap v, m \cap w)
  BY DEF Xor, SymDiff
<1>2. IsFiniteSet(m \cap v) /\ IsFiniteSet(m \cap w)
  BY FiniteWord, FS_Intersection
<1> QED
  BY <1>1, <1>2, ParityXor

\* The check of twelve bits against the encoder: a row fails where the FEC bit
\* is not the one calc_fec yields for the byte.
LEMMA RowOfByte ==
  ASSUME NEW w \in Word, NEW r \in 0..3
  PROVE  OddParity(FEC_MATRIX_12b[r] \cap w)
           <=> ~(3 - r \in w <=> OddParity(FEC_MATRIX_8b[r] \cap ShiftRight(w, 4)))
<1> DEFINE m == FEC_MATRIX_12b[r]
           byte8 == FEC_MATRIX_8b[r] \cap ShiftRight(w, 4)
           high == ShiftLeft(byte8, 4)
           low == w \cap {3 - r}
<1>1. FEC_MATRIX_8b[r] \in SUBSET (0..7) /\ m = ShiftLeft(FEC_MATRIX_8b[r], 4) \cup {3 - r}
  <2>1. CASE r = 0
    BY <2>1 DEF FEC_MATRIX_12b, FEC_MATRIX_8b, ShiftLeft
  <2>2. CASE r = 1
    BY <2>2 DEF FEC_MATRIX_12b, FEC_MATRIX_8b, ShiftLeft
  <2>3. CASE r = 2
    BY <2>3 DEF FEC_MATRIX_12b, FEC_MATRIX_8b, ShiftLeft
  <2>4. CASE r = 3
    BY <2>4 DEF FEC_MATRIX_12b, FEC_MATRIX_8b, ShiftLeft
  <2> QED
    BY <2>1, <2>2, <2>3, <2>4
<1>2. byte8 \in Byte
  BY <1>1 DEF Byte
<1>3. m \cap w = Xor(high, low)
  <2>1. \A i \in w : i \in ShiftLeft(FEC_MATRIX_8b[r], 4) <=> i \in high
    BY <1>1 DEF ShiftLeft, ShiftRight, Word
  <2>2. high \subseteq w
    BY <1>1 DEF ShiftLeft, ShiftRight, Word
  <2>3. \A i \in high : i # 3 - r
    BY <1>2 DEF ShiftLeft, Byte
  <2> HIDE DEF high
  <2> QED
    BY <1>1, <2>1, <2>2, <2>3 DEF Xor, SymDiff
<1>4. IsFiniteSet(high) /\ IsFiniteSet(low)
  <2>1. high \in Word /\ low \in Word
    BY <1>2 DEF ShiftLeft, Byte, Word
  <2> QED
    BY <2>1, FiniteWord
<1>5. OddParity(high) <=> OddParity(byte8)
  BY <1>2, ParityShift
<1>6. OddParity(low) <=> 3 - r \in w
  BY ParityUnit
<1> HIDE DEF m, byte8, high, low
<1>7. OddParity(m \cap w) <=> ~(3 - r \in w <=> OddParity(byte8))
  BY <1>3, <1>4, <1>5, <1>6, ParityXor
<1> QED
  BY <1>7 DEF m, byte8

------------------------------------------------------------------------------
(* Words and their bytes                                                    *)

LEMMA WordParts ==
  ASSUME NEW b \in Byte, NEW f \in Nibble
  PROVE  /\ WordOf(b, f) \in Word
         /\ ShiftRight(WordOf(b, f), 4) = b /\ WordOf(b, f) \cap (0..3) = f
<1> DEFINE w == WordOf(b, f)
<1>1. \A i \in w : i \in 0..11 /\ (i >= 4 => i - 4 \in b) /\ (i < 4 => i \in f)
  <2>1. ASSUME NEW i \in f PROVE i \in 0..11 /\ ~(i >= 4)
    BY DEF Nibble
  <2>2. ASSUME NEW i \in b PROVE i + 4 \in 0..11 /\ ~(i + 4 < 4) /\ (i + 4) - 4 = i
    BY DEF Byte
  <2>3. \A i \in w : i \in f \/ \E j \in b : i = j + 4
    BY DEF WordOf, ShiftLeft
  <2> QED
    BY <2>1, <2>2, <2>3
<1>2. (\A i \in b : i + 4 \in w /\ i + 4 >= 4 /\ (i + 4) - 4 = i) /\ \A i \in f : i \in w /\ i \in 0..3 /\ i < 4
  BY DEF WordOf, ShiftLeft, Byte, Nibble
<1> HIDE DEF w
<1>3. ShiftRight(w, 4) = b
  BY <1>1, <1>2 DEF ShiftRight, Byte
<1>4. w \cap (0..3) = f
  BY <1>1, <1>2
<1>5. w \in Word
  BY <1>1 DEF Word
<1> QED
  BY <1>3, <1>4, <1>5 DEF w

LEMMA PartsOfWord ==
  ASSUME NEW w \in Word
  PROVE  /\ ShiftRight(w, 4) \in Byte /\ w \cap (0..3) \in Nibble
         /\ w = WordOf(ShiftRight(w, 4), w \cap (0..3))
<1>1. \A i \in w : i \in 0..11
  BY DEF Word
<1>2. \A i \in w : i \in 0..3 \/ (i >= 4 /\ i - 4 \in ShiftRight(w, 4) /\ (i - 4) + 4 = i)
  BY <1>1 DEF ShiftRight
<1>3. \A i \in ShiftRight(w, 4) : i \in 0..7 /\ i + 4 \in w
  BY <1>1 DEF ShiftRight
<1>4. w = ShiftLeft(ShiftRight(w, 4), 4) \cup (w \cap (0..3))
  BY <1>2, <1>3 DEF ShiftLeft
<1> QED
  BY <1>3, <1>4 DEF Byte, Nibble, WordOf

LEMMA CalcBits ==
  ASSUME NEW b
  PROVE  /\ calc_fec(b) \in Nibble
         /\ \A r \in 0..3 : 3 - r \in calc_fec(b) <=> OddParity(FEC_MATRIX_8b[r] \cap b)
<1> DEFINE odd == {r \in 0..3 : OddParity(FEC_MATRIX_8b[r] \cap b)}
<1>1. \A q, r \in 0..3 : 3 - q \in 0..3 /\ (3 - q = 3 - r => q = r)
  OBVIOUS
<1>2. odd \subseteq 0..3 /\ calc_fec(b) = {3 - i : i \in odd}
  BY DEF calc_fec
<1>3. \A r \in 0..3 : r \in odd <=> OddParity(FEC_MATRIX_8b[r] \cap b)
  OBVIOUS
<1> HIDE DEF odd
<1>4. calc_fec(b) \in Nibble
  BY <1>1, <1>2 DEF Nibble
<1>5. \A r \in 0..3 : 3 - r \in calc_fec(b) <=> r \in odd
  BY <1>1, <1>2
<1> QED
  BY <1>3, <1>4, <1>5

\* No row fails in the words of the encoder, and in no other.
LEMMA NoRowFails ==
  ASSUME NEW w \in Word
  PROVE  FailingRows(w) = {} <=> w = WordOf(ShiftRight(w, 4), calc_fec(ShiftRight(w, 4)))
<1> DEFINE b == ShiftRight(w, 4)
<1>1. \A r \in 0..3 : 3 - r \in FailingRows(w) <=> ~(3 - r \in w <=> 3 - r \in calc_fec(b))
  BY RowFails, RowOfByte, CalcBits
<1>2. FailingRows(w) = {} <=> \A k \in 0..3 : k \in w <=> k \in calc_fec(b)
  <2>1. \A k \in 0..3 : 3 - k \in 0..3 /\ 3 - (3 - k) = k
    OBVIOUS
  <2>2. \A k \in 0..3 : k \in FailingRows(w) <=> ~(k \in w <=> k \in calc_fec(b))
    <3> SUFFICES ASSUME NEW k \in 0..3 PROVE k \in FailingRows(w) <=> ~(k \in w <=> k \in calc_fec(b))
      OBVIOUS
    <3> PICK r \in 0..3 : k = 3 - r
      BY <2>1
    <3> QED
      BY <1>1
  <2> QED
    BY <2>2, RowsOnly
<1>3. w \cap (0..3) = calc_fec(b) <=> \A k \in 0..3 : k \in w <=> k \in calc_fec(b)
  BY CalcBits DEF Nibble
<1>4. w = WordOf(b, calc_fec(b)) => w \cap (0..3) = calc_fec(b)
  BY PartsOfWord, WordParts, CalcBits
<1>5. w \cap (0..3) = calc_fec(b) => w = WordOf(b, calc_fec(b))
  BY PartsOfWord
<1> QED
  BY <1>2, <1>3, <1>4, <1>5

------------------------------------------------------------------------------
(* The look-up table                                                        *)

LEMMA SmallSets ==
  /\ \A i : Cardinality({i}) = 1
  /\ \A i, j : i # j => Cardinality({i, j}) = 2
  /\ \A i, j, k : i # j /\ i # k /\ j # k => Cardinality({i, j, k}) = 3
<1>1. \A i : IsFiniteSet({i}) /\ Cardinality({i}) = 1
  BY FS_Singleton, Zenon
<1>2. ASSUME NEW S, NEW x, IsFiniteSet(S), x \notin S
      PROVE  IsFiniteSet(S \cup {x}) /\ Cardinality(S \cup {x}) = Cardinality(S) + 1
  BY <1>2, FS_AddElement, Zenon
<1>3. ASSUME NEW i, NEW j, i # j PROVE IsFiniteSet({i, j}) /\ Cardinality({i, j}) = 2
  <2>1. {i, j} = {i} \cup {j} /\ j \notin {i}
    BY <1>3
  <2>2. IsFiniteSet({i} \cup {j}) /\ Cardinality({i} \cup {j}) = Cardinality({i}) + 1
    BY <1>1, <1>2, <2>1, Zenon
  <2>3. Cardinality({i} \cup {j}) = 2
    BY <1>1, <2>2
  <2> QED
    BY <2>1, <2>2, <2>3, Zenon
<1>4. ASSUME NEW i, NEW j, NEW k, i # j, i # k, j # k PROVE Cardinality({i, j, k}) = 3
  <2>1. {i, j, k} = {i, j} \cup {k} /\ k \notin {i, j}
    BY <1>4
  <2>2. IsFiniteSet({i, j}) /\ Cardinality({i, j}) = 2
    BY <1>3, <1>4, Zenon
  <2>3. Cardinality({i, j} \cup {k}) = Cardinality({i, j}) + 1
    BY <1>2, <2>1, <2>2, Zenon
  <2>4. Cardinality({i, j} \cup {k}) = 3
    BY <2>2, <2>3
  <2> QED
    BY <2>1, <2>4, Zenon
<1>5. \A i, j : i # j => Cardinality({i, j}) = 2
  BY <1>3
<1>6. \A i, j, k : i # j /\ i # k /\ j # k => Cardinality({i, j, k}) = 3
  BY <1>4, Zenon
<1> QED
  BY <1>1, <1>5, <1>6

\* The sets of rows, by the rows they hold.
LEMMA RowSets ==
  ASSUME NEW s, s \subseteq 0..3
  PROVE  \/ s = {}
         \/ s = {0} \/ s = {1} \/ s = {2} \/ s = {3}
         \/ s = {0, 1} \/ s = {0, 2} \/ s = {0, 3} \/ s = {1, 2} \/ s = {1, 3} \/ s = {2, 3}
         \/ s = {0, 1, 2} \/ s = {0, 1, 3} \/ s = {0, 2, 3} \/ s = {1, 2, 3}
         \/ s = {0, 1, 2, 3}
<1>1. \A t : t \subseteq 0..3 /\ (0 \in s <=> 0 \in t) /\ (1 \in s <=> 1 \in t)
            /\ (2 \in s <=> 2 \in t) /\ (3 \in s <=> 3 \in t) => s = t
  <2> SUFFICES ASSUME NEW t, t \subseteq 0..3, 0 \in s <=> 0 \in t, 1 \in s <=> 1 \in t,
                      2 \in s <=> 2 \in t, 3 \in s <=> 3 \in t
               PROVE  s = t
    OBVIOUS
  <2>1. \A k \in 0..3 : k = 0 \/ k = 1 \/ k = 2 \/ k = 3
    OBVIOUS
  <2>2. \A k \in 0..3 : k \in s <=> k \in t
    BY <2>1, Zenon
  <2> QED
    BY <2>2
<1>2. 0 \notin s /\ 1 \notin s /\ 2 \notin s /\ 3 \notin s => s = {}
  BY <1>1
<1>3. 0 \in s /\ 1 \notin s /\ 2 \notin s /\ 3 \notin s => s = {0}
  BY <1>1
<1>4. 0 \notin s /\ 1 \in s /\ 2 \notin s /\ 3 \notin s => s = {1}
  BY <1>1
<1>5. 0 \notin s /\ 1 \notin s /\ 2 \in s /\ 3 \notin s => s = {2}
  BY <1>1
<1>6. 0 \notin s /\ 1 \notin s /\ 2 \notin s /\ 3 \in s => s = {3}
  BY <1>1
<1>7. 0 \in s /\ 1 \in s /\ 2 \notin s /\ 3 \notin s => s = {0, 1}
  BY <1>1
<1>8. 0 \in s /\ 1 \notin s /\ 2 \in s /\ 3 \notin s => s = {0, 2}
  BY <1>1
<1>9. 0 \in s /\ 1 \notin s /\ 2 \notin s /\ 3 \in s => s = {0, 3}
  BY <1>1
<1>10. 0 \notin s /\ 1 \in s /\ 2 \in s /\ 3 \notin s => s = {1, 2}
  BY <1>1
<1>11. 0 \notin s /\ 1 \in s /\ 2 \notin s /\ 3 \in s => s = {1, 3}
  BY <1>1
<1>12. 0 \notin s /\ 1 \notin s /\ 2 \in s /\ 3 \in s => s = {2, 3}
  BY <1>1
<1>13. 0 \in s /\ 1 \in s /\ 2 \in s /\ 3 \notin s => s = {0, 1, 2}
  BY <1>1
<1>14. 0 \in s /\ 1 \in s /\ 2 \notin s /\ 3 \in s => s = {0, 1, 3}
  BY <1>1
<1>15. 0 \in s /\ 1 \notin s /\ 2 \in s /\ 3 \in s => s = {0, 2, 3}
  BY <1>1
<1>16. 0 \notin s /\ 1 \in s /\ 2 \in s /\ 3 \in s => s = {1, 2, 3}
  BY <1>1
<1>17. 0 \in s /\ 1 \in s /\ 2 \in s /\ 3 \in s => s = {0, 1, 2, 3}
  BY <1>1
<1> QED
  BY <1>2, <1>3, <1>4, <1>5, <1>6, <1>7, <1>8, <1>9, <1>10, <1>11, <1>12, <1>13, <1>14, <1>15, <1>16, <1>17

\* The entries of the table, and how many rows select the nibble.
LEMMA LookUp ==
  /\ Cardinality({0}) = 1 /\ FEC_LOOK_UP({0}) = {0}
  /\ Cardinality({1}) = 1 /\ FEC_LOOK_UP({1}) = {1}
  /\ Cardinality({2}) = 1 /\ FEC_LOOK_UP({2}) = {2}
  /\ Cardinality({3}) = 1 /\ FEC_LOOK_UP({3}) = {3}
  /\ Cardinality({0, 2}) = 2 /\ FEC_LOOK_UP({0, 2}) = {0}
  /\ Cardinality({0, 3}) = 2 /\ FEC_LOOK_UP({0, 3}) = {2}
  /\ Cardinality({1, 2}) = 2 /\ FEC_LOOK_UP({1, 2}) = {1}
  /\ Cardinality({1, 3}) = 2 /\ FEC_LOOK_UP({1, 3}) = {3}
  /\ Cardinality({0, 1, 2}) = 3 /\ FEC_LOOK_UP({0, 1, 2}) = {0}
  /\ Cardinality({0, 1, 3}) = 3 /\ FEC_LOOK_UP({0, 1, 3}) = {1}
  /\ Cardinality({0, 2, 3}) = 3 /\ FEC_LOOK_UP({0, 2, 3}) = {2}
  /\ Cardinality({1, 2, 3}) = 3 /\ FEC_LOOK_UP({1, 2, 3}) = {3}
  /\ Cardinality({0, 1}) = 2 /\ FEC_LOOK_UP({0, 1}) = {0, 1}
  /\ Cardinality({2, 3}) = 2 /\ FEC_LOOK_UP({2, 3}) = 0..3
  /\ FEC_LOOK_UP({0, 1, 2, 3}) = 0..3
<1>0. 0 # 1 /\ 0 # 2 /\ 0 # 3 /\ 1 # 2 /\ 1 # 3 /\ 2 # 3
  OBVIOUS
<1>1. FEC_LOOK_UP({0}) = {0}
  BY DEF FEC_LOOK_UP
<1>2. FEC_LOOK_UP({1}) = {1}
  BY DEF FEC_LOOK_UP
<1>3. FEC_LOOK_UP({2}) = {2}
  BY DEF FEC_LOOK_UP
<1>4. FEC_LOOK_UP({3}) = {3}
  BY DEF FEC_LOOK_UP
<1>5. FEC_LOOK_UP({0, 2}) = {0}
  BY DEF FEC_LOOK_UP
<1>6. FEC_LOOK_UP({0, 3}) = {2}
  BY DEF FEC_LOOK_UP
<1>7. FEC_LOOK_UP({1, 2}) = {1}
  BY DEF FEC_LOOK_UP
<1>8. FEC_LOOK_UP({1, 3}) = {3}
  BY DEF FEC_LOOK_UP
<1>9. FEC_LOOK_UP({0, 1, 2}) = {0}
  BY DEF FEC_LOOK_UP
<1>10. FEC_LOOK_UP({0, 1, 3}) = {1}
  BY DEF FEC_LOOK_UP
<1>11. FEC_LOOK_UP({0, 2, 3}) = {2}
  BY DEF FEC_LOOK_UP
<1>12. FEC_LOOK_UP({1, 2, 3}) = {3}
  BY DEF FEC_LOOK_UP
<1>13. FEC_LOOK_UP({0, 1}) = {0, 1} /\ FEC_LOOK_UP({2, 3}) = 0..3
  BY DEF FEC_LOOK_UP
<1>14. FEC_LOOK_UP({0, 1, 2, 3}) = 0..3
  BY DEF FEC_LOOK_UP
<1>15. /\ Cardinality({0}) = 1
       /\ Cardinality({1}) = 1
       /\ Cardinality({2}) = 1
       /\ Cardinality({3}) = 1
  BY SmallSets, Zenon
<1>16. /\ Cardinality({0, 1}) = 2
       /\ Cardinality({0, 2}) = 2
       /\ Cardinality({0, 3}) = 2
       /\ Cardinality({1, 2}) = 2
       /\ Cardinality({1, 3}) = 2
       /\ Cardinality({2, 3}) = 2
  BY <1>0, SmallSets, Zenon
<1>17. /\ Cardinality({0, 1, 2}) = 3
       /\ Cardinality({0, 1, 3}) = 3
  BY <1>0, SmallSets, ZenonT(30)
<1>18. Cardinality({0, 2, 3}) = 3
  BY <1>0, SmallSets
<1>19. Cardinality({1, 2, 3}) = 3
  BY <1>0, SmallSets, ZenonT(30)
<1> QED
  BY <1>1, <1>2, <1>3, <1>4, <1>5, <1>6, <1>7, <1>8, <1>9, <1>10, <1>11, <1>12, <1>13, <1>14, <1>15, <1>16, <1>17, <1>18, <1>19

\* One bit of the table moves to the nibble the number of failing rows selects.
LEMMA OneBit ==
  ASSUME NEW x, NEW n \in 1..3, NEW c \in 0..3,
         FailingRows(x) # {}, Cardinality(FailingRows(x)) = n, FEC_LOOK_UP(FailingRows(x)) = {c}
  PROVE  Correction(x) = {c + 4 * (n - 1)}
<1>1. Correction(x) = ShiftLeft({c}, 4 * (n - 1))
  BY DEF Correction
<1> QED
  BY <1>1 DEF ShiftLeft

------------------------------------------------------------------------------
(* One wrong bit                                                            *)

LEMMA UnitColumn ==
  ASSUME NEW w \in Word, FailingRows(w) = {}, NEW i \in 0..11
  PROVE  /\ FailingRows(Xor(w, {i})) \subseteq 0..3
         /\ 0 \in FailingRows(Xor(w, {i})) <=> i \in {10, 9, 8, 6, 4, 0}
         /\ 1 \in FailingRows(Xor(w, {i})) <=> i \in {11, 9, 8, 7, 5, 1}
         /\ 2 \in FailingRows(Xor(w, {i})) <=> i \in {11, 10, 8, 5, 4, 2}
         /\ 3 \in FailingRows(Xor(w, {i})) <=> i \in {11, 10, 9, 7, 6, 3}
<1> DEFINE x == Xor(w, {i})
<1>1. {i} \in Word
  BY DEF Word
<1>2. \A r \in 0..3 : ~OddParity(FEC_MATRIX_12b[r] \cap w)
  BY RowFails
<1>3. \A r \in 0..3 : OddParity(FEC_MATRIX_12b[r] \cap x) <=> i \in FEC_MATRIX_12b[r]
  BY <1>1, <1>2, RowXor, ParityUnit
<1>4. \A r \in 0..3 : 3 - r \in FailingRows(x) <=> i \in FEC_MATRIX_12b[r]
  BY <1>3, RowFails
<1>5. FailingRows(x) \subseteq 0..3
  BY RowsOnly
<1> HIDE DEF x
<1>6. /\ 0 \in FailingRows(x) <=> i \in FEC_MATRIX_12b[3]
      /\ 1 \in FailingRows(x) <=> i \in FEC_MATRIX_12b[2]
      /\ 2 \in FailingRows(x) <=> i \in FEC_MATRIX_12b[1]
      /\ 3 \in FailingRows(x) <=> i \in FEC_MATRIX_12b[0]
  <2>1. 3 - 0 = 3 /\ 3 - 1 = 2 /\ 3 - 2 = 1 /\ 3 - 3 = 0
    OBVIOUS
  <2>2. 0 \in 0..3 /\ 1 \in 0..3 /\ 2 \in 0..3 /\ 3 \in 0..3
    OBVIOUS
  <2> QED
    BY <1>4, <2>1, <2>2
<1>7. /\ FEC_MATRIX_12b[3] = {10, 9, 8, 6, 4, 0} /\ FEC_MATRIX_12b[2] = {11, 9, 8, 7, 5, 1}
      /\ FEC_MATRIX_12b[1] = {11, 10, 8, 5, 4, 2} /\ FEC_MATRIX_12b[0] = {11, 10, 9, 7, 6, 3}
  BY DEF FEC_MATRIX_12b
<1> QED
  BY <1>5, <1>6, <1>7 DEF x

\* Every wrong bit makes other rows fail, and the table finds it from them.
LEMMA BitFound ==
  ASSUME NEW w \in Word, FailingRows(w) = {}, NEW i \in 0..11
  PROVE  Correction(Xor(w, {i})) = {i}
<1> DEFINE x == Xor(w, {i})
           F == FailingRows(x)
<1>0. /\ F \subseteq 0..3
      /\ 0 \in F <=> i \in {10, 9, 8, 6, 4, 0}
      /\ 1 \in F <=> i \in {11, 9, 8, 7, 5, 1}
      /\ 2 \in F <=> i \in {11, 10, 8, 5, 4, 2}
      /\ 3 \in F <=> i \in {11, 10, 9, 7, 6, 3}
  BY UnitColumn
<1> HIDE DEF x, F
<1>00. \/ F = {}
       \/ F = {0} \/ F = {1} \/ F = {2} \/ F = {3}
       \/ F = {0, 1} \/ F = {0, 2} \/ F = {0, 3} \/ F = {1, 2} \/ F = {1, 3} \/ F = {2, 3}
       \/ F = {0, 1, 2} \/ F = {0, 1, 3} \/ F = {0, 2, 3} \/ F = {1, 2, 3}
       \/ F = {0, 1, 2, 3}
  BY <1>0, RowSets
<1>1. CASE i = 0
  <2>1. 0 \in F /\ 1 \notin F /\ 2 \notin F /\ 3 \notin F
    BY <1>0, <1>1
  <2>2. F = {0}
    BY <1>00, <2>1
  <2>3. Cardinality(F) = 1 /\ FEC_LOOK_UP(F) = {0}
    BY <2>2, LookUp, Zenon
  <2> QED
    BY <1>1, <2>2, <2>3, OneBit DEF x, F
<1>2. CASE i = 1
  <2>1. 0 \notin F /\ 1 \in F /\ 2 \notin F /\ 3 \notin F
    BY <1>0, <1>2
  <2>2. F = {1}
    BY <1>00, <2>1
  <2>3. Cardinality(F) = 1 /\ FEC_LOOK_UP(F) = {1}
    BY <2>2, LookUp, Zenon
  <2> QED
    BY <1>2, <2>2, <2>3, OneBit DEF x, F
<1>3. CASE i = 2
  <2>1. 0 \notin F /\ 1 \notin F /\ 2 \in F /\ 3 \notin F
    BY <1>0, <1>3
  <2>2. F = {2}
    BY <1>00, <2>1
  <2>3. Cardinality(F) = 1 /\ FEC_LOOK_UP(F) = {2}
    BY <2>2, LookUp, Zenon
  <2> QED
    BY <1>3, <2>2, <2>3, OneBit DEF x, F
<1>4. CASE i = 3
  <2>1. 0 \notin F /\ 1 \notin F /\ 2 \notin F /\ 3 \in F
    BY <1>0, <1>4
  <2>2. F = {3}
    BY <1>00, <2>1
  <2>3. Cardinality(F) = 1 /\ FEC_LOOK_UP(F) = {3}
    BY <2>2, LookUp, Zenon
  <2> QED
    BY <1>4, <2>2, <2>3, OneBit DEF x, F
<1>5. CASE i = 4
  <2>1. 0 \in F /\ 1 \notin F /\ 2 \in F /\ 3 \notin F
    BY <1>0, <1>5
  <2>2. F = {0, 2}
    BY <1>00, <2>1
  <2>3. Cardinality(F) = 2 /\ FEC_LOOK_UP(F) = {0}
    BY <2>2, LookUp, Zenon
  <2> QED
    BY <1>5, <2>2, <2>3, OneBit DEF x, F
<1>6. CASE i = 5
  <2>1. 0 \notin F /\ 1 \in F /\ 2 \in F /\ 3 \notin F
    BY <1>0, <1>6
  <2>2. F = {1, 2}
    BY <1>00, <2>1
  <2>3. Cardinality(F) = 2 /\ FEC_LOOK_UP(F) = {1}
    BY <2>2, LookUp, Zenon
  <2> QED
    BY <1>6, <2>2, <2>3, OneBit DEF x, F
<1>7. CASE i = 6
  <2>1. 0 \in F /\ 1 \notin F /\ 2 \notin F /\ 3 \in F
    BY <1>0, <1>7
  <2>2. F = {0, 3}
    BY <1>00, <2>1
  <2>3. Cardinality(F) = 2 /\ FEC_LOOK_UP(F) = {2}
    BY <2>2, LookUp, Zenon
  <2> QED
    BY <1>7, <2>2, <2>3, OneBit DEF x, F
<1>8. CASE i = 7
  <2>1. 0 \notin F /\ 1 \in F /\ 2 \notin F /\ 3 \in F
    BY <1>0, <1>8
  <2>2. F = {1, 3}
    BY <1>00, <2>1
  <2>3. Cardinality(F) = 2 /\ FEC_LOOK_UP(F) = {3}
    BY <2>2, LookUp, Zenon
  <2> QED
    BY <1>8, <2>2, <2>3, OneBit DEF x, F
<1>9. CASE i = 8
  <2>1. 0 \in F /\ 1 \in F /\ 2 \in F /\ 3 \notin F
    BY <1>0, <1>9
  <2>2. F = {0, 1, 2}
    BY <1>00, <2>1
  <2>3. Cardinality(F) = 3 /\ FEC_LOOK_UP(F) = {0}
    BY <2>2, LookUp, Zenon
  <2> QED
    BY <1>9, <2>2, <2>3, OneBit DEF x, F
<1>10. CASE i = 9
  <2>1. 0 \in F /\ 1 \in F /\ 2 \notin F /\ 3 \in F
    BY <1>0, <1>10
  <2>2. F = {0, 1, 3}
    BY <1>00, <2>1
  <2>3. Cardinality(F) = 3 /\ FEC_LOOK_UP(F) = {1}
    BY <2>2, LookUp, Zenon
  <2> QED
    BY <1>10, <2>2, <2>3, OneBit DEF x, F
<1>11. CASE i = 10
  <2>1. 0 \in F /\ 1 \notin F /\ 2 \in F /\ 3 \in F
    BY <1>0, <1>11
  <2>2. F = {0, 2, 3}
    BY <1>00, <2>1
  <2>3. Cardinality(F) = 3 /\ FEC_LOOK_UP(F) = {2}
    BY <2>2, LookUp, Zenon
  <2> QED
    BY <1>11, <2>2, <2>3, OneBit DEF x, F
<1>12. CASE i = 11
  <2>1. 0 \notin F /\ 1 \in F /\ 2 \in F /\ 3 \in F
    BY <1>0, <1>12
  <2>2. F = {1, 2, 3}
    BY <1>00, <2>1
  <2>3. Cardinality(F) = 3 /\ FEC_LOOK_UP(F) = {3}
    BY <2>2, LookUp, Zenon
  <2> QED
    BY <1>12, <2>2, <2>3, OneBit DEF x, F
<1> QED
  BY <1>1, <1>2, <1>3, <1>4, <1>5, <1>6, <1>7, <1>8, <1>9, <1>10, <1>11, <1>12 DEF x

------------------------------------------------------------------------------
(* What is accepted                                                         *)

\* With four failing rows the correction lies beyond the word.
LEMMA FourRows ==
  ASSUME NEW w, FailingRows(w) = {0, 1, 2, 3}
  PROVE  ~Correctable(w)
<1> DEFINE C == Correction(w)
<1>1. Cardinality({0, 1, 2, 3}) = 4
  <2>1. Cardinality(0..3) = IF 0 > 3 THEN 0 ELSE 3 - 0 + 1
    BY 0 \in Int, 3 \in Int, FS_Interval, Zenon
  <2>2. Cardinality(0..3) = 4
    BY <2>1
  <2>3. 0..3 = {0, 1, 2, 3}
    OBVIOUS
  <2> QED
    BY <2>2, <2>3, Zenon
<1>2. C = ShiftLeft(0..3, 12)
  BY <1>1, LookUp DEF Correction
<1>3. \A i \in C : i \notin 0..11
  BY <1>2 DEF ShiftLeft
<1>4. \A r \in 0..3 : FEC_MATRIX_12b[r] \subseteq 0..11
  BY DEF FEC_MATRIX_12b
<1> HIDE DEF C
<1>5. \A r \in 0..3 : FEC_MATRIX_12b[r] \cap Xor(w, C) = FEC_MATRIX_12b[r] \cap w
  BY <1>3, <1>4 DEF Xor, SymDiff
<1>6. FailingRows(Xor(w, C)) = FailingRows(w)
  BY <1>5, SameRows
<1> QED
  BY <1>6 DEF Correctable, C

\* Any other correction stays within the word.
LEMMA CorrectionInWord ==
  ASSUME NEW w, Correctable(w)
  PROVE  Correction(w) \in Word
<1> DEFINE F == FailingRows(w)
<1>1. CASE F = {}
  BY <1>1 DEF Correction, Word
<1>2. ASSUME NEW n \in 1..3, NEW c \in 0..3, F # {}, Cardinality(F) = n, FEC_LOOK_UP(F) = {c}
      PROVE  Correction(w) \in Word
  BY <1>2, OneBit DEF Word
<1>3. CASE F = {0, 1}
  <2>1. Correction(w) = ShiftLeft({0, 1}, 4)
    BY <1>3, LookUp DEF Correction
  <2> QED
    BY <2>1 DEF ShiftLeft, Word
<1>4. CASE F = {2, 3}
  <2>1. Correction(w) = ShiftLeft(0..3, 4)
    BY <1>4, LookUp DEF Correction
  <2> QED
    BY <2>1 DEF ShiftLeft, Word
<1>5. F # {0, 1, 2, 3}
  BY FourRows
<1>6. CASE F \in {{0}, {1}, {2}, {3}}
  BY <1>2, <1>6, LookUp, SMTT(30)
<1>7. CASE F \in {{0, 2}, {0, 3}, {1, 2}, {1, 3}}
  BY <1>2, <1>7, LookUp
<1>8. CASE F \in {{0, 1, 2}, {0, 1, 3}, {0, 2, 3}, {1, 2, 3}}
  BY <1>2, <1>8, LookUp, SMTT(30)
<1>9. F \subseteq 0..3
  BY RowsOnly
<1> HIDE DEF F
<1> QED
  BY <1>1, <1>3, <1>4, <1>5, <1>6, <1>7, <1>8, <1>9, RowSets

\* The byte of a word, and what a correction does to it.
LEMMA BitsOfByte ==
  ASSUME NEW v \in Word
  PROVE  ShiftRight(v, 4) = {i \in 0..7 : i + 4 \in v}
<1>1. \A j \in v : j \in 0..11
  BY DEF Word
<1>2. \A i \in 0..7 : i + 4 >= 4 /\ (i + 4) - 4 = i
  OBVIOUS
<1>3. \A j \in 0..11 : j >= 4 => j - 4 \in 0..7 /\ (j - 4) + 4 = j
  OBVIOUS
<1> QED
  BY <1>1, <1>2, <1>3 DEF ShiftRight

LEMMA ByteXor ==
  ASSUME NEW v \in Word, NEW w \in Word
  PROVE  /\ Xor(v, w) \in Word
         /\ ShiftRight(Xor(v, w), 4) = Xor(ShiftRight(v, 4), ShiftRight(w, 4))
<1>1. Xor(v, w) \in Word
  BY DEF Xor, SymDiff, Word
<1>2. /\ ShiftRight(v, 4) = {i \in 0..7 : i + 4 \in v}
      /\ ShiftRight(w, 4) = {i \in 0..7 : i + 4 \in w}
      /\ ShiftRight(Xor(v, w), 4) = {i \in 0..7 : i + 4 \in Xor(v, w)}
  BY <1>1, BitsOfByte
<1>3. \A j : j \in Xor(v, w) <=> ~(j \in v <=> j \in w)
  BY DEF Xor, SymDiff
<1>4. {i \in 0..7 : i + 4 \in Xor(v, w)} = Xor({i \in 0..7 : i + 4 \in v}, {i \in 0..7 : i + 4 \in w})
  BY <1>3 DEF Xor, SymDiff
<1> QED
  BY <1>1, <1>2, <1>4

\* check_fec leaves the byte of the corrected word behind.
LEMMA CorrectedByte ==
  ASSUME NEW w \in Word, Correction(w) \in Word, Correctable(w)
  PROVE  Corrected(ShiftRight(w, 4), w \cap (0..3)) = ShiftRight(Xor(w, Correction(w)), 4)
  BY PartsOfWord, ByteXor DEF Corrected, decalc_fec

LEMMA AcceptedWord ==
  ASSUME NEW w \in Word, Correctable(w), NEW b,
         b = Corrected(ShiftRight(w, 4), w \cap (0..3))
  PROVE  Xor(w, Correction(w)) = WordOf(b, calc_fec(b))
<1> DEFINE x == Xor(w, Correction(w))
<1>1. Correction(w) \in Word
  BY CorrectionInWord
<1>2. x \in Word /\ FailingRows(x) = {}
  BY <1>1, ByteXor DEF Correctable
<1>3. b = ShiftRight(x, 4)
  BY <1>1, CorrectedByte
<1> HIDE DEF x
<1>4. x = WordOf(b, calc_fec(b))
  BY <1>2, <1>3, NoRowFails
<1> QED
  BY <1>4 DEF x

------------------------------------------------------------------------------
(* One error at most                                                        *)

\* A word of the encoder with at most one bit changed gives its byte back.
LEMMA AtMostOneBit ==
  ASSUME NEW b \in Byte, NEW s, s = {} \/ \E i \in 0..11 : s = {i},
         NEW w, w = Xor(WordOf(b, calc_fec(b)), s)
  PROVE  /\ Corrected(ShiftRight(w, 4), w \cap (0..3)) = b
         /\ Correctable(w)
<1> DEFINE sent == WordOf(b, calc_fec(b))
<1>1. sent \in Word /\ ShiftRight(sent, 4) = b
  BY WordParts, CalcBits
<1>2. FailingRows(sent) = {}
  BY <1>1, NoRowFails
<1> HIDE DEF sent
<1>3. s \in Word
  BY DEF Word
<1>4. w \in Word
  BY <1>1, <1>3, ByteXor DEF sent
<1>5. Correction(w) = s
  <2>1. CASE s = {}
    <3>1. w = sent
      BY <2>1 DEF Xor, SymDiff, sent
    <3> QED
      BY <1>2, <2>1, <3>1 DEF Correction
  <2>2. CASE \E i \in 0..11 : s = {i}
    <3>1. PICK i \in 0..11 : s = {i}
      BY <2>2
    <3> QED
      BY <1>1, <1>2, <3>1, BitFound DEF sent
  <2> QED
    BY <2>1, <2>2
<1>6. Xor(w, s) = sent
  BY DEF Xor, SymDiff, sent
<1>7. Correctable(w)
  BY <1>2, <1>5, <1>6 DEF Correctable
<1>8. Corrected(ShiftRight(w, 4), w \cap (0..3)) = b
  BY <1>1, <1>3, <1>4, <1>5, <1>6, <1>7, CorrectedByte
<1> QED
  BY <1>7, <1>8

==============================================================================
