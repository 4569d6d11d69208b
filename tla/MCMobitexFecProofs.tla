--------------------------- MODULE MCMobitexFecProofs --------------------------
(***************************************************************************)
(* The channel of MCMobitexFec, whatever the byte and whichever bits it    *)
(* flips.                                                                  *)
(***************************************************************************)
EXTENDS MCMobitexFec, MobitexFecProofs

\* The word on the channel is the word sent with the flipped bits changed.
THEOREM ChannelCorrect == Spec => []ChannelInv
<1>1. Init => ChannelInv
  BY DEF Init, ChannelInv, Xor, SymDiff
<1>2. ChannelInv /\ [Next]_vars => ChannelInv'
  <2> SUFFICES ASSUME ChannelInv, [Next]_vars PROVE ChannelInv'
    OBVIOUS
  <2>1. CASE Flip
    <3>1. PICK i \in (0..11) \ flips : flips' = flips \cup {i} /\ word' = Xor(word, {i})
      BY <2>1 DEF Flip
    <3>2. Xor(Xor(WordOf(byte, calc_fec(byte)), flips), {i})
            = Xor(WordOf(byte, calc_fec(byte)), flips \cup {i})
      BY DEF Xor, SymDiff
    <3>3. word' = Xor(WordOf(byte, calc_fec(byte)), flips')
      BY <3>1, <3>2 DEF ChannelInv
    <3>4. flips' \subseteq 0..11
      BY <3>1 DEF ChannelInv
    <3>5. byte' = byte /\ got' = <<>>
      BY <2>1 DEF Flip
    <3> QED
      BY <3>3, <3>4, <3>5 DEF ChannelInv
  <2>2. CASE Check
    BY <2>2 DEF Check, ChannelInv
  <2>3. CASE UNCHANGED vars
    BY <2>3 DEF vars, ChannelInv
  <2> QED
    BY <2>1, <2>2, <2>3 DEF Next
<1> QED
  BY <1>1, <1>2, PTL DEF Spec

\* One wrong bit among the twelve of a word, wherever it is, is corrected by
\* check_fec, and a word without one is left as it is.
THEOREM OneErrorCorrected == Spec => []SingleErrorCorrected
<1>1. ChannelInv => SingleErrorCorrected
  <2> SUFFICES ASSUME ChannelInv, got # <<>>, Cardinality(flips) <= 1
               PROVE  got = <<byte, TRUE>>
    BY DEF SingleErrorCorrected
  <2>1. flips \in Word
    BY DEF ChannelInv, Word
  <2>2. IsFiniteSet(flips)
    BY <2>1, FiniteWord
  <2>3. Cardinality(flips) \in Nat
    BY <2>2, FS_CardinalityType
  <2>4. Cardinality(flips) = 0 \/ Cardinality(flips) = 1
    BY <2>3
  <2>5. flips = {} \/ \E i : flips = {i}
    BY <2>2, <2>4, FS_EmptySet, FS_Singleton
  <2>6. flips = {} \/ \E i \in 0..11 : flips = {i}
    BY <2>1, <2>5 DEF Word
  <2>7. Corrected(ShiftRight(word, 4), word \cap (0..3)) = byte /\ Correctable(word)
    BY <2>6, AtMostOneBit DEF ChannelInv
  <2> QED
    BY <2>7 DEF ChannelInv
<1> QED
  BY <1>1, ChannelCorrect, PTL

\* check_fec accepts a word only if its correction is a word of the encoder,
\* with the byte it leaves behind, however many bits were wrong.
THEOREM OnlyCodewords == Spec => []AcceptedIsCodeword
<1>1. ChannelInv => AcceptedIsCodeword
  <2> SUFFICES ASSUME ChannelInv, got # <<>>, got[2]
               PROVE  Xor(word, Correction(word)) = WordOf(got[1], calc_fec(got[1]))
    BY DEF AcceptedIsCodeword
  <2>0. got = <<Corrected(ShiftRight(word, 4), word \cap (0..3)), Correctable(word)>>
    BY DEF ChannelInv
  <2>1. got[1] = Corrected(ShiftRight(word, 4), word \cap (0..3)) /\ (got[2] <=> Correctable(word))
    BY <2>0
  <2>2. word \in Word
    <3>1. WordOf(byte, calc_fec(byte)) \in Word
      BY WordParts, CalcBits DEF ChannelInv
    <3>2. flips \in Word
      BY DEF ChannelInv, Word
    <3> QED
      BY <3>1, <3>2, ByteXor DEF ChannelInv
  <2>3. Correctable(word)
    BY <2>1
  <2> QED
    BY <2>1, <2>2, <2>3, AcceptedWord
<1> QED
  BY <1>1, ChannelCorrect, PTL

==============================================================================
