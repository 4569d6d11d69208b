---------------------------- MODULE MCMobitexFec -----------------------------
(***************************************************************************)
(* Every byte, encoded, sent over a channel that flips at most MaxFlips of *)
(* the twelve bits, and checked by the receiver.                           *)
(***************************************************************************)
EXTENDS MobitexFec

CONSTANT MaxFlips

VARIABLES
  byte,   \* the byte to send
  word,   \* the word on the channel
  flips,  \* the bits flipped so far
  got     \* what check_fec makes of it: a byte and its verdict, or none yet

vars == <<byte, word, flips, got>>

Init ==
  /\ byte \in Byte
  /\ word = WordOf(byte, calc_fec(byte))
  /\ flips = {}
  /\ got = <<>>

Flip ==
  /\ got = <<>> /\ Cardinality(flips) < MaxFlips
  /\ \E i \in (0..11) \ flips : flips' = flips \cup {i} /\ word' = Xor(word, {i})
  /\ UNCHANGED <<byte, got>>

Check ==
  /\ got = <<>>
  /\ got' = <<Corrected(ShiftRight(word, 4), word \cap (0..3)), Correctable(word)>>
  /\ UNCHANGED <<byte, word, flips>>

Next == Flip \/ Check

Spec == Init /\ [][Next]_vars

\* One wrong bit among the twelve, wherever it is, is corrected.
SingleErrorCorrected ==
  got # <<>> /\ Cardinality(flips) <= 1 => got = <<byte, TRUE>>

\* A word is accepted only if its correction is a word of the encoder, with
\* the byte that check_fec leaves behind.
AcceptedIsCodeword ==
  got # <<>> /\ got[2] =>
    Xor(word, Correction(word)) = WordOf(got[1], calc_fec(got[1]))

------------------------------------------------------------------------------
(* Inductive invariant, for the proofs                                      *)

\* The word on the channel is the word sent with the flipped bits changed, and
\* the receiver's answer is that of check_fec for it.
ChannelInv ==
  /\ byte \in Byte /\ flips \subseteq 0..11
  /\ word = Xor(WordOf(byte, calc_fec(byte)), flips)
  /\ got # <<>> =>
       got = <<Corrected(ShiftRight(word, 4), word \cap (0..3)), Correctable(word)>>

==============================================================================
