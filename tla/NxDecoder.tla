------------------------------ MODULE NxDecoder ------------------------------
(***************************************************************************)
(* The receiver of the NX blocks (nx_decoder_impl) with the frame reader   *)
(* and the buffers it uses (frame_composer, mobitex_coding).  The state    *)
(* machine takes one demodulated bit per step.  Frame-sync marker and      *)
(* control bytes are bits; callsign and data are counted only, and whether *)
(* a datablock passes its FEC and CRC is the channel's choice.             *)
(*                                                                         *)
(* pos counts the bits of the stream before the one to read next: loop     *)
(* index i of general_work is pos - call.base + History.                   *)
(***************************************************************************)
EXTENDS NxProtocol, Integers, Sequences

CONSTANTS
  Streams,       \* the bit sequences the demodulator may deliver
  CallSizes(_),  \* bound: the values of noutput_items tried on a stream
  CallsignBits,  \* 64 in the code: callsign and its CRC
  BlockBits      \* 240 in the code: one interleaved datablock with its FEC

ASSUME StreamsAssumption == Streams \subseteq Seq(Bit)
ASSUME SizesAssumption ==
  (\A s \in Streams : CallSizes(s) \subseteq Nat \ {0}) /\ CallsignBits \in Nat \ {0} /\ BlockBits \in Nat \ {0}

VARIABLES
  stream,  \* the stream of this execution
  pos,     \* bits read, less those returned to
  call,    \* the call of general_work: its first new bit and noutput_items
  state,   \* receiver state
  header,  \* the last 16 bits since the search began (zeros before them)
  head,    \* rx.cur: control bytes and FEC nibbles
  rd,      \* the static counters of frame_composer's read functions
  dirty,   \* blocks of mob_data and mob_fec that are not all zero
  errs,    \* errorcode: blocks marked bad
  out,     \* what was published on port out
  tried,   \* history: where a frame-sync marker was found
  taken,   \* history: accepted frames, from marker to last bit
  bad      \* history: blocks of the frame being received that failed

vars == <<stream, pos, call, state, header, head, rd, dirty, errs, out, tried, taken, bad>>

------------------------------------------------------------------------------
(* Mutated forms, used only by the mutants of PROJECT.json.                 *)

\* A history of 13 bytes taken for 13 bits.
HistoryInBytes == 13
\* Back to the first bit, back to the second bit, and not back at all.
BackToFirst == 5 * 8
BackToSecond == 5 * 8 - 1
BackNot == 0

------------------------------------------------------------------------------
\* set_history(105): bits kept from before the first new bit of a call.
History == 104

\* How far the loop index goes back when a head is rejected.
RejectedBack == 5 * 8 - 5

Zeros(n) == [i \in 1..n |-> 0]
NoFrame == Zeros(HeadBits)
Blocks == 0..31

Outputs ==
  {[kind |-> "TRG"]} \cup
  [kind : {"MSG"}, type : {T_REG, T_ECHO}, blocks : 1..32, errs : SUBSET Blocks]

TypeOK ==
  /\ stream \in Streams
  /\ pos \in (-History)..Len(stream)
  /\ call \in [base : 0..Len(stream), items : Nat]
  /\ state \in {"SEARCH", "RX_CTRL", "RX_CFEC", "RX_CS", "RX_DATA"}
  /\ header \in [1..16 -> Bit]
  /\ head \in FrameHead
  /\ rd \in [ctrl : 0..15, fec : 0..7, cs : 0..(CallsignBits - 1),
             data : 0..(BlockBits - 1), block : Blocks]
  /\ dirty \subseteq Blocks
  /\ errs \subseteq Blocks
  /\ out \in Seq(Outputs)
  /\ tried \subseteq 1..Len(stream)
  /\ taken \subseteq (1..Len(stream)) \X (1..Len(stream))
  /\ bad \subseteq Blocks

Init ==
  /\ stream \in Streams
  /\ pos = 0
  /\ call = [base |-> 0, items |-> 0]
  /\ state = "SEARCH"
  /\ header = Zeros(16)
  /\ head = NoFrame
  /\ rd = [ctrl |-> 0, fec |-> 0, cs |-> 0, data |-> 0, block |-> 0]
  /\ dirty = {}
  /\ errs = {}
  /\ out = <<>>
  /\ tried = {}
  /\ taken = {}
  /\ bad = {}

------------------------------------------------------------------------------
\* The scheduler calls general_work again, with n more bits: the last call
\* consumed all of its bits, and 104 of them are kept as history.
Work(n) ==
  /\ pos = call.base + call.items
  /\ pos + n <= Len(stream)
  /\ call' = [base |-> pos, items |-> n]
  /\ UNCHANGED <<stream, pos, state, header, head, rd, dirty, errs, out, tried, taken, bad>>

Receiving(s) == state = s /\ pos < call.base + call.items

\* The history before the stream is filled with zeros.
bit == IF pos < 0 THEN 0 ELSE stream[pos + 1]

\* The loop goes on with the next bit, or with an earlier one.
NextBit == pos' = pos + 1
ReturnTo(back) == pos' = pos - back + 1

\* Mutated forms: reset_rx without clear_blocks, a counter that is not reset.
reset_rxUncleared ==
  /\ header' = Zeros(16)
  /\ state' = "SEARCH"
  /\ UNCHANGED dirty
CountOn(field, length) == rd' = [rd EXCEPT ![field] = @ + 1]

\* reset_rx; errorcode, control bytes and counters keep their values.
reset_rx ==
  /\ header' = Zeros(16)
  /\ state' = "SEARCH"
  /\ dirty' = {}

\* A counter of a read function: back to 0 when its field is complete.
Count(field, length) == rd' = [rd EXCEPT ![field] = (@ + 1) % length]
Complete(field, length) == rd[field] + 1 = length

------------------------------------------------------------------------------
Search ==
  /\ Receiving("SEARCH")
  /\ header' = Append(Tail(header), bit)
  /\ IF header' = FRAMESYNC
     THEN /\ state' = "RX_CTRL"
          /\ head' = NoFrame
          /\ tried' = tried \cup {pos + 1}
     ELSE UNCHANGED <<state, head, tried>>
  /\ NextBit
  /\ UNCHANGED <<stream, call, rd, dirty, errs, out, taken, bad>>

RxCtrl ==
  /\ Receiving("RX_CTRL")
  /\ head' = [head EXCEPT ![rd.ctrl + 1] = bit]
  /\ Count("ctrl", 16)
  /\ state' = IF Complete("ctrl", 16) THEN "RX_CFEC" ELSE state
  /\ NextBit
  /\ UNCHANGED <<stream, call, header, dirty, errs, out, tried, taken, bad>>

RxCfec ==
  /\ Receiving("RX_CFEC")
  /\ Count("fec", 8)
  /\ LET h == [head EXCEPT ![16 + rd.fec + 1] = bit]
         accepted == /\ control_ok(h)
                     /\ check_address(decode_control(h))
                     /\ message_type(decode_control(h)) \in {T_REG, T_ECHO}
     IN  \/ /\ ~Complete("fec", 8)
            /\ head' = h
            /\ NextBit
            /\ UNCHANGED <<state, header, dirty>>
         \/ /\ Complete("fec", 8) /\ accepted
            /\ head' = decode_control(h)
            /\ state' = "RX_CS"
            /\ NextBit
            /\ UNCHANGED <<header, dirty>>
         \/ /\ Complete("fec", 8) /\ ~accepted
            /\ head' = decode_control(h)
            /\ reset_rx
            /\ ReturnTo(RejectedBack)
  /\ UNCHANGED <<stream, call, errs, out, tried, taken, bad>>

\* Mutated form: without clear_errors.
RxCsUncleared ==
  /\ Receiving("RX_CS")
  /\ Count("cs", CallsignBits)
  /\ IF Complete("cs", CallsignBits)
     THEN /\ state' = "RX_DATA"
          /\ out' = Append(out, [kind |-> "TRG"])
          /\ bad' = {}
     ELSE UNCHANGED <<state, out, bad>>
  /\ NextBit
  /\ UNCHANGED <<stream, call, header, head, dirty, errs, tried, taken>>

\* A callsign that does not check is accepted all the same.
RxCs ==
  /\ Receiving("RX_CS")
  /\ Count("cs", CallsignBits)
  /\ IF Complete("cs", CallsignBits)
     THEN /\ state' = "RX_DATA"
          /\ errs' = {}
          /\ out' = Append(out, [kind |-> "TRG"])
          /\ bad' = {}
     ELSE UNCHANGED <<state, errs, out, bad>>
  /\ NextBit
  /\ UNCHANGED <<stream, call, header, head, dirty, tried, taken>>

\* read_data takes a bit; the last one of a block decodes the block.
ReadData(ok) ==
  LET marked == IF ok THEN {} ELSE {rd.block}
  IN  IF Complete("data", BlockBits)
      THEN /\ rd' = [rd EXCEPT !.data = 0,
                                !.block = IF @ + 1 = num_of_blocks(head) THEN 0 ELSE @ + 1]
           /\ errs' = errs \cup marked
           /\ bad' = bad \cup marked
      ELSE ok /\ Count("data", BlockBits) /\ UNCHANGED <<errs, bad>>

FrameComplete ==
  Complete("data", BlockBits) /\ rd.block + 1 = num_of_blocks(head)

MessageOut(errors) ==
  [kind |-> "MSG", type |-> message_type(head), blocks |-> num_of_blocks(head),
   errs |-> errors]

FrameStart == CHOOSE e \in tried : \A d \in tried : d <= e

RxData ==
  /\ Receiving("RX_DATA")
  /\ \E ok \in BOOLEAN : ReadData(ok)
  /\ IF FrameComplete
     THEN /\ out' = IF ack_bit(head) /\ errs' # {} THEN out
                    ELSE Append(out, MessageOut(errs'))
          /\ taken' = taken \cup {<<FrameStart, pos + 1>>}
          /\ reset_rx
     ELSE /\ dirty' = dirty \cup {rd.block}
          /\ UNCHANGED <<state, header, out, taken>>
  /\ NextBit
  /\ UNCHANGED <<stream, call, head, tried>>

------------------------------------------------------------------------------
Step == Search \/ RxCtrl \/ RxCfec \/ RxCs \/ RxData

\* The stream ends: no call has enough bits left.
Finished ==
  /\ pos = call.base + call.items
  /\ \A n \in CallSizes(stream) : pos + n > Len(stream)
  /\ UNCHANGED vars

Next == (\E n \in CallSizes(stream) : Work(n)) \/ Step \/ Finished

Spec == Init /\ [][Next]_vars

\* The loop of general_work runs on, and the scheduler calls it again as long
\* as there are bits.
FairSpec == Spec /\ WF_vars(Step) /\ WF_vars(\E n \in CallSizes(stream) : Work(n))

------------------------------------------------------------------------------
(* Properties                                                               *)

\* A marker that ends after bit e of the stream.
SyncAt(e) == e >= 16 /\ SubSeq(stream, e - 15, e) = FRAMESYNC

\* No frame is overlooked: every marker the search has passed was tried, in
\* spite of false markers shortly before it, unless it begins in a frame that
\* was accepted.
Found(e) == SyncAt(e) => e \in tried \/ \E f \in taken : f[1] < e /\ e - 15 <= f[2]
NoSyncMissed == state = "SEARCH" => \A e \in 1..pos : Found(e)

\* A rejected marker is not found again: each search ends further on in the
\* stream than all before it.
SyncAdvances ==
  [][state = "SEARCH" /\ state' = "RX_CTRL" => \A e \in tried : pos' > e]_vars

\* The bits returned to are still in the history of the present call.
HistorySuffices == pos - call.base + History >= 0

\* A block is ORed together bit by bit, so its buffer is zero when its first
\* bit arrives.
BlockBufferClear == state = "RX_DATA" /\ rd.data = 0 => rd.block \notin dirty

\* The error code reported is that of this frame, whatever came before it.
ErrorsAreOwn == state = "RX_DATA" => errs = bad

\* All bits are looked at in the end: returning never makes a cycle.
StreamConsumed == <>[](\A n \in CallSizes(stream) : pos + n > Len(stream))

------------------------------------------------------------------------------
(* Inductive invariant, for the proofs                                      *)

\* What the search has in header if it began after bit s of the stream.
Window(s) == [i \in 1..16 |-> IF pos - 16 + i <= s THEN 0 ELSE stream[pos - 16 + i]]

\* Wherever the search began, no marker before it, nor one that ends so soon
\* after it that header cannot show it, is left to be found; and each marker
\* to come ends further on than all that were tried.
SearchInv ==
  state = "SEARCH" =>
    \E s \in 0..pos :
      /\ header = Window(s)
      /\ \A e \in 1..Len(stream) : e <= s + 11 \/ e <= pos => Found(e)
      /\ \A e \in tried : e <= s + 11
      /\ pos >= call.base \/ s >= call.base - RejectedBack

\* A frame is read from the end e of its marker on, the last one tried.
FrameInv ==
  state # "SEARCH" =>
    \E e \in tried :
      /\ \A d \in tried : d <= e
      /\ \A d \in 1..e : Found(d)
      /\ e >= 12
      /\ IF state \in {"RX_CTRL", "RX_CFEC"}
         THEN /\ pos = e + rd.ctrl + IF state = "RX_CFEC" THEN 16 + rd.fec ELSE 0
              /\ call.base < e + HeadBits
         ELSE pos >= e /\ pos >= call.base

\* Each counter rests at zero outside its field; the buffers are those of the
\* blocks begun so far.
FieldsInv ==
  /\ state # "RX_CTRL" => rd.ctrl = 0
  /\ state # "RX_CFEC" => rd.fec = 0
  /\ state # "RX_CS" => rd.cs = 0
  /\ state # "RX_DATA" => rd.data = 0 /\ rd.block = 0
  /\ state \in {"RX_CS", "RX_DATA"} => message_type(head) \in {T_REG, T_ECHO}
  /\ rd.block < num_of_blocks(head)
  /\ \A b \in dirty : b < rd.block \/ (b = rd.block /\ rd.data > 0)

CallInv == pos <= call.base + call.items /\ call.base + call.items <= Len(stream)

DecoderInv == SearchInv /\ FrameInv /\ FieldsInv /\ CallInv /\ ErrorsAreOwn

==============================================================================
