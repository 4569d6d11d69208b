# Verification of the BEESAT software TNC

TLA+ models, TLC runs and TLAPS proofs for the ground-station TNC in
`src/gr-tnc_nx`: the GNU Radio blocks that turn telecommands into frames for
the BEESAT satellites, decode the frames they answer with, and run the session
in between; and the generator of the module's Python documentation, which
reads the XML that doxygen leaves.

## The system

A flow graph (`src/grc/tnc_nx.grc`) connects the blocks; arrows are GNU Radio
messages or streams.

    TTS client --Input--> tnc --TX--> nx_encoder --single/double--> modulator
    TTS client <-Output-- tnc <--RX-- nx_decoder <----- demodulated bits

    TTS client <--Input/Output--> tnc_b1 --TX4k8--> modulator
                                  tnc_b1 <--------- demodulated bits

    doxygen --index.xml, *.xml--> doxyxml --objects--> swig_doc.py --> swig_doc.i

| Component | Source | State | Operations |
|---|---|---|---|
| TNC protocol block | `lib/tnc_impl.{cc,h}` | `p_state`, the one-place buffer `buf`, the command id in `g`, timer, `io_service`, timer thread | `handle_msg_input`, `handle_msg_rx`, `handle_timeout`, `set_idle`, `set_wait_msg`, destructor |
| NX receiver | `lib/nx_decoder_impl.{cc,h}` | receiver state, 16-bit `header`, history of 104 bits | `general_work`, `reset_rx`, `output_message`, `output_trigger` |
| Frame reader and writer | `lib/frame_composer.cc` | static bit, byte and block counters | `read_*`, `write_*` |
| Mobitex coding | `lib/mobitex_coding.cc`, `include/tnc_nx/mobitex_coding.h` | headers, block buffers, error codes, scrambler | FEC, CRC, `decode_*`, `encode_*`, `clear_*` |
| NX protocol fields | `include/tnc_nx/nx_protocol.h`, `lib/nx_protocol.cc` | none | `message_type`, `num_of_blocks`, `check_address`, ... |
| GSCF messages | `lib/gscf_com.cc`, `include/tnc_nx/gscf_com.h` | satellite number, command id | `out_ack`, `out_msg`, ... |
| BEESAT-1 TNC | `lib/tnc_b1_impl.{cc,h}` | session, timer and receiver in one block | as `tnc` and the receiver together |
| NX encoder | `lib/nx_encoder_impl.cc` | header kept for the next message | `handle_msg`, `transmit_msg` |
| doxyxml classes | `docs/doxygen/doxyxml/generated/*.py`, `text.py` | one object per element | `build*`, `export*`, `parse`, `description` |
| doxyxml objects | `doxyxml/base.py`, `doxyindex.py` | instances by refid, `_parsed`, `_error`, members and their caches | `_parse`, `from_refid`, `in_category`, `get_member`, `members`, `error` |
| swig_doc generator | `docs/doxygen/swig_doc.py` | blocks, `make_funcs`, the output so far | `make_swig_interface_file`, `make_*_entry` |
| BEESAT classifier | `python/beesat_classifier.py` | none | routes a packet by callsign |
| Local extrema detector | `lib/local_extrema_detect_impl.cc` | the last output value | `general_work` |
| Modulation wiring, build, bindings | `python/*.py`, `cmake`, `swig`, `grc` | none | - |

What is hard. `tnc_impl` runs its handlers on two threads without a lock: the
scheduler thread of the block calls `handle_msg_input` and `handle_msg_rx`, the
timer thread calls `handle_timeout`, and all of them end in `set_idle` or
`set_wait_msg`, which change `p_state`, the timer and the buffer in separate
steps. The timer is re-armed in two steps as well (`expires_from_now`, then
`async_wait`), and a completion that is queued cannot be revoked. The receiver
resumes its search *inside* a marker whose head it rejected, across the
boundaries of scheduler calls, with counters that no reset touches.
`tnc_b1_impl` does all of this in one block, and its timeouts reset the receiver
from the timer thread while it reads. The documentation tools are sequential,
but lazy: which file is read when, and which object is made on which way,
depends on the order of the index and on who asks first; errors are noted in
objects and raised again later; and the 81 generated classes repeat the same
methods with one deviation that has to be right in each.
The hazards, each at its line and with the properties that cover it, are listed
in `PROJECT.json`.

What makes each component correct:

- TNC: every telecommand is transmitted once and in order, or displaced from
  the buffer by a later one; its replies match what was transmitted; a session
  ends, by an answer or by its timeout; the timer thread lives until the
  destructor and not beyond. The code keeps this only as long as its handlers
  do not overlap, and the models say what each interleaving leaves of it.
- BEESAT-1 TNC: commands are answered under their own header and served;
  sessions are timed; a receiver that was reset anywhere between two bits gets
  in step again.
- doxyxml: a file of the schema is read without loss, whatever its class, but
  for the title of a compound; a description has each word once and in order.
- swig_doc: each class that is described, and each method and function, has one
  entry, whatever was asked of the objects before; the generation
  fails only for causes one can name.
- Receiver: no frame-sync marker is overlooked, none is tried twice, returning
  stays within the history, and what is reported of a frame (buffers, error
  codes) comes from that frame alone.
- FEC: one wrong bit in twelve is corrected; what is accepted is a code word.
- Encoder and frame layout: the two modulators take turns without a gap or a
  collision, the head before a message is the message's own, and the TNC waits
  for as long as a frame takes.
- Interleaving, scrambler, CRCs: what the encoder sends is what the reader
  reads, through bursts of twenty bits; more errors are noticed; a wrong bit of
  the callsign is put right.

## Modules

| Module | What it models |
|---|---|
| `AsioTimer` | One `deadline_timer` with its `io_service`: external, as the blocks use it |
| `TncNx` | The TNC block, both threads, step by step; its properties and inductive invariants |
| `CommandService` | What the TNC promises a sender of telecommands, without threads, timer or steps |
| `TncNxService` | The refinement mapping from `TncNx` to it |
| `TncB1` | The BEESAT-1 block: session, timer and receiver, both threads |
| `DoxySchema` | The 81 generated classes as one table |
| `DoxyXml`, `MCDoxyXml` | `build`, `export` and `description` over that table; the files of its run |
| `DoxyBase` | The objects of `doxyxml`: operators on a store |
| `SwigDoc`, `MCSwigDoc` | The generation, entry by entry, after calls of a client; the directories of its run |
| `SwigDocProofs` | Theorems about the objects and the generation: types, names known, what it fails for, one entry for every described class and every method, and those of every function |
| `AsioTimerProofs` | Lemmas about the timer, used by the proofs of both blocks |
| `TncNxProofs` | Theorems about `TncNx`: types, threads and timer; buffer, sessions and refinement |
| `TncB1Proofs` | Theorems about `TncB1`: receiver, replies, timer |
| `MobitexFec` | The FEC of a byte; words are sets of bits |
| `MCMobitexFec` | A channel that flips bits between encoder and decoder |
| `MobitexFecProofs` | Lemmas about the FEC |
| `MCMobitexFecProofs` | Theorems about that channel |
| `NxProtocol` | The control bytes of a frame head, received bit by bit |
| `NxDecoder` | The receiver, one bit per step |
| `MCNxDecoder` | The bit streams and call sizes of its runs |
| `NxDecoderProofs` | Theorems about the receiver |
| `MobitexCoding` | CRCs, callsign correction, datablocks, scrambler; extends `MobitexFec` |
| `FrameComposer` | The parts of a frame: where they are and which bits they hold |
| `NxLink` | Encoder, disturbed channel and reader of callsign and data, bit by bit |
| `MCNxLink` | The messages and bursts of its run |
| `NxLinkProofs` | Lemmas and theorems about layout, heads, scrambler, CRC of the callsign, and the way of data and callsign |

### TncNx

`th[t].at` is the step thread `t` is about to take; a step is the code between
two accesses to shared state, so that the steps of the two threads interleave
as the code allows. `"block"` is the scheduler thread, `"timer"` the thread in
`io_service::run`. The variables `p_state`, `buf` and `g` are the members of
that name; `tmr` is timer and `io_service`; `sent` and `replies` are what was
published on the ports TX and Output; `dropped` is a history variable. A
telecommand is its arrival number, which stands for its command id too.

| Code | Actions |
|---|---|
| `handle_msg_input` | `InputCommand`, `InputRefused`, `ReadState`, then `Hold` or `Open`, `AckOk` |
| `set_wait_msg`, `start_timer` | `SetWaitMsg`, `StartTimerExpires`, `StartTimerWait` |
| `handle_msg_rx` | `RxTrigger`, `RxMessage` |
| `set_idle`, `idle_timer` | `SetIdle`, `IdleTimerExpires`, `IdleTimerWait`, `CheckBuffer`, `ClearBuffer` |
| `handle_timeout`, `run_timer` | `RunCompletion`, `Timeout`, `SatNok`, `TimerElapses` |
| destructor | `Destroy`, `Join` |

Abstractions. A call of an Asio function is one step: data races inside the
library are not modelled, only the order of calls. `buf.msg` and `buf.waiting`
are written in one step, and so are the two fields of the GSCF header. Time is
not measured: a finite deadline may pass at any moment. `repeat_cnt`, the
computed transmission time and the payload are left out; no decision depends on
them. Replies are counted per command id, and `g_CMD` messages, which change
nothing, are omitted.

Every interleaving of the two threads is in the model, and so is the decoder's
habit of reporting a frame head before every message and of suppressing some
messages (`heard`). Most of what one would like to say of the block is false of
it then: the runs that are expected to be violated show how. What does hold is
said of each step, so that it holds from then on whatever happened before:
`overlap` is a history variable that says whether both threads are in handlers,
or have been since the block was last at rest, and a step is `Apart` if not. A
property of the form `[][Apart => ...]_vars` is therefore about a handler that
runs alone, in any state that handlers which did overlap, however often, have
left behind: a marked buffer whose command was sent, a session without a
deadline, completions of three earlier waits.

### CommandService

The block as its user sees it: commands arrive, at most one waits, a newer one
displaces it while a session is open, the waiting one is served when none is,
and a session is confirmed once, reported missed at most once after that, and
closed. These are the orderly actions, and until handlers overlap for the first
time (`disturbed`) the service takes no others. From then on, since the code
promises no more, only the weaker `Loose` is left: arrivals are counted, what is
transmitted or displaced has arrived, and what is confirmed, reported or in
session has been transmitted. `TncNxService` maps `TncNx` to it: replies become
`oks` and `misses`, and a session lasts from the hand-over to the encoder to
`set_idle` (`CurrentSession`). The steps of a handler that only move the timer
or the buffer are stuttering steps. `dropped` is a history variable on both
sides, so that a command which merely vanished would be no step of the service.

### TncB1

Handlers, threads and labels are as in `TncNx`; the order of the steps is that
of `tnc_b1_impl.cc` (reset, timer, state, buffer in `set_idle`; reply, timer,
state in `handle_msg_in`). The receiver runs on the block thread and reads the
bit at `pos` of an endlessly repeated cycle of preamble, marker, control bytes
with FEC, and datablocks. A bit is several steps: `GeneralWork` reads the state
the `switch` asks for, the case of that state counts and decides, and the last
bit of the data is counted in one step and judged in the next (`CheckMessage`).
`reset_rx` is two, `ResetRx` (state and `header`) and `ClearRx` (`clear_head`,
`clear_buffers`), so that the timer thread's reset may fall into a bit. `rx` has
the receiver's state, the bits shifted into `header`, what `rx.cur` says of the
frame, and the counters of `read_ctrl`, `read_ctrl_fec` and `read_data`, which
`reset_rx` leaves alone. `read_data` compares `block_c` with `rx.cur.blocks` for
equality only, so a reset that clears it after `++block_c` leaves the counter
beyond its limit (`DataComplete`). A head read out of step is rejected, by its
FEC or its type, and the search resumes 35 or 32 bits back. Of data read out of
step the model knows how many blocks were read in place: `errorcount` is what
`get_errors` then counts.

Commands may arrive before `output_module_id` ran, as they may in the code;
`announced` records it. `overlap` is as in `TncNx` (a bit is no handler of the
session unless it ends one); `torn` is a history variable that says that a
reset of the timer thread overlapped with a bit.

| Code | Actions |
|---|---|
| `handle_msg_in`, `transmit_msg` | `InputCommand`, `InputRefused`, `ReadState`, `Hold` or `Open`, `RefuseType` or `AckOk`, `StartTimerExpires`, `StartTimerWait`, `SetWaitMsg` |
| `set_idle`, `reset_rx`, `idle_timer` | `ResetRx`, `ClearRx`, `IdleTimerExpires`, `IdleTimerWait`, `SetIdle`, `CheckBuffer`, `ClearBuffer` |
| `general_work`, `output_msg` | `GeneralWork`, then `Search`, `RxCtrl`, `RxCfec` or `RxData`, `CheckMessage` |
| `handle_timeout`, `output_module_id` | `RunCompletion`, `SatNok`, `ModuleId`, `ModuleIdReturns`, `TimerElapses` |

### DoxySchema and DoxyXml

The generated classes differ in four respects only: their attributes, their
children, whether a child is one object, a list or a string, and how text is
kept. `DoxySchema` has these, one definition per class, in the order in which
`exportChildren` writes (not in the order of `buildChildren`, which may differ).
`DoxyXml` has the methods: `Build`, `Export` and their helpers interpret the
table. Text is a sequence of words, `"markup"` a character that has to be
quoted; an attribute is a good number or a word. `Parse` and `Write` alternate,
so that what one writing leaves the next reading finds. `Joined` is what the
XML parser does with neighbouring text. `Description` is `text.py`. One child is
out of the ordinary: the title of a `compounddefType` is read as an object but
written with `'%s'`, as a string (`Mistyped`), so that the file gets the name of
an object with its address (any of `Addresses`), and an empty title if there was
none. `Untitled` takes such children out of a file to say what else is kept.

Left out: `exportLiteral` and `parseLiteral` (Python source for debugging),
accessors and `factory`, the `find_*` methods of the index, and layout.

### DoxyBase and SwigDoc

A world is what doxygen left: an index, a file per refid, good, broken or
missing, and which compounds and functions have a description. The store `s` has
the instances in `top._refs`, which of them are parsed or failed, their members,
and the members of the index; exceptions are the value of `raised`. `_parse` of the four classes
is `Parse`, and everything that asks an object for something goes through
`Confirm`. `SwigDoc` visits one compound, block, function or class per step, as
the loops of `make_swig_interface_file` do, and records each entry with the
name it documents and whose description it has; a class of which there is
nothing to tell gets none (`make_entry` returns early), while the entries of
functions list their parameters in any case. A client may call `members()`
or `data()` of any object first, and go on after an exception.

Left out: names in namespaces, parameter lists, and the wording of entries.

### NxDecoder

One action per receiver state (`Search`, `RxCtrl`, `RxCfec`, `RxCs`, `RxData`)
takes one bit, together with the `frame_composer` function the state calls;
`Work(n)` is the scheduler calling `general_work` with `n` bits. `pos` counts
the bits before the next one, so that the loop index `i` is `pos - call.base +
104` and a return lowers `pos`. Marker, control bytes and their FEC are real
bits, decoded by `MobitexFec`. Callsign and data bits are only counted
(`CallsignBits`, `BlockBits`), because no decision depends on their values
except whether a block passes its checks, which `ReadData(ok)` leaves to the
channel; `NxLink` is about those values. The two nested counters of each read
function are one counter of the bits of its field. `RX_SDB`, `SKIP_FH`, `T_ACK`
in `RX_CS` and `T_DIGI` in `output_message` cannot be reached (`RX_CFEC` accepts
`T_REG` and `T_ECHO` only) and are left out.

### NxLink

A message goes all the way from `handle_msg` of the encoder to
`output_message` of the receiver, with the real bits of callsign, CRCs, FEC and
scrambler. `handle_msg(m)` is the encoder's handler, which makes the two
buffers in one call; `Transmit` stands for the modulators and for a receiver
that has accepted the head (`NxDecoder` is about how it gets there). Then
`ReadCallsign` and `ReadData` take one bit each: `RX_CS` and `RX_DATA` of
`general_work` with `read_callsign`, `read_data`, the decoding at the end of a
field and `reset_rx` at the end of the frame. The static counters are one count
of bits per field; `reg` is the scrambler's register; `errs` are the bits set in
`errorcode`. Frames follow each other without end, and everything the receiver
keeps is kept.

A head is the control bytes and the FEC stored for them, as in `struct head`:
`encode_control` computes it, `write_header` writes what is stored, and
`write_bc_header` changes and restores both. A buffer is described by its parts
(`Parts_1`, `Parts_2`): what `write_*` wrote, from which value on, and how long. `FrameComposer!Buffer` fills in the bits.
The two buffers run side by side at 4800 and 9600 bit/s, so value `p` of one
is sent together with `2p` and `2p + 1` of the other.

Each frame meets one disturbance at most, which may begin at any bit of callsign
or data and flips as many in a row as the run allows (`CallsignBursts`,
`DataBursts`). The encoder's persistent `tx` is left out because each message
overwrites all of it that is transmitted; so are buffers of blocks above
`MaxBlocks`.

## Runs

| Run | Shows |
|---|---|
| `TncNx` | All interleavings, three commands, heads and messages arriving or suppressed at any time, destructor at any time. What a handler that runs alone keeps: `LostOnlyTogether`, `StrandedOnlyTogether`, `RepeatedOnlyTogether`, `UntimedByTrigger`. What holds always: `RunsOutBetweenCalls`, `NoCallbackAfterDestroy`, `TypeOK`, and the refinement `ImplementsService`. Under fairness: `SessionEnds`, `EveryCommandServed`, `DestructorReturns` |
| `TncNx_trigger` (violated) | `WaitIsTimed`: a trigger disarms the answer timer |
| `TncNx_lost` (violated) | `NothingLost`: a command buffered while another one is taken from the buffer |
| `TncB1` | All interleavings, three commands, one of unknown type, before or after the module id: `RunsOutBetweenCalls`, `AnsweredAsTreated`, `UntimedByModuleId`, `TypeOK`, and under fairness `EveryCommandServed` |
| `TncB1_receiver` | Timeouts before, in and after any bit of a frame: `BackInStep` |
| `TncB1_waste` (violated) | `NothingWaste`, a comment of `tnc_b1_impl.cc` |
| `NxDecoder` | 256 streams of three pieces, and two with calls of every size: `NoSyncMissed`, `SyncAdvances`, `BlockBufferClear`, `ErrorsAreOwn`, `HistorySuffices`, `TypeOK`, and under fairness `StreamConsumed` |
| `NxLink` | Two messages, any burst: `OneRateAtATime`, `HeadAnnouncesMessage`, `ShortBurstCorrected`, `WrongBlocksMarked`, `CallsignCorrected` |
| `MobitexFec_channel` | All bytes and up to two flipped bits: `SingleErrorCorrected`, `AcceptedIsCodeword` |
| `DoxyXml` | Every class with good and bad attributes and any children: `ConformingUnchanged`, `WrittenFileSettled`, `DescriptionComplete` |
| `SwigDoc` | Directories of up to five compounds after up to three calls of a client: `NamesKnown`, `EveryClassOnce`, `MethodsOnce`, `FunctionsOnce`, `CrashHasCause`, `TypeOK` |
| `SwigDoc_broken` (violated) | `BrokenFileSkipped`, comments of `base.py` and `swig_doc.py` |

Bounds. `MaxCmd = 3`: one command in session, one buffered, one that displaces
it. `MaxReady = 1` bounds the completions queued when the block takes a message;
each handler queues at most one or two more, so that stale completions of
earlier waits meet the present one. (It is 0 in `TncB1_receiver`, where a
completion matters by the reset it leads to, and that falls anywhere all the
same.) `MaxNok` bounds the refusals counted for one
id: a refusal changes nothing else, so the runs with three commands count none
(the theorems hold for any number). A block whose timer thread has gone stops at
`MaxReady`, which is the model's end and not the code's (`Exhausted` in `TncB1`;
in `TncNx` the destructor can always be called). Streams have three pieces out of
eight (good frames of two types, three kinds of rejected heads, a marker
without its leading zeros, single bits), so that a marker may begin inside a
rejected head, a frame may follow a frame directly, and a false marker may
shadow a true one. `BlockBits = 3` and `CallsignBits = 2` are enough because
the bits are only counted; frames have one and two blocks. `CallSizes` is 13 for
most streams and 1 to 8 for a few (`FewStreams`), where returns of 35 bits
reach across several calls. `NxLink` has a slow message of one block and a
fast one of two that asks for an acknowledgement, so that each path of
`transmit_msg`, a block that is not the last, and a suppressed message occur,
each after the other. Bursts of 20 bits are the longest the interleaving
promises to survive, those of 40 put two wrong bits into every byte; they begin
at each of the 720 data bits. One wrong bit at each of the 64 bits of the
callsign exercises the whole search of `decode_callsign`.

The runs of `TncB1` ask about the session or about the receiver, and bound the
other. For the session a frame has a bit of each field, which is enough to end a
session at any point of it: what the receiver counts is not seen there, and
`MaxMissed = 0` keeps the history of lost frames out. For the receiver, fields
are shortened, since bits of a field are only counted: a marker of four bits
with one leading zero, heads of six, two datablocks of two. `Preamble = 9` and
returns of 7 and 8 bits keep what matters of the real numbers: a returned-to
position lies before the head that was rejected, the counters may stand at any
place of any field, whole blocks may be missing or a part of one, and the search
that follows a return finds the marker of the same frame only if the counters of
the head were so far advanced that the head was rejected early: by two bits with
the longer return and one with the shorter (four and one with the 35 and 32 bits
of the code). Returns of 8 and 9 bits would find it always, and hide the third
frame that can be lost. Two commands give two timeouts: one leaves the counters
of the data in the middle of a field, the other those of the head, and only then
can three frames be lost; after a single one it is two at most. `MaxMissed = 4` is one more than the claim allows. In `DoxyXml`, two children show order, overwriting
and joining, three text around a child; sections nest to the fourth level.
`Rounds = 2` is the first writing and the one that is compared with it; two
`Addresses` let the name of an object change in between. In
`SwigDoc` the worlds have every order of up to three of eight compounds, and
five longer ones; the contents include overloads, a hidden function, a function
in two headers, a make function in two headers or none, inner classes inside
and outside the index, and a kind no class can parse.

Fairness. Weak fairness of each thread's handler steps and of `RunCompletion`:
operating-system threads keep running. Weak fairness of `TimerElapses`: a
deadline that stays set passes. None of messages or of the destructor: the
environment may fall silent. So liveness is claimed for each command and session
unless the state shows why not: `SessionEnds` and `EveryCommandServed` except a
session disarmed for good by a trigger or by handlers that overlapped
(`Disarmed`; the module id in `TncB1`), a command such handlers mislaid
(`Mislaid`), and a timer thread that has gone. The same for `TncB1`, where bits
need not arrive either. For the receiver, the loop continues and the scheduler
calls again as long as there are bits.

Findings. Four runs are expected to be violated and show disagreements between
the code and its own comments; `PROJECT.json` quotes them:

1. A trigger disarms the answer timer in state `wait_msg` (`tnc_impl.cc:186`).
   If the decoder suppresses the message (ack bit and block errors), nothing
   ends the session.
2. A command buffered while `set_idle` on the other thread sends the buffered
   one is unmarked and lost (`tnc_impl.cc:128`).
3. A timeout resets the BEESAT-1 receiver but not the static counters of
   `read_data`: the next frame is read into the later blocks only, and
   published without one right block (`tnc_b1_impl.cc:324`).
4. A header file whose XML is broken ends the generation of the documentation:
   `DoxyFile._parse` uses the data before it looks for the error
   (`doxyindex.py:163`), where classes and groups look first.

The modules define further statements of this kind, beside those of the runs.
TLC finds each of them violated within seconds if it takes its place in
`TncNx_lost.cfg` or is added to `TncB1.cfg` (the first four as an `INVARIANT`):

- `TimerThreadLives` of `TncNx`: `start_timer` and `idle_timer` cancel the wait
  in progress before they begin the next one (`tnc_impl.h:68`). If the timer
  thread runs the aborted completion in between, `io_service::run` has no work
  and returns, and no timeout is handled any more. Theorem `TimerThreadLost`
  says that this is the only place.
- `MissInTime`: a timeout already queued when the answer arrives is handled in
  the next session, which it reports without an answer and closes
  (`tnc_impl.cc:94`), although no handlers overlap.
- `NoStrandedCommand`: a command that was checked against `wait_msg` before the
  other thread made the block idle is left in its buffer (`tnc_impl.cc:235`).
- `SentOnce`: both threads find the buffered command and transmit it
  (`tnc_impl.cc:127`). `SentOnce` of `TncB1`: the same (`tnc_b1_impl.cc:105`).
- `OnlyTransmitsModuleId` of `TncB1`: a telecommand within the first half second
  aborts the wait for the module id, whose handler runs all the same and cancels
  the answer timeout of the session just opened (`tnc_b1_impl.cc:219`).

Without a statement of their own: `handle_timeout` of the BEESAT-1 block does
not look at `p_state`, so that a timeout already queued reports SAT_NOK for a
command that was answered; a reset that falls between `++block_c` and its
comparison leaves `block_c` above `rx.cur.blocks` and the receiver in its data
for good, which is why `BackInStep` excepts `torn` (`frame_composer.cc:267`);
and `tnc_impl.cc:259` announces a check of the ack bit that never happens.

Of the documentation tools: the title of a compound is written as the name of a
Python object (`compoundsuper.py:426`); `MixedContainer.export` writes text unquoted, so
that a description with `<` makes a file that cannot be read (`WritesMarkup`);
CDATA sections are quoted once more at each writing; `int()` of an attribute
raises an exception `retrieve_data` does not catch; a description leaves out
words in bold, lists and code; overloads have one entry; a compound of a kind
without a class, or a block without a documented make function or constructor,
ends the generation (`CrashHasCause` names these causes); and after an
exception in the index a client gets the members read so far as if they were
all (`_parsed` is set first, `base.py:202`), which is why three properties of
`SwigDoc` except that client.

Two observations about the receiver. The comment at `nx_decoder_impl.cc:54` speaks of
returning to the 2nd bit of a rejected marker; `general_work` (line 166) returns
to the 6th. The code is right: `header` starts again from zeros, so that
returning to bits 2 to 5 would find the same marker again (the mutants of
`SyncAdvances` and `StreamConsumed` do). And `decode_callsign` tries double
flips in order: two wrong bits are put right for most pairs, but for 252 of
the 2016 pairs an earlier one makes the CRC match as well, and the callsign
becomes another. `CallsignCorrected` is therefore stated for one wrong bit.

## Proofs

Every theorem holds for any number of telecommands, messages and blocks, any
streams and calls, any lengths of the parts of a frame, and any bounds; TLC
checks the same formulas, and the inductive invariants behind them, on the
instances above.

| Module | Theorem | Proves |
|---|---|---|
| `TncNxProofs` | `TypeCorrect` | `Spec => []TypeOK` |
| | `QuietAfterDestroy` | `Spec => []NoCallbackAfterDestroy` |
| | `TimerThreadLost` | `Spec => RunsOutBetweenCalls`, an action property as the next four |
| | `CommandsKept` | `Spec => LostOnlyTogether` |
| | `BufferServed` | `Spec => StrandedOnlyTogether` |
| | `SentOnceAlone` | `Spec => RepeatedOnlyTogether` |
| | `SessionTimed` | `Spec => UntimedByTrigger` |
| | `ServesCommands` | `Spec => ImplementsService`, the refinement |
| `TncB1Proofs` | `TypeCorrect` | `Spec => []TypeOK` |
| | `InStepAgain` | `Spec => []BackInStep` |
| | `TimerThreadLost` | `Spec => RunsOutBetweenCalls`, an action property as the next two |
| | `RepliesDeserved` | `Spec => AnsweredAsTreated` |
| | `SessionTimed` | `Spec => UntimedByModuleId` |
| `NxDecoderProofs` | `TypeCorrect` | `Spec => []TypeOK` |
| | `FramesFound` | `Spec => []NoSyncMissed` |
| | `EachSyncOnce` | `Spec => SyncAdvances`, an action property |
| | `IndexInHistory` | `Spec => []HistorySuffices` |
| | `BuffersClear` | `Spec => []BlockBufferClear` |
| | `ErrorCodeOwn` | `Spec => []ErrorsAreOwn` |
| `SwigDocProofs` | `ObjectsTyped` | `Spec => []TypeOK` |
| | `CompoundsNamed` | `Spec => []NamesKnown` |
| | `CrashesHaveCauses` | `Spec => []CrashHasCause` |
| | `ClassesWrittenOnce` | `Spec => []EveryClassOnce` |
| | `MethodsWrittenOnce` | `Spec => []MethodsOnce` |
| | `FunctionsWrittenOnce` | `Spec => []FunctionsOnce` |
| `MCMobitexFecProofs` | `OneErrorCorrected` | `Spec => []SingleErrorCorrected` |
| | `OnlyCodewords` | `Spec => []AcceptedIsCodeword` |
| `NxLinkProofs` | `RatesTakeTurns` | `Spec => []OneRateAtATime` |
| | `HeadIsOwn` | `Spec => []HeadAnnouncesMessage` |
| | `BurstsCorrected` | `Spec => []ShortBurstCorrected` |
| | `CallsignsCorrected` | `Spec => []CallsignCorrected` |
| | `WaitsForTransmission` | `tx_time` of the TNC is the length of the encoder's frame |
| | `BurstsAreSpread` | twenty bits in a row are of twenty different bytes |

Assumptions: the named ones on the constants (`BoundsAssumption`,
`UnknownAssumption`, `BitsAssumption`, `StreamsAssumption`, `SizesAssumption`,
`MessagesAssumption`, `BurstsAssumption`, `CallsAssumption`), which say of what type they are;
in `TncB1` that a return stays within preamble and marker, as 32 and 35 bits
do; of a directory of XML files (`WorldsAssumption`) that its compounds have
refids of their own, which are no bare kind, that no two classes in it have one
name, that no compound is a function, and that no member is of a kind only
compounds have, as doxygen writes them; that no two names have one make function
(`MakeNameAssumption`; `make_name` does give "x" and "x_" the same one); and, as a
matter of modelling, that `AsioTimer` describes Asio's timer and `io_service`.
Nothing is assumed of the interleaving of the threads or of what arrives when.

Arguments.

- `TypeCorrect`: the operations of `AsioTimer` yield timers again (lemmas of
  `AsioTimerProofs`); one step per action.
- `QuietAfterDestroy`: the type invariant and a strengthening: once the
  destructor has returned, the timer thread has left `io_service::run` and no
  thread is in a handler. It needs no assumption on the interleaving because
  the destructor runs on the block's thread and joins the other one.
- `TimerThreadLost`: `run()` returns when no wait and no completion is left.
  `WorkInv` says, for whatever the two threads do to the timer between each
  other's calls, that a wait with a deadline has a handler that begins another,
  and that without a wait the block thread is between its two calls, or the timer
  thread is in a handler that will begin one, or such a handler is queued. So
  when a handler of the timer thread returns and nothing is left, it is the block
  thread that is between its calls.
- `CommandsKept`, `BufferServed`, `SentOnceAlone`. Two invariants hold in every
  interleaving: `FreshInv`, a command that was not held yet is the one that
  arrived last and nobody else has it; `ResendInv`, a buffered command that was
  transmitted already is one a handler is about to unmark. `LoneInv` says what a
  handler knows while it runs alone (a nested `handle_msg_input` still finds its
  own telecommand in the buffer, which was not transmitted until it does so);
  it begins anew each time the block comes to rest, from whatever it then finds.
  The action properties follow step by step.
- `SessionTimed`: by `LoneInv` a handler that is alone begins the wait it set a
  deadline for; the completion it may cancel is that of a session it ends. What
  is left to disarm a wait in state `wait_msg` is the trigger.
- `ServesCommands`: `OrderlyInv` (before the first overlap no command is lost or
  stranded), `HeaderInv` (in every interleaving, sessions and replies are of
  transmitted commands) and `ServiceInv`: exactly the commands in a handler or in
  the buffer are those the service has waiting, none of them was sent, those sent
  are older, and the replies counted for the command of the session are what its
  state says. From that, until handlers overlap each step of a handler is one
  step of the service (`MapsStep`) or changes nothing it sees, and from then on
  one of `Loose` (`LooseNext`).

- The receiver (`DecoderInv`). `SearchInv` says what a search has in `header`:
  the last 16 bits of the stream, those from before its beginning replaced by
  zeros. A marker begins with four zeros, so that it is seen if it ends twelve
  bits or more after the beginning; and a return goes to just where no marker
  that was tried can be seen again, nor one that was not be missed.
  `FrameInv` ties the position to the counters while a head is read, which
  bounds the index a return leads to, and `FieldsInv` says that each counter
  rests at zero outside its field and which buffers hold bits.
- The FEC. The rows of the check are parities, and parity is linear over the
  symmetric difference of words (`ParityXor`): which rows fail depends on the
  flipped bits alone (`RowXor`), whatever the byte. A single flipped bit of
  the twelve is then identified by its failing rows (`BitFound`), and the
  word that results has no failing row, so it is a code word (`NoRowFails`).
- `TypeCorrect` of `TncB1` needs `HeadInv`, which bounds the position a return
  leads to: whatever a reset has torn, the bit being read is one of the
  receiver's state or the search has begun again, and a field of the head is
  read behind what comes before it. `block_c` has no such bound, and `TypeOK`
  claims none for it but the model's own.
- `InStepAgain`, as long as no reset fell into a bit: `StepInv` and `DataInv` say
  that state, head and counters belong together and that data are read behind
  the head. `Losses` is how many frames can still be lost: one if the search
  comes too late for the next marker, one if the counters of the head are not at
  the place of the frame, one if that of the data is not. Each frame that is lost
  costs one of them, and only a reset raises it. `missed + Losses <= 3`
  (`LossInv`) is inductive, and says more than `BackInStep`. It was this proof
  that did not go through for two frames, with the returns of the code.
- `TimerThreadLost` of `TncB1`: as above; the handler that begins another wait
  may be `output_module_id`, which an aborted wait queues too.
- `RepliesDeserved`: `NewInv` and `ResendInv` as `FreshInv` and `ResendInv`
  above, and of a command not transmitted that it has no TNC_OK and that `g`
  does not name it. `LoneInv` adds which command `g` names between transmission
  and reply, so that the reply goes to the command the handler holds.
- `SessionTimed` of `TncB1`: from `LoneInv`, as above; what is left to disarm a
  wait is `idle_timer` in `output_module_id`.
- `RatesTakeTurns`: `Used(parts)` is the set of values some part covers. The
  lemmas about it show that the parts of a message leave no gap, that those of a
  slow frame fill its buffer from the pad on, and that those of a fast frame end
  in the one buffer at value 424 and begin in the other at 848
  (`LayoutTakesTurns`). `con` never yields zero, so a buffer is nonzero exactly
  where a part is (`BufferValues`); `PublishedInv` says that the buffers are
  those of the message.
- `HeadIsOwn`: of the parts written, the header alone covers its forty values
  (`PartAlone`, `CarrierBits`), so the buffer has its bits there; the control byte that
  `write_bc_header` replaced is back; and the bits of a control byte with its
  FEC are a word in which no row of the check fails (`HeadIsOk`).
- `BurstsCorrected`, in four parts. The encoder takes the scrambler's register
  of a bit from a table of rows and columns, the receiver clocks its own bit by
  bit: `RegisterNext` says that they are the same through all blocks. Both
  tables are recursive functions; that they satisfy their recursion, and what
  follows from it, is proved by induction (`SetInduction`). The bits on the air
  are those of the encoded blocks (`AirInv`, from `CarrierBits`). `ReadingInv`
  says of a reception, for a disturbance that began or would begin at bit
  `first`: the register is the sender's at this bit, the block being read has
  the sender's bits in their places except for the flipped ones (`BlockAt`),
  later blocks are clear, and the finished ones are right if twenty bits at
  most were flipped. It is inductive: a bit is put in its place and no other
  (`DeinterleavedBits`), the disturbance goes on where it was (`FlippedNext`),
  and a complete block has one wrong bit at most in each byte
  (`BurstsAreSpread`), so that the FEC corrects all of them (`ByteRead`, from
  `AtMostOneBit`) and the CRC is that of the data sent (`Decoding`).
- `CallsignsCorrected`. A shift of the CRC's register is linear over the
  symmetric difference, and only the empty register becomes empty
  (`CrcShiftLinear`, `CrcShiftKernel`); so is any number of shifts
  (`AfterFacts`), and the CRC of eight bytes (`CsCrcLinear`). The CRC of a
  callsign with one bit set, its syndrome, is one bit shifted 8 to 71 times
  (`UnitCrc`), so that two bits have the same syndrome only if some number of
  shifts below 64 brings a bit back: `NoCycle` goes through these shifts, one
  reduction by the polynomial after another. The 64 syndromes differ
  (`SyndromesDiffer`), the callsign the encoder makes has the syndrome zero
  (`EncodedIntact`), and so `decode_callsign` finds the flipped bit and no
  other (`CallsignRestored`). `CallsignInv` says that the bits read so far are
  those of the callsign sent, or of it with one of these bits flipped.
- `CompoundsNamed`, `ObjectsTyped`. `StoreInv`: what failed or has members was
  parsed, and what was parsed exists. `IndexInv`: nothing exists before the index
  is asked for; while it is read, only objects of its own compounds are made, none
  of them by a group, since groups are parsed later; afterwards every compound has
  its object, made with its name, so that a group, which makes objects without
  names, comes too late to make one. `GenInv` carries this through the calls of
  a client and the entries of the script. The list without repetitions a class's
  members are gathered in is a recursive function, whose solution is shown to
  exist (`KeepsExist`, `UniqueKeeps`); so is the list of a category.
- `CrashesHaveCauses`. `ClassInv`: a class that was parsed failed, or has its
  members, or has no file. `SearchInv`: when the entries are written every class
  of the index has been parsed, looking for blocks; `BlockInv`: a block has
  members, among them its make function as a friend, which is what makes a class
  a block (`IsBlockFile`). A missing constructor is a matter of
  the class's XML alone (`FirstFound`): a function that is the first of its name
  is found among the members kept.
- `ClassesWrittenOnce`, `MethodsWrittenOnce`. `TopListInv`: while the index is
  read, each of its classes is still to be visited or among its members, and in
  none of them twice; at the end all are (`IndexCompoundTop`). `LoopInv`: so the
  loops over the members, the blocks and the category of classes (`OfKindOnce`)
  come to a class once. `SoundInv`: without calls of a client an index that
  cannot be read ends the script. `WrittenInv`: the classes dealt with are
  the blocks that the loop over them has left behind, then all of them, then
  also the good classes the last loop has passed; each has one entry if there is
  something to tell of it, and one for each of its methods, the others have none. This is a matter of counting: how often
  something occurs (`Occurs`) adds up along a concatenation (`OccursConcat`) and
  a `FlattenSeq` (`FlattenOccurs`), a category has it as often as the list it is
  chosen from (`OfKindOccurs`), and a class keeps a function of a name once if
  the name belongs to a function first, and never else (`UniqueOccurs`).
- `FunctionsWrittenOnce`. `CountInv`: a function is among the members of the
  index once for each header read so far that has it (`IndexCompoundCount`);
  none is read twice, as a compound still to come was not parsed.
  `FunctionsInv`: `made` are the make functions of the blocks dealt with, each
  with one entry; the entries of another function, and those it will still get,
  add up to the times it is a member of the index; and an entry has the
  description of a block if and only if it is a make function's. For a make
  function to get no second entry from a second block, no two blocks may have
  the same one (`MakeNameAssumption`).
- `WaitsForTransmission` and `BurstsAreSpread` are arithmetic.

Only model-checked: of the receiver's and the blocks' safety properties none.
`WrongBlocksMarked` of `NxLink`, for the bursts of its run: what the FEC makes of
a block with many wrong bits is not something a CRC of 16 bits promises to
notice, so that there is no statement about every burst to prove. Of the safety
properties of `SwigDoc` none. Everything about `DoxyXml`, whose operators are recursive; liveness
(`SessionEnds`, `EveryCommandServed`, `DestructorReturns`, `StreamConsumed`),
which is beyond this prover, as everything about `ENABLED` is. No
module with proofs declares a `RECURSIVE` operator. Of recursive functions
something can be proved, though the library's induction theorems, which take an
operator as parameter, cannot be used: a set of numbers has a least element
(`LeastNumber`, from the library's well-founded orderings), and induction over a
set follows from it.

## Not modelled

- The layout of GSCF messages: the header is one value, the command it names.
- `beesat_classifier.py`: a stateless comparison of six bytes; every statement
  about it would repeat the code.
- `local_extrema_detect_impl`: floating-point arithmetic is its behaviour, and
  it writes behind its output buffer (line 84), which is undefined.
- `write_ec`, `write_sdb`, `read_ec`, `read_sdb`, `skip_fh` and the short
  datablocks: no path calls them with an effect.
- The destructor of `tnc_b1_impl`, which is empty: the timer thread goes on
  using a destroyed object.
- `exportLiteral`, accessors and `find_*` of the generated classes, names in
  namespaces, parameter lists.
- Modulation wiring, GNU Radio's own blocks, build files, `build_utils.py`
  (string templates no target here uses), SWIG bindings and flow graphs: no
  control of this system.

## Plan

1. `AsioTimer`, `TncNx` with runs and first theorems - done.
2. `MobitexFec`, `NxProtocol`, `NxDecoder` - done.
3. `MobitexCoding`, `FrameComposer`, `NxLink` with its run and theorems - done.
4. `CommandService` and the refinement, checked - done.
5. `TncB1` - done.
6. `DoxySchema`, `DoxyXml`, `DoxyBase`, `SwigDoc` - done.
7. Proofs of the two blocks, the refinement, the receiver and the FEC - done.
   So is `BurstsCorrected`, from the lemmas about FEC, interleaving and scrambler.
   So are `CallsignsCorrected`, from the linearity of the CRC and the 64
   syndromes of single bits, and every safety property of `SwigDoc`, for every
   directory.
8. `Downlink`: receiver and TNC composed, with the trigger of a frame whose
   message is suppressed.
