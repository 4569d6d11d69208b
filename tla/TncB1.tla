-------------------------------- MODULE TncB1 --------------------------------
(***************************************************************************)
(* The BEESAT-1 ground station block (tnc_b1_impl): protocol session,      *)
(* answer timer and receiver in one block.  As in TncNx, two threads run   *)
(* its handlers without a lock:                                            *)
(*   "block"  calls handle_msg_in and general_work                         *)
(*   "timer"  calls handle_timeout and output_module_id                    *)
(* and a handler is a sequence of steps, each of which accesses one shared *)
(* piece of state; th[t].at is the step thread t is about to take.  A bit  *)
(* takes general_work two steps, the switch and the case, and the last bit *)
(* of the data a third, so that reset_rx on the timer thread falls between *)
(* any two of them.                                                        *)
(*                                                                         *)
(* The satellite sends the same echo frame over and over.  pos is the bit  *)
(* of this cycle the receiver reads next: a preamble without a marker, the *)
(* frame-sync marker, the control bytes with their FEC, the datablocks.    *)
(* The channel makes no errors; control bytes read out of step fail their  *)
(* FEC or name no type, datablocks read out of step fail their CRC.        *)
(*                                                                         *)
(* A telecommand is its arrival number, which also stands for the header   *)
(* that replies carry; 0 stands for the initial values.                    *)
(***************************************************************************)
EXTENDS AsioTimer

CONSTANTS
  MaxCmd,      \* bound: number of telecommands that arrive
  MaxNok,      \* bound: refusals counted for one command
  MaxReady,    \* bound: completions queued when the block takes a message
  MaxMissed,   \* bound: missed frames counted
  UnknownCmds, \* the commands whose control bytes name no message type
  Preamble,    \* bits from one frame to the next marker
  SyncBits,    \* 16 in the code: length of the frame-sync marker
  SyncZeros,   \* 4 in the code: zeros the marker begins with
  CtrlBits,    \* 16 in the code
  FecBits,     \* 8 in the code
  BlockBits,   \* 240 in the code: one datablock with its FEC
  DataBlocks,  \* 10 in the code: datablocks of an echo frame
  Backs        \* {32, 35} in the code: bits returned to from a rejected head

ASSUME BoundsAssumption == MaxCmd \in Nat /\ MaxNok \in Nat /\ MaxReady \in Nat
                           /\ MaxMissed \in Nat
ASSUME UnknownAssumption == UnknownCmds \subseteq Nat
ASSUME BitsAssumption ==
  /\ {SyncBits, CtrlBits, FecBits, BlockBits, DataBlocks} \subseteq Nat \ {0}
  /\ SyncZeros \in 0..(SyncBits - 1)
  /\ Preamble \in Nat /\ \A back \in Backs : back \in 1..(Preamble + SyncBits)

VARIABLES
  p_state,   \* protocol state: "idle" or "wait_MSG"
  buf,       \* the one buffered telecommand
  g,         \* the command whose header replies carry (gscf_com)
  tmr,       \* the timer and the io_service it belongs to
  th,        \* what each thread is doing
  pos,       \* the bit of the cycle the receiver reads next
  rx,        \* receiver state, bits in header, rx.cur, counters of the read
             \* functions
  arrived,   \* telecommands that arrived so far
  sent,      \* how often each command was transmitted (port TX4k8)
  replies,   \* the replies published for each command (port Output)
  announced, \* the module id was published: "no", "first" or, if a command
             \* had arrived before it, "late"
  dropped,   \* history: commands displaced from buf by a later one
  missed,    \* history: frames in a row that were not published, counted from
             \* the one a timeout last reset the receiver in
  overlap,   \* history: both threads are in a handler, or have been since
             \* they were last at rest ("now"), or were earlier ("before")
  torn       \* history: a bit and a reset on the timer thread overlapped

session == <<p_state, buf, g, arrived, sent, replies, dropped>>
receiver == <<pos, rx, missed>>
vars == <<session, receiver, tmr, th, announced, overlap, torn>>

Threads == {"block", "timer"}
Handlers == {"timeout", "infinite", "module_id"}
Cmds == 1..MaxCmd
Ids == 0..MaxCmd
ReplyKinds == {"tnc_ok", "tnc_nok", "sat_nok"}

MarkerEnd == Preamble + SyncBits
HeadEnd == MarkerEnd + CtrlBits + FecBits
DataBits == DataBlocks * BlockBits
Cycle == HeadEnd + DataBits

States == {"SEARCH", "RX_CTRL", "RX_CFEC", "RX_DATA"}
BitSteps == States \cup {"check"}

Labels == BitSteps \cup
          {"rest", "reset_rx", "clear_rx", "idle_expires", "idle_wait", "set_idle", "check_buf",
           "clear_buf", "input", "hold", "open", "nok", "ack", "start_expires",
           "start_wait", "set_wait", "sat_nok", "module_id", "moid_expires", "moid_wait"}

Resting == [at |-> "rest", msg |-> 0, nested |-> FALSE]

TypeOK ==
  /\ p_state \in {"idle", "wait_MSG"}
  /\ buf \in [msg : Ids, waiting : BOOLEAN]
  /\ g \in Ids
  /\ tmr \in Timers(Handlers)
  /\ th \in [Threads -> [at : Labels, msg : Ids, nested : BOOLEAN]]
  /\ pos \in 1..Cycle
  /\ rx \in [state : States, header : 0..SyncBits, head : {"cleared", "open", "echo"},
             ctrl : 0..(CtrlBits - 1), fec : 0..(FecBits - 1), data : 0..DataBits]
  /\ arrived \in Ids
  /\ sent \in [Cmds -> Nat]
  /\ replies \in [Ids -> [ReplyKinds -> Nat]]
  /\ announced \in {"no", "first", "late"}
  /\ dropped \subseteq Ids
  /\ missed \in 0..MaxMissed
  /\ overlap \in {"never", "now", "before"}
  /\ torn \in BOOLEAN

Init ==
  /\ p_state = "idle"
  /\ buf = [msg |-> 0, waiting |-> FALSE]
  /\ g = 0
  /\ tmr = NewTimer("finite", "module_id")
  /\ th = [t \in Threads |-> Resting]
  /\ pos = 1
  /\ rx = [state |-> "SEARCH", header |-> 0, head |-> "cleared",
            ctrl |-> 0, fec |-> 0, data |-> 0]
  /\ arrived = 0
  /\ sent = [c \in Cmds |-> 0]
  /\ replies = [c \in Ids |-> [k \in ReplyKinds |-> 0]]
  /\ announced = "no"
  /\ dropped = {}
  /\ missed = 0
  /\ overlap = "never"
  /\ torn = FALSE

------------------------------------------------------------------------------
Goto(t, label) == th' = [th EXCEPT ![t].at = label]

\* The handler of thread t returns: for the timer thread, into run().
Leave(t) ==
  /\ th' = [th EXCEPT ![t] = Resting]
  /\ tmr' = IF t = "timer" THEN Returned(tmr) ELSE tmr

\* handle_msg_in returns, to set_idle if that called it.
EndInput(t) ==
  IF th[t].nested THEN Goto(t, "clear_buf") /\ UNCHANGED tmr ELSE Leave(t)

Publish(kind) == replies' = [replies EXCEPT ![g][kind] = @ + 1]

------------------------------------------------------------------------------
(* Mutated forms, used only by the mutants of PROJECT.json.                 *)

\* A telecommand of unknown type is refused before its header is saved.
OpenHeaderLate(t) ==
  /\ th[t].at = "open"
  /\ IF th[t].msg \in UnknownCmds
     THEN Goto(t, "nok") /\ UNCHANGED <<g, sent>>
     ELSE /\ g' = th[t].msg
          /\ sent' = [sent EXCEPT ![th[t].msg] = @ + 1]
          /\ Goto(t, "ack")
  /\ UNCHANGED <<receiver, tmr, announced, p_state, buf, arrived, replies, dropped>>

\* The command id is read one byte off.
OpenWrongId(t) ==
  /\ th[t].at = "open"
  /\ g' = th[t].msg + 1
  /\ IF th[t].msg \in UnknownCmds
     THEN Goto(t, "nok") /\ UNCHANGED sent
     ELSE Goto(t, "ack") /\ sent' = [sent EXCEPT ![th[t].msg] = @ + 1]
  /\ UNCHANGED <<receiver, tmr, announced, p_state, buf, arrived, replies, dropped>>

\* start_timer sets the deadline of idle_timer.
StartTimerInfinite(t) ==
  /\ th[t].at = "start_expires"
  /\ tmr' = ExpiresFromNow(tmr, "never")
  /\ Goto(t, "start_wait")
  /\ UNCHANGED <<session, receiver, announced>>

\* set_idle does not look into the buffer.
CheckBufferBlind(t) ==
  /\ th[t].at = "check_buf"
  /\ Leave(t)
  /\ UNCHANGED <<session, receiver, announced>>

\* output_module_id does not call idle_timer.
ModuleIdUntimed(t) ==
  /\ th[t].at = "module_id"
  /\ announced' = IF arrived = 0 THEN "first" ELSE "late"
  /\ Leave(t)
  /\ UNCHANGED <<session, receiver>>

\* A counter of a read function goes on after its field.
CountOn(field, length) == [rx EXCEPT ![field] = @ + 1]

------------------------------------------------------------------------------
(* handle_msg_in, on either thread, with the telecommand th[t].msg          *)

ReadState(t) ==
  /\ th[t].at = "input"
  /\ Goto(t, IF p_state = "idle" THEN "open" ELSE "hold")
  /\ UNCHANGED <<session, receiver, tmr, announced>>

Hold(t) ==
  /\ th[t].at = "hold"
  /\ buf' = [msg |-> th[t].msg, waiting |-> TRUE]
  /\ dropped' = IF buf.waiting /\ buf.msg # th[t].msg
                THEN dropped \cup {buf.msg} ELSE dropped
  /\ EndInput(t)
  /\ UNCHANGED <<receiver, announced, p_state, g, arrived, sent, replies>>

\* Save the header; encode and transmit a telecommand of a known type.
Open(t) ==
  /\ th[t].at = "open"
  /\ g' = th[t].msg
  /\ IF th[t].msg \in UnknownCmds
     THEN Goto(t, "nok") /\ UNCHANGED sent
     ELSE Goto(t, "ack") /\ sent' = [sent EXCEPT ![th[t].msg] = @ + 1]
  /\ UNCHANGED <<receiver, tmr, announced, p_state, buf, arrived, replies, dropped>>

RefuseType(t) ==
  /\ th[t].at = "nok"
  /\ Publish("tnc_nok")
  /\ EndInput(t)
  /\ UNCHANGED <<receiver, announced, p_state, buf, g, arrived, sent, dropped>>

AckOk(t) ==
  /\ th[t].at = "ack"
  /\ Publish("tnc_ok")
  /\ Goto(t, "start_expires")
  /\ UNCHANGED <<receiver, tmr, announced, p_state, buf, g, arrived, sent, dropped>>

StartTimerExpires(t) ==
  /\ th[t].at = "start_expires"
  /\ tmr' = ExpiresFromNow(tmr, "finite")
  /\ Goto(t, "start_wait")
  /\ UNCHANGED <<session, receiver, announced>>

StartTimerWait(t) ==
  /\ th[t].at = "start_wait"
  /\ tmr' = AsyncWait(tmr, "timeout")
  /\ Goto(t, "set_wait")
  /\ UNCHANGED <<session, receiver, announced>>

\* The timer runs before the session is marked as waiting.
SetWaitMsg(t) ==
  /\ th[t].at = "set_wait"
  /\ p_state' = "wait_MSG"
  /\ EndInput(t)
  /\ UNCHANGED <<receiver, announced, buf, g, arrived, sent, replies, dropped>>

------------------------------------------------------------------------------
(* set_idle, on either thread                                               *)

\* reset_rx clears the search and then rx.cur; the counters of the read
\* functions are static and stay.
SearchAgain(r) == [r EXCEPT !.state = "SEARCH", !.header = 0]
HeadCleared(r) == [r EXCEPT !.head = "cleared"]

InFrame == pos > Preamble + 1

ResetRx(t) ==
  /\ th[t].at = "reset_rx"
  /\ rx' = SearchAgain(rx)
  /\ missed' = IF t = "timer" /\ InFrame THEN 0 ELSE missed
  /\ Goto(t, "clear_rx")
  /\ UNCHANGED <<session, tmr, announced, pos>>

ClearRx(t) ==
  /\ th[t].at = "clear_rx"
  /\ rx' = HeadCleared(rx)
  /\ Goto(t, "idle_expires")
  /\ UNCHANGED <<session, tmr, announced, pos, missed>>

\* idle_timer is called by set_idle and by output_module_id.
IdleTimerExpires(t) ==
  /\ \/ th[t].at = "idle_expires" /\ Goto(t, "idle_wait")
     \/ th[t].at = "moid_expires" /\ Goto(t, "moid_wait")
  /\ tmr' = ExpiresFromNow(tmr, "never")
  /\ UNCHANGED <<session, receiver, announced>>

IdleTimerWait(t) ==
  /\ th[t].at = "idle_wait"
  /\ tmr' = AsyncWait(tmr, "infinite")
  /\ Goto(t, "set_idle")
  /\ UNCHANGED <<session, receiver, announced>>

SetIdle(t) ==
  /\ th[t].at = "set_idle"
  /\ p_state' = "idle"
  /\ Goto(t, "check_buf")
  /\ UNCHANGED <<receiver, tmr, announced, buf, g, arrived, sent, replies, dropped>>

CheckBuffer(t) ==
  /\ th[t].at = "check_buf"
  /\ \/ /\ buf.waiting
        /\ th' = [th EXCEPT ![t] = [at |-> "input", msg |-> buf.msg, nested |-> TRUE]]
        /\ UNCHANGED tmr
     \/ ~buf.waiting /\ Leave(t)
  /\ UNCHANGED <<session, receiver, announced>>

ClearBuffer(t) ==
  /\ th[t].at = "clear_buf"
  /\ buf' = [buf EXCEPT !.waiting = FALSE]
  /\ Leave(t)
  /\ UNCHANGED <<receiver, announced, p_state, g, arrived, sent, replies, dropped>>

------------------------------------------------------------------------------
(* The block thread takes a message or a bit                                *)

TakesMessage == th["block"].at = "rest" /\ Len(tmr.ready) <= MaxReady

\* A telecommand of the right length.  One of a wrong length, whose reply is
\* built and not published, and a g_CMD message change nothing.
InputCommand ==
  /\ TakesMessage
  /\ arrived < MaxCmd
  /\ arrived' = arrived + 1
  /\ th' = [th EXCEPT !["block"] = [at |-> "input", msg |-> arrived + 1, nested |-> FALSE]]
  /\ UNCHANGED <<receiver, tmr, announced, p_state, buf, g, sent, replies, dropped>>

\* A GSCF message of unknown type: refused with the header saved last.
InputRefused ==
  /\ TakesMessage
  /\ IF replies[g]["tnc_nok"] < MaxNok THEN Publish("tnc_nok") ELSE UNCHANGED replies
  /\ UNCHANGED <<receiver, tmr, th, announced, p_state, buf, g, arrived, sent, dropped>>

\* One iteration of general_work: the switch, then the case of the state read.
GeneralWork ==
  /\ TakesMessage
  /\ Goto("block", rx.state)
  /\ UNCHANGED <<session, receiver, tmr, announced>>

\* The case ends; a frame the receiver is not reading as it ends is missed.
NextBit == pos' = IF pos = Cycle THEN 1 ELSE pos + 1
EndBit ==
  /\ Goto("block", "rest")
  /\ missed' = IF pos = Cycle /\ missed < MaxMissed THEN missed + 1 ELSE missed
  /\ UNCHANGED <<session, tmr, announced>>

\* The marker was read when its last bit was, and as many bits before it as
\* it takes: header was cleared to the zeros the marker begins with.
MarkerFound == pos = MarkerEnd /\ rx.header + 1 >= SyncBits - SyncZeros

Search ==
  /\ th["block"].at = "SEARCH"
  /\ LET r == [rx EXCEPT !.header = IF @ < SyncBits THEN @ + 1 ELSE @]
     IN  rx' = IF MarkerFound THEN [r EXCEPT !.state = "RX_CTRL", !.head = "open"] ELSE r
  /\ NextBit
  /\ EndBit

\* A counter of a read function: back to 0 when its field is complete.
Count(field, length) == [rx EXCEPT ![field] = (@ + 1) % length]
Complete(field, length) == rx[field] + 1 = length

RxCtrl ==
  /\ th["block"].at = "RX_CTRL"
  /\ rx' = IF Complete("ctrl", CtrlBits)
           THEN [Count("ctrl", CtrlBits) EXCEPT !.state = "RX_CFEC"]
           ELSE Count("ctrl", CtrlBits)
  /\ NextBit
  /\ EndBit

\* Control bytes read in step are those of an echo frame, unless a reset cleared
\* them meanwhile and what is left cannot be corrected; others are rejected,
\* because of their FEC or because they name no type, and the search resumes
\* some bits back.  (The trigger published for an echo frame changes nothing.)
RxCfec ==
  /\ th["block"].at = "RX_CFEC"
  /\ \/ ~Complete("fec", FecBits) /\ rx' = Count("fec", FecBits) /\ NextBit
     \/ /\ Complete("fec", FecBits) /\ pos = HeadEnd
        /\ rx' = [Count("fec", FecBits) EXCEPT !.state = "RX_DATA", !.head = "echo"]
        /\ NextBit
     \/ /\ Complete("fec", FecBits) /\ (pos # HeadEnd \/ rx.head = "cleared")
        /\ rx' = HeadCleared(SearchAgain(Count("fec", FecBits)))
        /\ \E back \in Backs : pos' = pos - back + 1
  /\ EndBit

\* read_data compares block_c with rx.cur.blocks only as a block is complete, and
\* for equality: if it passes that number it never comes back, and from block 32
\* on it writes behind mob_data.  DataBits stands for all such values.
DataComplete == rx.head = "echo" /\ Complete("data", DataBits)
CountData ==
  [rx EXCEPT !.data = IF DataComplete THEN 0 ELSE IF @ < DataBits THEN @ + 1 ELSE @]

RxData ==
  /\ th["block"].at = "RX_DATA"
  /\ rx' = CountData
  /\ \/ ~DataComplete /\ NextBit /\ EndBit
     \/ /\ DataComplete /\ Goto("block", "check")
        /\ UNCHANGED <<session, tmr, announced, pos, missed>>

\* The data read begins with counters that stand Cycle - pos bits into the
\* frame when it ends: the blocks up to there were not read and not found wrong,
\* and the others are those of the frame only if whole blocks are missing.
Unread == (Cycle - pos) \div BlockBits
Aligned == (Cycle - pos) % BlockBits = 0
errorcount == IF Aligned THEN 0 ELSE DataBlocks - Unread

\* A message is published as the answer, which ends the session, unless every
\* block was found wrong, or a reset just cleared the errors and the type.
Waste == rx.head = "echo" /\ errorcount = DataBlocks

CheckMessage ==
  /\ th["block"].at = "check"
  /\ NextBit
  /\ \/ Waste /\ rx' = HeadCleared(SearchAgain(rx)) /\ EndBit
     \/ /\ ~Waste
        /\ missed' = IF pos = Cycle THEN 0 ELSE missed
        /\ Goto("block", "reset_rx")
        /\ UNCHANGED <<session, tmr, announced, rx>>

ReceiveBit == Search \/ RxCtrl \/ RxCfec \/ RxData \/ CheckMessage

------------------------------------------------------------------------------
(* The timer thread in io_service::run                                      *)

TimerElapses ==
  /\ th["timer"].at = "rest"
  /\ Elapsable(tmr)
  /\ tmr' = Elapse(tmr)
  /\ UNCHANGED <<session, receiver, th, announced>>

\* output_module_id is bound without the error code: it runs in any case.
\* Aborted timeouts and handle_infinite_timeout are only logged.
RunCompletion ==
  /\ th["timer"].at = "rest"
  /\ Dispatchable(tmr)
  /\ LET c == Head(tmr.ready)
     IN  CASE c.handler = "timeout" /\ c.ok ->
                tmr' = Dispatched(tmr) /\ Goto("timer", "sat_nok")
           [] c.handler = "module_id" ->
                tmr' = Dispatched(tmr) /\ Goto("timer", "module_id")
           [] OTHER -> tmr' = Returned(Dispatched(tmr)) /\ UNCHANGED th
  /\ UNCHANGED <<session, receiver, announced>>

\* handle_timeout with success does not look at p_state.
SatNok(t) ==
  /\ th[t].at = "sat_nok"
  /\ Publish("sat_nok")
  /\ Goto(t, "reset_rx")
  /\ UNCHANGED <<receiver, tmr, announced, p_state, buf, g, arrived, sent, dropped>>

ModuleId(t) ==
  /\ th[t].at = "module_id"
  /\ announced' = IF arrived = 0 THEN "first" ELSE "late"
  /\ Goto(t, "moid_expires")
  /\ UNCHANGED <<session, receiver, tmr>>

ModuleIdReturns(t) ==
  /\ th[t].at = "moid_wait"
  /\ tmr' = Returned(AsyncWait(tmr, "infinite"))
  /\ th' = [th EXCEPT ![t] = Resting]
  /\ UNCHANGED <<session, receiver, announced>>

------------------------------------------------------------------------------
\* A handler of the session is at work; a bit that ends no session is none.
InHandler(t) == th[t].at \notin {"rest"} \cup BitSteps
Quiescent == \A t \in Threads : ~InHandler(t)

\* The histories of overlapping handlers, and of bits that a reset fell into,
\* kept beside every step.
Watch ==
  /\ overlap' = IF \A t \in Threads : InHandler(t)' THEN "now"
                ELSE IF overlap = "now" /\ Quiescent' THEN "before"
                ELSE overlap
  /\ torn' = (torn \/ (th'["block"].at \in BitSteps /\ th'["timer"].at = "clear_rx"))

SessionStep(t) ==
  \/ ReadState(t) \/ Hold(t) \/ Open(t) \/ RefuseType(t) \/ AckOk(t)
  \/ StartTimerExpires(t) \/ StartTimerWait(t) \/ SetWaitMsg(t)
  \/ ResetRx(t) \/ ClearRx(t)
  \/ IdleTimerExpires(t) \/ IdleTimerWait(t) \/ SetIdle(t)
  \/ CheckBuffer(t) \/ ClearBuffer(t)
  \/ SatNok(t) \/ ModuleId(t) \/ ModuleIdReturns(t)

HandlerStep(t) == (SessionStep(t) \/ (t = "block" /\ ReceiveBit)) /\ Watch

Receive == (InputCommand \/ InputRefused \/ GeneralWork) /\ Watch

RunTimer == (TimerElapses \/ RunCompletion) /\ Watch

\* The end of the model: run() has returned, nothing takes completions off the
\* queue any more, and at MaxReady the block takes no more messages.
Exhausted == tmr.stopped /\ Len(tmr.ready) > MaxReady /\ UNCHANGED vars

Next ==
  \/ \E t \in Threads : HandlerStep(t)
  \/ Receive
  \/ RunTimer
  \/ Exhausted

Spec == Init /\ [][Next]_vars

\* Both threads keep running, and a deadline that can pass does pass.
Fairness ==
  /\ \A t \in Threads : WF_vars(HandlerStep(t))
  /\ WF_vars(RunCompletion /\ Watch)
  /\ WF_vars(TimerElapses /\ Watch)

FairSpec == Spec /\ Fairness

------------------------------------------------------------------------------
(* Properties                                                               *)

At(labels) == \E t \in Threads : th[t].at \in labels

\* The block is, or was during this step, busy with two handlers at once.
Together == overlap = "now"
Apart == ~Together /\ ~Together'

InProgress(c) ==
  \E t \in Threads : th[t].msg = c /\ th[t].at \in {"input", "hold", "open", "nok", "ack"}

\* What becomes of a telecommand: it is on its way, buffered or displaced, and
\* then has the reply it deserves under its own header: one TNC_OK if it was
\* transmitted, TNC_NOK if its type is unknown, and then it is not transmitted.
Undecided(c) == c \in dropped \/ (buf.waiting /\ buf.msg = c) \/ InProgress(c)

Answered(c) ==
  IF c \in UnknownCmds THEN replies[c]["tnc_nok"] > 0 /\ sent[c] = 0
  ELSE sent[c] = 1 /\ replies[c]["tnc_ok"] = 1

\* A command waits in the buffer of an idle block, and no handler is about to
\* look for it or has taken it.
Stranded ==
  /\ p_state = "idle" /\ buf.waiting
  /\ \A t \in Threads : th[t].at # "check_buf" /\ ~th[t].nested

TimeoutPending ==
  \/ tmr.waits # <<>> /\ Head(tmr.waits) = "timeout" /\ tmr.due = "finite"
  \/ Queued(tmr, "timeout", TRUE)

\* A session waits for an answer that has no deadline, and no handler is about
\* to set one or to end the session.
Untimed ==
  /\ p_state = "wait_MSG"
  /\ ~TimeoutPending
  /\ ~At({"sat_nok", "reset_rx", "clear_rx", "idle_expires", "idle_wait", "set_idle",
          "start_expires", "start_wait"})

BetweenCalls(t) == th[t].at \in {"idle_wait", "start_wait"}

(* What holds in every interleaving of the two threads.                     *)

\* io_service::run leaves the timer thread without work only when the block
\* thread is between expires_from_now, which cancels the wait in progress, and
\* async_wait, which begins the next one.
RunsOutBetweenCalls ==
  [][~tmr.stopped /\ tmr'.stopped => BetweenCalls("block")]_vars

\* A handler that runs alone loses no telecommand and ends with the reply it
\* deserves, and nothing it does later is a second reply or transmission of it.
AnsweredAsTreated ==
  [][Apart => \A c \in 1..arrived : /\ Undecided(c) => Undecided(c)' \/ Answered(c)'
                                    /\ Answered(c) => Answered(c)']_vars

\* An open session loses its deadline only to the idle_timer that follows the
\* module id or to handlers that overlap.
UntimedByModuleId ==
  [][Apart /\ Untimed' => Untimed \/ th["timer"].at = "moid_expires"]_vars

\* A timeout resets the receiver in the middle of a frame, and the counters of
\* the read functions stay where they were.  The receiver gets in step again all
\* the same, and block_c does not pass its limit: besides that frame at most two
\* are lost, one to the counters of the head and one to those of the data.  Only a
\* reset that overlaps with the handling of a bit can do more harm.
BackInStep == torn \/ (missed <= 3 /\ rx.data < DataBits)

\* An open session has lost its deadline, to the module id that was late or to
\* handlers that overlapped.
Disarmed == Untimed /\ (announced = "late" \/ overlap # "never")

\* Handlers that overlapped have lost the command or left it in the buffer.
Mislaid(c) == overlap # "never" /\ (~Undecided(c) \/ Stranded)

\* Every telecommand that arrived is dealt with in the end, also one that waits
\* in the buffer for a session without an answer to time out, unless it is
\* displaced or mislaid, or the session before it does not end.
EveryCommandServed ==
  \A c \in Cmds :
    arrived >= c ~> \/ IF c \in UnknownCmds THEN replies[c]["tnc_nok"] > 0 ELSE sent[c] > 0
                    \/ c \in dropped
                    \/ []Mislaid(c) \/ []Disarmed \/ []tmr.stopped

------------------------------------------------------------------------------
(* What the comments of the code say, and the code does not do: each of these *)
(* is violated.                                                             *)

\* "check, if message is completely waste" (tnc_b1_impl.cc:323): a message is
\* published only if some block of it is a block of the frame, at least if no
\* reset ever fell into a bit.
PublishesAnswer == th["block"].at = "check" /\ th'["block"].at = "reset_rx"
NothingWaste == [][PublishesAnswer /\ ~torn => Aligned /\ Unread < DataBlocks]_vars

\* "transmit module id" (tnc_b1_impl.cc:218): that is all output_module_id does,
\* so that a session open by then keeps its deadline.
OnlyTransmitsModuleId ==
  [][th["timer"].at = "moid_expires" /\ Apart /\ Untimed' => Untimed]_vars

\* "handle waiting message from the buffer" (tnc_b1_impl.cc:104): once.
SentOnce == \A c \in Cmds : sent[c] <= 1

------------------------------------------------------------------------------
(* Inductive invariants of the receiver, for the proofs                     *)

\* The block thread has published a message and is about to reset the receiver.
Published == th["block"].at \in {"reset_rx", "clear_rx"}

\* Whatever a reset has torn: the bit being read is one of the receiver's state,
\* or the search has begun again, and a field of the head is read behind what comes
\* before it, ahead of the frame if its counter did not begin at 0.
HeadInv ==
  /\ th["block"].at \in States => rx.state \in {th["block"].at, "SEARCH"}
  /\ th["block"].at = "check" => rx.state \in {"RX_DATA", "SEARCH"}
  /\ "RX_CTRL" \in {th["block"].at, rx.state} =>
       MarkerEnd < pos /\ pos <= MarkerEnd + 1 + rx.ctrl
  /\ "RX_CFEC" \in {th["block"].at, rx.state} =>
       MarkerEnd < pos /\ pos <= MarkerEnd + CtrlBits + 1 + rx.fec /\ rx.ctrl = 0

\* The timer thread resets the receiver between two bits.
StepInv ==
  /\ th["block"].at \in BitSteps => th["timer"].at # "clear_rx"
  /\ th["block"].at \in States => rx.state = th["block"].at
  /\ th["block"].at = "check" => rx.state = "RX_DATA"
  /\ At({"clear_rx"}) => rx.state = "SEARCH"
  /\ rx.state \in {"RX_CTRL", "RX_CFEC"} => rx.head = "open"
  /\ rx.state = "RX_DATA" => rx.head = "echo"
  /\ rx.data < DataBits

\* The data are read behind the head, all of them before they are published.
DataInv ==
  /\ rx.state = "RX_DATA" =>
       /\ rx.ctrl = 0 /\ rx.fec = 0
       /\ CASE Published -> rx.data = 0 /\ (pos = 1 \/ pos > HeadEnd)
            [] th["block"].at = "check" -> rx.data = 0 /\ HeadEnd < pos
            [] OTHER -> HeadEnd < pos /\ pos <= HeadEnd + 1 + rx.data
  /\ Published => rx.state = "RX_DATA" \/ (rx.state = "SEARCH" /\ rx.header = 0)

\* The search, with h bits in header, finds the marker of this frame.
WillFind(h) == pos <= MarkerEnd /\ h + (MarkerEnd - pos) + 1 >= SyncBits - SyncZeros

One(condition) == IF condition THEN 1 ELSE 0

\* How many frames can still be lost before one is published.
Losses ==
  LET head == One(rx.ctrl # 0 \/ rx.fec # 0)
      data == One(rx.data # 0)
  IN  CASE rx.state = "SEARCH" -> One(~WillFind(rx.header)) + head + data
        [] rx.state = "RX_CTRL" ->
             One(rx.ctrl # pos - MarkerEnd - 1 \/ rx.fec # 0) + data
        [] rx.state = "RX_CFEC" -> One(rx.fec # pos - MarkerEnd - CtrlBits - 1) + data
        [] rx.state = "RX_DATA" ->
             CASE Published -> One(pos # 1)
               [] th["block"].at = "check" -> One(pos # Cycle)
               [] OTHER -> One(rx.data # pos - HeadEnd - 1)

LossInv == ~torn => StepInv /\ DataInv /\ missed + Losses <= 3

------------------------------------------------------------------------------
(* Inductive invariants of the session, for the proofs                      *)

InputSteps == {"input", "hold", "open"}
TimerSteps == {"start_expires", "start_wait", "set_wait"}
RepliedSteps == TimerSteps \cup {"clear_buf"}

\* Where each thread can be, and what its message is.
ThreadInv ==
  /\ th["block"].at \notin {"sat_nok", "module_id", "moid_expires", "moid_wait"}
  /\ th["timer"].at \notin BitSteps
  /\ \A t \in Threads :
       /\ th[t].nested => th[t].at \in InputSteps \cup {"nok", "ack"} \cup RepliedSteps
       /\ th[t].at = "clear_buf" => th[t].nested
       /\ th[t].at \in InputSteps \cup {"nok", "ack"} \cup RepliedSteps => th[t].msg \in Cmds
       /\ th[t].at = "nok" => th[t].msg \in UnknownCmds
       /\ th[t].at \in {"ack"} \cup TimerSteps => sent[th[t].msg] > 0
  /\ buf.waiting => buf.msg \in Cmds

\* A command that was not held yet is the one that arrived last, and nobody else
\* has it; one that was not transmitted has no TNC_OK.
New == th["block"].at \in InputSteps /\ ~th["block"].nested

NewInv ==
  /\ \A t \in Threads : th[t].msg <= arrived
  /\ buf.msg <= arrived /\ g <= arrived
  /\ \A c \in Cmds :
       /\ c > arrived => sent[c] = 0 /\ c \notin dropped
       /\ c \in UnknownCmds => sent[c] = 0
       /\ c \notin UnknownCmds /\ sent[c] = 0 => g # c /\ replies[c]["tnc_ok"] = 0
  /\ th["timer"].at \in InputSteps \cup {"nok", "ack"} \cup RepliedSteps => th["timer"].nested
  /\ New => /\ th["block"].msg = arrived /\ sent[arrived] = 0
            /\ buf.msg # arrived /\ th["timer"].msg # arrived

\* The buffered command was not transmitted yet, or is about to be unmarked.
ResendInv ==
  buf.waiting /\ sent[buf.msg] > 0 => \E t \in Threads : th[t].nested

\* The timer thread's own steps that begin a wait, or lead to one.
Idling == {"idle_wait", "moid_wait"}
Renewing == {"sat_nok", "reset_rx", "clear_rx", "idle_expires", "start_wait",
             "module_id", "moid_expires"}

\* A completion is queued whose handler begins another wait.
RenewalQueued ==
  Queued(tmr, "timeout", TRUE) \/ \E ok \in BOOLEAN : Queued(tmr, "module_id", ok)

\* Whatever the threads do to the timer between two calls of each other: a wait
\* with a deadline is, or will be, one whose handler begins another.
WorkInv ==
  /\ tmr.waits = <<>> =>
       \/ BetweenCalls("block")
       \/ th["timer"].at \in Renewing \cup Idling
       \/ RenewalQueued
  /\ tmr.waits # <<>> /\ tmr.due = "finite" =>
       \/ Awaited(tmr, "timeout") \/ Awaited(tmr, "module_id")
       \/ th["block"].at = "start_wait" \/ th["timer"].at \in Renewing
       \/ RenewalQueued
  /\ th["block"].at = "idle_wait" /\ tmr.expiry = "finite" =>
       \/ Awaited(tmr, "timeout")
       \/ th["timer"].at \in Renewing
       \/ RenewalQueued
  /\ th["timer"].at \in Idling /\ tmr.expiry = "finite" =>
       Awaited(tmr, "timeout") \/ th["block"].at = "start_wait"

\* Only one thread is in a handler.
Exclusive == ~InHandler("block") \/ ~InHandler("timer")

\* What a handler that runs alone knows, whatever was left behind before it.
LoneAt(t) ==
  /\ th[t].at = "hold" => p_state = "wait_MSG"
  /\ th[t].at \in {"check_buf", "open", "nok", "ack"} \cup TimerSteps => p_state = "idle"
  /\ th[t].at \in {"nok", "ack"} => g = th[t].msg
  /\ th[t].at = "ack" => sent[th[t].msg] = 1 /\ replies[th[t].msg]["tnc_ok"] = 0
  /\ th[t].at \in RepliedSteps => Answered(th[t].msg)
  /\ th[t].at = "start_wait" => tmr.waits = <<>> /\ tmr.expiry = "finite"
  /\ th[t].at = "set_wait" => TimeoutPending
  /\ th[t].nested => /\ buf.waiting /\ th[t].msg = buf.msg
                     /\ th[t].at # "hold"
                     /\ th[t].at = "input" => p_state = "idle"
                     /\ th[t].at \in InputSteps => sent[th[t].msg] = 0

LoneInv == ~Together => Exclusive /\ \A t \in Threads : LoneAt(t)

==============================================================================
