-------------------------------- MODULE TncNx --------------------------------
(***************************************************************************)
(* The protocol block of the BEESAT-2/-4 ground station (tnc_impl).  Two   *)
(* threads run its handlers without a lock:                                *)
(*   "block"  the scheduler thread of the block, which calls               *)
(*            handle_msg_input and handle_msg_rx one message at a time     *)
(*   "timer"  run_timer, which calls handle_timeout                        *)
(* A handler is a sequence of steps; a step accesses one shared piece of   *)
(* state (p_state, the timer, buf, or the header kept in g).  th[t].at is  *)
(* the step thread t is about to take, "rest" when it is in no handler.    *)
(*                                                                         *)
(* A telecommand is its arrival number, which also stands for the command  *)
(* id of its GSCF header; 0 stands for the initial values of both.         *)
(***************************************************************************)
EXTENDS AsioTimer

CONSTANTS
  MaxCmd,    \* bound: number of telecommands that arrive
  MaxNok,    \* bound: refusals counted for one command id
  MaxReady   \* bound: completions queued when the block takes a message

ASSUME BoundsAssumption == MaxCmd \in Nat /\ MaxNok \in Nat /\ MaxReady \in Nat

VARIABLES
  p_state,   \* protocol state: "idle" or "wait_msg"
  buf,       \* the one buffered telecommand
  g,         \* the command id saved for replies (gscf_com)
  tmr,       \* the answer timer and the io_service it belongs to
  th,        \* what each thread is doing
  arrived,   \* telecommands that arrived so far
  sent,      \* how often each command was given to the encoder (port TX)
  replies,   \* the replies published for each command id (port Output)
  heard,     \* the receiver reported a frame head and no message since
  dropped,   \* history: commands displaced from buf by a later one
  overlap    \* history: both threads are in a handler, or have been since the
             \* block was last at rest ("now"), or were earlier ("before")

vars == <<p_state, buf, g, tmr, th, arrived, sent, replies, heard, dropped, overlap>>

Threads == {"block", "timer"}
Handlers == {"timeout", "infinite"}  \* handle_timeout, handle_infinite_timeout
Cmds == 1..MaxCmd
Ids == 0..MaxCmd
ReplyKinds == {"tnc_ok", "tnc_nok", "sat_nok"}

Labels == {"rest", "set_idle", "idle_expires", "idle_wait", "check_buf",
           "clear_buf", "input", "hold", "open", "set_wait", "start_expires",
           "start_wait", "ack", "trg_expires", "trg_wait", "timeout",
           "sat_nok", "join", "gone"}

Activities == [at : Labels, msg : Ids, nested : BOOLEAN]
Resting == [at |-> "rest", msg |-> 0, nested |-> FALSE]

TypeOK ==
  /\ p_state \in {"idle", "wait_msg"}
  /\ buf \in [msg : Ids, waiting : BOOLEAN]
  /\ g \in Ids
  /\ tmr \in Timers(Handlers)
  /\ th \in [Threads -> Activities]
  /\ arrived \in Ids
  /\ sent \in [Cmds -> Nat]
  /\ replies \in [Ids -> [ReplyKinds -> Nat]]
  /\ heard \in BOOLEAN
  /\ dropped \subseteq Ids
  /\ overlap \in {"never", "now", "before"}

Init ==
  /\ p_state = "idle"
  /\ buf = [msg |-> 0, waiting |-> FALSE]
  /\ g = 0
  /\ tmr = NewTimer("never", "infinite")
  /\ th = [t \in Threads |-> Resting]
  /\ arrived = 0
  /\ sent = [c \in Cmds |-> 0]
  /\ replies = [c \in Ids |-> [k \in ReplyKinds |-> 0]]
  /\ heard = FALSE
  /\ dropped = {}
  /\ overlap = "never"

------------------------------------------------------------------------------
Goto(t, label) == th' = [th EXCEPT ![t].at = label]

\* The handler of thread t returns, the timer being tm.  For the timer thread
\* it returns into io_service::run.
Leave(t, tm) ==
  /\ th' = [th EXCEPT ![t] = Resting]
  /\ tmr' = IF t = "timer" THEN Returned(tm) ELSE tm

\* handle_msg_input returns, to set_idle if that called it.
EndInput(t) ==
  IF th[t].nested THEN Goto(t, "clear_buf") /\ UNCHANGED tmr
                  ELSE Leave(t, tmr)

Publish(kind) == replies' = [replies EXCEPT ![g][kind] = @ + 1]

------------------------------------------------------------------------------
(* Mutated forms of actions below: what a plausible slip in the code would  *)
(* turn them into.  No action uses them; the mutants of PROJECT.json do.    *)

\* The command id is read one byte off.
OpenWrongId(t) ==
  /\ th[t].at = "open"
  /\ g' = th[t].msg + 1
  /\ sent' = [sent EXCEPT ![th[t].msg] = @ + 1]
  /\ Goto(t, "set_wait")
  /\ UNCHANGED <<p_state, buf, tmr, arrived, replies, heard, dropped>>

\* handle_msg_input does not look at the protocol state.
ReadStateBlind(t) ==
  /\ th[t].at = "input"
  /\ Goto(t, "open")
  /\ UNCHANGED <<p_state, buf, g, tmr, arrived, sent, replies, heard, dropped>>

\* handle_msg_input forgets buf.waiting = true.
HoldUnmarked(t) ==
  /\ th[t].at = "hold"
  /\ buf' = [buf EXCEPT !.msg = th[t].msg]
  /\ EndInput(t)
  /\ UNCHANGED <<p_state, g, arrived, sent, replies, heard, dropped>>

\* set_wait_msg forgets start_timer.
SetWaitMsgUntimed(t) ==
  /\ th[t].at = "set_wait"
  /\ p_state' = "wait_msg"
  /\ Goto(t, "ack")
  /\ UNCHANGED <<buf, g, tmr, arrived, sent, replies, heard, dropped>>

\* start_timer sets the infinite deadline.
StartTimerInfinite(t) ==
  /\ th[t].at = "start_expires"
  /\ tmr' = ExpiresFromNow(tmr, "never")
  /\ Goto(t, "start_wait")
  /\ UNCHANGED <<p_state, buf, g, arrived, sent, replies, heard, dropped>>

\* set_idle forgets idle_timer.
SetIdleUntimed(t) ==
  /\ th[t].at = "set_idle"
  /\ p_state' = "idle"
  /\ Goto(t, "check_buf")
  /\ UNCHANGED <<buf, g, tmr, arrived, sent, replies, heard, dropped>>

\* set_idle does not look into the buffer.
CheckBufferBlind(t) ==
  /\ th[t].at = "check_buf"
  /\ Leave(t, tmr)
  /\ UNCHANGED <<p_state, buf, g, arrived, sent, replies, heard, dropped>>

\* set_idle does not unmark the buffer.
ClearBufferNot(t) ==
  /\ th[t].at = "clear_buf"
  /\ Leave(t, tmr)
  /\ UNCHANGED <<p_state, buf, g, arrived, sent, replies, heard, dropped>>

\* The destructor forgets ios.stop().
DestroyUnstopped ==
  /\ th["block"].at = "rest"
  /\ Goto("block", "join")
  /\ UNCHANGED <<p_state, buf, g, tmr, arrived, sent, replies, heard, dropped>>

\* The destructor forgets thr->join().
JoinNot ==
  /\ th["block"].at = "join"
  /\ Goto("block", "gone")
  /\ UNCHANGED <<p_state, buf, g, tmr, arrived, sent, replies, heard, dropped>>

------------------------------------------------------------------------------
(* handle_msg_input, on either thread, with the message th[t].msg           *)

\* The protocol state is read once, before anything is decided on it.
ReadState(t) ==
  /\ th[t].at = "input"
  /\ Goto(t, IF p_state = "idle" THEN "open" ELSE "hold")
  /\ UNCHANGED <<p_state, buf, g, tmr, arrived, sent, replies, heard, dropped>>

Hold(t) ==
  /\ th[t].at = "hold"
  /\ buf' = [msg |-> th[t].msg, waiting |-> TRUE]
  /\ dropped' = IF buf.waiting /\ buf.msg # th[t].msg
                THEN dropped \cup {buf.msg} ELSE dropped
  /\ EndInput(t)
  /\ UNCHANGED <<p_state, g, arrived, sent, replies, heard>>

\* Save the header, strip it, pass the message to the encoder.
Open(t) ==
  /\ th[t].at = "open"
  /\ g' = th[t].msg
  /\ sent' = [sent EXCEPT ![th[t].msg] = @ + 1]
  /\ Goto(t, "set_wait")
  /\ UNCHANGED <<p_state, buf, tmr, arrived, replies, heard, dropped>>

SetWaitMsg(t) ==
  /\ th[t].at = "set_wait"
  /\ p_state' = "wait_msg"
  /\ Goto(t, "start_expires")
  /\ UNCHANGED <<buf, g, tmr, arrived, sent, replies, heard, dropped>>

StartTimerExpires(t) ==
  /\ th[t].at = "start_expires"
  /\ tmr' = ExpiresFromNow(tmr, "finite")
  /\ Goto(t, "start_wait")
  /\ UNCHANGED <<p_state, buf, g, arrived, sent, replies, heard, dropped>>

StartTimerWait(t) ==
  /\ th[t].at = "start_wait"
  /\ tmr' = AsyncWait(tmr, "timeout")
  /\ Goto(t, "ack")
  /\ UNCHANGED <<p_state, buf, g, arrived, sent, replies, heard, dropped>>

AckOk(t) ==
  /\ th[t].at = "ack"
  /\ Publish("tnc_ok")
  /\ EndInput(t)
  /\ UNCHANGED <<p_state, buf, g, arrived, sent, heard, dropped>>

------------------------------------------------------------------------------
(* set_idle, on either thread                                               *)

SetIdle(t) ==
  /\ th[t].at = "set_idle"
  /\ p_state' = "idle"
  /\ Goto(t, "idle_expires")
  /\ UNCHANGED <<buf, g, tmr, arrived, sent, replies, heard, dropped>>

\* idle_timer is called by set_idle and, on the block thread, by a trigger.
IdleTimerExpires(t) ==
  /\ \/ th[t].at = "idle_expires" /\ Goto(t, "idle_wait")
     \/ th[t].at = "trg_expires" /\ Goto(t, "trg_wait")
  /\ tmr' = ExpiresFromNow(tmr, "never")
  /\ UNCHANGED <<p_state, buf, g, arrived, sent, replies, heard, dropped>>

IdleTimerWait(t) ==
  /\ \/ th[t].at = "idle_wait" /\ Goto(t, "check_buf")
                               /\ tmr' = AsyncWait(tmr, "infinite")
     \/ th[t].at = "trg_wait" /\ Leave(t, AsyncWait(tmr, "infinite"))
  /\ UNCHANGED <<p_state, buf, g, arrived, sent, replies, heard, dropped>>

CheckBuffer(t) ==
  /\ th[t].at = "check_buf"
  /\ \/ /\ buf.waiting
        /\ th' = [th EXCEPT ![t] = [at |-> "input", msg |-> buf.msg,
                                    nested |-> TRUE]]
        /\ UNCHANGED tmr
     \/ ~buf.waiting /\ Leave(t, tmr)
  /\ UNCHANGED <<p_state, buf, g, arrived, sent, replies, heard, dropped>>

ClearBuffer(t) ==
  /\ th[t].at = "clear_buf"
  /\ buf' = [buf EXCEPT !.waiting = FALSE]
  /\ Leave(t, tmr)
  /\ UNCHANGED <<p_state, g, arrived, sent, replies, heard, dropped>>

------------------------------------------------------------------------------
(* The block thread takes a message                                         *)

TakesMessage == th["block"].at = "rest" /\ Len(tmr.ready) <= MaxReady

\* Port Input, a telecommand of the right length.
InputCommand ==
  /\ TakesMessage
  /\ arrived < MaxCmd
  /\ arrived' = arrived + 1
  /\ th' = [th EXCEPT !["block"] = [at |-> "input", msg |-> arrived + 1,
                                    nested |-> FALSE]]
  /\ UNCHANGED <<p_state, buf, g, tmr, sent, replies, heard, dropped>>

\* Port Input, a wrong length or an unknown type: refused with the header of
\* the command accepted last.  (A g_CMD message is ignored.)
InputRefused ==
  /\ TakesMessage
  /\ IF replies[g]["tnc_nok"] < MaxNok THEN Publish("tnc_nok") ELSE UNCHANGED replies
  /\ UNCHANGED <<p_state, buf, g, tmr, th, arrived, sent, heard, dropped>>

\* Port RX, a frame head was received: forwarded, then idle_timer.
RxTrigger ==
  /\ TakesMessage
  /\ heard' = TRUE
  /\ Goto("block", "trg_expires")
  /\ UNCHANGED <<p_state, buf, g, tmr, arrived, sent, replies, dropped>>

\* Port RX, a whole message (BIT_MSG or BIT_DIG): forwarded, then set_idle.
\* The receiver has reported its head before; it may suppress the message.
RxMessage ==
  /\ TakesMessage
  /\ heard
  /\ heard' = FALSE
  /\ Goto("block", "set_idle")
  /\ UNCHANGED <<p_state, buf, g, tmr, arrived, sent, replies, dropped>>

------------------------------------------------------------------------------
(* The timer thread in io_service::run                                      *)

TimerElapses ==
  /\ th["timer"].at = "rest"
  /\ Elapsable(tmr)
  /\ tmr' = Elapse(tmr)
  /\ UNCHANGED <<p_state, buf, g, th, arrived, sent, replies, heard, dropped>>

\* Aborted completions, and those of handle_infinite_timeout, are only logged.
RunCompletion ==
  /\ th["timer"].at = "rest"
  /\ Dispatchable(tmr)
  /\ LET c == Head(tmr.ready)
     IN  IF c.handler = "timeout" /\ c.ok
         THEN tmr' = Dispatched(tmr) /\ Goto("timer", "timeout")
         ELSE tmr' = Returned(Dispatched(tmr)) /\ UNCHANGED th
  /\ UNCHANGED <<p_state, buf, g, arrived, sent, replies, heard, dropped>>

\* handle_timeout with success.
Timeout(t) ==
  /\ th[t].at = "timeout"
  /\ Goto(t, IF p_state = "wait_msg" THEN "sat_nok" ELSE "set_idle")
  /\ UNCHANGED <<p_state, buf, g, tmr, arrived, sent, replies, heard, dropped>>

SatNok(t) ==
  /\ th[t].at = "sat_nok"
  /\ Publish("sat_nok")
  /\ Goto(t, "set_idle")
  /\ UNCHANGED <<p_state, buf, g, tmr, arrived, sent, heard, dropped>>

------------------------------------------------------------------------------
(* ~tnc_impl, once the scheduler has stopped the block thread               *)

Destroy ==
  /\ th["block"].at = "rest"
  /\ tmr' = Stop(tmr)
  /\ Goto("block", "join")
  /\ UNCHANGED <<p_state, buf, g, arrived, sent, replies, heard, dropped>>

Join ==
  /\ th["block"].at = "join"
  /\ th["timer"].at = "rest" /\ tmr.stopped
  /\ Goto("block", "gone")
  /\ UNCHANGED <<p_state, buf, g, tmr, arrived, sent, replies, heard, dropped>>

------------------------------------------------------------------------------
InHandler(t) == th[t].at \notin {"rest", "join", "gone"}
Quiescent == \A t \in Threads : ~InHandler(t)

\* The history of overlapping handlers, kept beside every step.
Watch ==
  overlap' = IF \A t \in Threads : InHandler(t)' THEN "now"
             ELSE IF overlap = "now" /\ Quiescent' THEN "before"
             ELSE overlap

HandlerStep(t) ==
  /\ \/ ReadState(t) \/ Hold(t) \/ Open(t)
     \/ SetWaitMsg(t) \/ StartTimerExpires(t) \/ StartTimerWait(t) \/ AckOk(t)
     \/ SetIdle(t) \/ IdleTimerExpires(t) \/ IdleTimerWait(t)
     \/ CheckBuffer(t) \/ ClearBuffer(t)
     \/ Timeout(t) \/ SatNok(t)
  /\ Watch

Receive == (InputCommand \/ InputRefused \/ RxTrigger \/ RxMessage) /\ Watch

RunTimer == (TimerElapses \/ RunCompletion) /\ Watch

Destruct == (Destroy \/ Join) /\ Watch

Destroyed == th["block"].at = "gone" /\ UNCHANGED vars

Next ==
  \/ \E t \in Threads : HandlerStep(t)
  \/ Receive
  \/ RunTimer
  \/ Destruct \/ Destroyed

Spec == Init /\ [][Next]_vars

\* Both threads keep running, and a deadline that can pass does pass.  What
\* arrives on the ports, and when the block is destroyed, is up to others.
Fairness ==
  /\ \A t \in Threads : WF_vars(HandlerStep(t))
  /\ WF_vars(RunCompletion /\ Watch)
  /\ WF_vars(TimerElapses /\ Watch)
  /\ WF_vars(Join /\ Watch)

FairSpec == Spec /\ Fairness

------------------------------------------------------------------------------
(* Properties                                                               *)

Closing == th["block"].at \in {"join", "gone"}

At(labels) == \E t \in Threads : th[t].at \in labels

\* The block is, or was during this step, busy with two handlers at once.
Together == overlap = "now"
Apart == ~Together /\ ~Together'

InProgress(c) ==
  \E t \in Threads : th[t].msg = c /\ th[t].at \in {"input", "hold", "open"}

\* A command that was transmitted, was displaced from the one-place buffer by
\* a later one, or is still on its way.
Kept(c) ==
  \/ sent[c] > 0
  \/ c \in dropped
  \/ buf.waiting /\ buf.msg = c
  \/ InProgress(c)

\* A command waits in the buffer of an idle block, and no handler is about to
\* look for it or has taken it.
Stranded ==
  /\ p_state = "idle" /\ buf.waiting
  /\ \A t \in Threads : /\ th[t].at \notin {"idle_expires", "idle_wait", "check_buf"}
                         /\ ~th[t].nested

TimeoutPending ==
  \/ tmr.waits # <<>> /\ Head(tmr.waits) = "timeout" /\ tmr.due = "finite"
  \/ Queued(tmr, "timeout", TRUE)

\* A session waits for an answer that has no deadline, and no handler is about
\* to set one or to end the session.
Untimed ==
  /\ p_state = "wait_msg"
  /\ ~TimeoutPending
  /\ ~At({"timeout", "sat_nok", "set_idle", "start_expires", "start_wait"})

BetweenCalls(t) == th[t].at \in {"idle_wait", "trg_wait", "start_wait"}

(* What holds in every interleaving of the two threads.                     *)

\* io_service::run leaves the timer thread without work only when the block
\* thread is between expires_from_now, which cancels the wait in progress, and
\* async_wait, which begins the next one.
RunsOutBetweenCalls ==
  [][~tmr.stopped /\ tmr'.stopped => Closing' \/ BetweenCalls("block")]_vars

\* A handler that runs alone forgets no command (set_idle, handle_msg_input),
\* whatever handlers that overlapped have left behind.
LostOnlyTogether == [][Apart => \A c \in 1..arrived : Kept(c) => Kept(c)']_vars

\* Nor does it leave a command in the buffer of a block that set_idle made idle.
StrandedOnlyTogether == [][Apart /\ Stranded' => Stranded]_vars

\* Nor does it transmit a command a second time: buf.waiting outlives the
\* transmission of the buffered command only inside the handler that clears it.
RepeatedOnlyTogether ==
  [][Apart => \A c \in Cmds : sent'[c] > sent[c] => sent[c] = 0]_vars

\* An open session loses its deadline only to the idle_timer of a trigger or to
\* handlers that overlap.
UntimedByTrigger ==
  [][Apart /\ Untimed' => Untimed \/ th["block"].at = "trg_expires"]_vars

\* Once the destructor returns nothing uses the block any more.
NoCallbackAfterDestroy ==
  th["block"].at = "gone" => th["timer"].at = "rest" /\ ~Dispatchable(tmr)

\* The destructor returns: run() leaves the handler it is in and stops.
DestructorReturns == Closing ~> th["block"].at = "gone"

\* An open session has lost its deadline, to a trigger whose message is still due
\* or to overlapping handlers.
Disarmed == Untimed /\ (heard \/ overlap # "never")

\* A session ends, by an answer or by its timeout, unless it is disarmed, or the
\* timer thread has gone, for good.
SessionEnds ==
  p_state = "wait_msg" ~>
    p_state = "idle" \/ Closing \/ []Disarmed \/ []tmr.stopped

\* Handlers that overlapped have lost the command or left it in the buffer.
Mislaid(c) == overlap # "never" /\ (~Kept(c) \/ Stranded)

\* A command that arrived is transmitted, unless a later one displaces it, it is
\* mislaid, or the session before it does not end.
EveryCommandServed ==
  \A c \in Cmds :
    arrived >= c ~> \/ sent[c] > 0 \/ c \in dropped \/ Closing
                    \/ []Mislaid(c) \/ []Disarmed \/ []tmr.stopped

------------------------------------------------------------------------------
(* What the comments of the code say, and the code does not do: each of these *)
(* is violated.                                                             *)

\* "start timer waiting for answer message": the block at rest in an open
\* session has a deadline for it, even if no handlers ever overlapped.
WaitIsTimed == overlap = "never" /\ Quiescent => ~Untimed

\* The same comment: the thread that is to wait for the timer is still there.
TimerThreadLives == tmr.stopped => Closing

\* The same comment: no session is reported without an answer, by a handler
\* that runs alone, while the timer of that session is still running.
MissInTime == th["timer"].at = "sat_nok" /\ overlap = "never" => ~TimeoutPending

\* "buffer message": every command that arrived is transmitted, displaced or kept.
NothingLost == \A c \in 1..arrived : Kept(c)

\* "check for waiting tx-messages": an idle block at rest has none.
NoStrandedCommand == Quiescent => ~Stranded

\* "handle waiting message from the buffer": once.
SentOnce == \A c \in Cmds : sent[c] <= 1

------------------------------------------------------------------------------
(* Inductive invariants, for the proofs                                     *)

\* handle_msg_input up to the transmission, from there to the TNC_OK, and to
\* its end; and set_idle once it has set the state.
InputSteps == {"input", "hold", "open"}
OpeningSteps == {"set_wait", "start_expires", "start_wait", "ack"}
SentSteps == OpeningSteps \cup {"clear_buf"}
IdleSteps == {"idle_expires", "idle_wait", "check_buf"}

\* Where each thread can be, and what its message is.
ThreadInv ==
  /\ th["block"].at \notin {"timeout", "sat_nok"}
  /\ th["timer"].at \notin {"trg_expires", "trg_wait", "join", "gone"}
  /\ \A t \in Threads :
       /\ th[t].nested => th[t].at \in InputSteps \cup SentSteps
       /\ th[t].at = "clear_buf" => th[t].nested
       /\ th[t].at \in InputSteps \cup SentSteps => th[t].msg \in Cmds
       /\ th[t].at \in OpeningSteps => sent[th[t].msg] > 0
  /\ buf.waiting => buf.msg \in Cmds

\* The timer thread's own steps that begin a wait, or lead to one.
Renewing == {"timeout", "sat_nok", "set_idle", "idle_expires", "start_wait"}

\* Whatever the threads do to the timer between two calls of each other: a wait
\* with a deadline is, or will be, one for handle_timeout, which begins another.
WorkInv ==
  /\ tmr.waits = <<>> =>
       \/ BetweenCalls("block")
       \/ th["timer"].at \in Renewing \cup {"idle_wait"}
       \/ Queued(tmr, "timeout", TRUE)
  /\ tmr.waits # <<>> /\ tmr.due = "finite" =>
       \/ Awaited(tmr, "timeout")
       \/ th["block"].at = "start_wait" \/ th["timer"].at \in Renewing
       \/ Queued(tmr, "timeout", TRUE)
  /\ th["block"].at \in {"idle_wait", "trg_wait"} /\ tmr.expiry = "finite" =>
       \/ Awaited(tmr, "timeout")
       \/ th["timer"].at \in Renewing
       \/ Queued(tmr, "timeout", TRUE)
  /\ th["timer"].at = "idle_wait" /\ tmr.expiry = "finite" =>
       Awaited(tmr, "timeout") \/ th["block"].at = "start_wait"

\* A command that was not held yet is the one that arrived last, and nobody else
\* has it.
Fresh == th["block"].at \in InputSteps /\ ~th["block"].nested

FreshInv ==
  /\ \A t \in Threads : th[t].msg <= arrived
  /\ buf.msg <= arrived
  /\ \A c \in Cmds : c > arrived => sent[c] = 0 /\ c \notin dropped
  /\ th["timer"].at \in InputSteps \cup SentSteps => th["timer"].nested
  /\ Fresh => /\ th["block"].msg = arrived /\ sent[arrived] = 0
              /\ buf.msg # arrived /\ th["timer"].msg # arrived

\* The buffered command was not transmitted yet, or is about to be unmarked.
ResendInv ==
  buf.waiting /\ sent[buf.msg] > 0 => \E t \in Threads : th[t].nested

\* Only one thread is in a handler.
Exclusive == ~InHandler("block") \/ ~InHandler("timer")

\* What a handler that runs alone knows, whatever was left behind before it.
LoneAt(t) ==
  /\ th[t].at = "hold" => p_state = "wait_msg"
  /\ th[t].at = "open" => p_state = "idle"
  /\ th[t].at \in IdleSteps => p_state = "idle"
  /\ th[t].at \in {"start_expires", "start_wait", "ack"} => p_state = "wait_msg"
  /\ th[t].at = "start_wait" => tmr.waits = <<>> /\ tmr.expiry = "finite"
  /\ th[t].nested => /\ buf.waiting /\ th[t].msg = buf.msg
                     /\ th[t].at # "hold"
                     /\ th[t].at = "input" => p_state = "idle"
                     /\ th[t].at \in InputSteps <=> sent[th[t].msg] = 0

LoneInv == ~Together => Exclusive /\ \A t \in Threads : LoneAt(t)

\* What is left behind if handlers never overlapped: no command is lost, or
\* left in the buffer of an idle block.
OrderlyInv == overlap = "never" => ~Stranded /\ NothingLost

==============================================================================
