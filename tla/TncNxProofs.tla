----------------------------- MODULE TncNxProofs -----------------------------
(***************************************************************************)
(* Type correctness and safety of TncNx in all interleavings of its two    *)
(* threads, for any number of telecommands and whatever the satellite      *)
(* sends: what a handler can do wrong by itself, and that the block        *)
(* implements CommandService.                                              *)
(***************************************************************************)
EXTENDS TncNxService, AsioTimerProofs

------------------------------------------------------------------------------
(* Type correctness                                                         *)

\* The timer operations, for the handlers and deadlines of this block.
LEMMA TmrType ==
  ASSUME tmr \in Timers(Handlers)
  PROVE  /\ \A d \in {"never", "finite"} : ExpiresFromNow(tmr, d) \in Timers(Handlers)
         /\ \A h \in {"timeout", "infinite"} :
              /\ AsyncWait(tmr, h) \in Timers(Handlers)
              /\ Returned(AsyncWait(tmr, h)) \in Timers(Handlers)
         /\ Elapse(tmr) \in Timers(Handlers)
         /\ Dispatchable(tmr) => /\ Dispatched(tmr) \in Timers(Handlers)
                                 /\ Returned(Dispatched(tmr)) \in Timers(Handlers)
         /\ Returned(tmr) \in Timers(Handlers)
         /\ Stop(tmr) \in Timers(Handlers)
<1>1. \E d \in Deadlines, h \in Handlers : TRUE
  BY DEF Deadlines, Handlers
<1> QED
  BY <1>1, TimersClosed DEF Deadlines, Handlers

\* A thread goes on to a step, or its handler returns.
LEMMA GotoType ==
  ASSUME th \in [Threads -> Activities], NEW t \in Threads, NEW l \in Labels
  PROVE  /\ [th EXCEPT ![t].at = l] \in [Threads -> Activities]
         /\ \A m \in Ids, n \in BOOLEAN :
              [th EXCEPT ![t] = [at |-> l, msg |-> m, nested |-> n]]
                \in [Threads -> Activities]
  BY DEF Activities

LEMMA RestType ==
  ASSUME th \in [Threads -> Activities], NEW t \in Threads
  PROVE  [th EXCEPT ![t] = Resting] \in [Threads -> Activities]
  BY BoundsAssumption DEF Activities, Resting, Ids, Labels

\* handle_msg_input returns.
LEMMA EndInputType ==
  ASSUME TypeOK, NEW t \in Threads, EndInput(t)
  PROVE  th' \in [Threads -> Activities] /\ tmr' \in Timers(Handlers)
<1>1. th \in [Threads -> Activities] /\ tmr \in Timers(Handlers) /\ "clear_buf" \in Labels
  BY DEF TypeOK, Labels
<1>2. CASE th[t].nested
  BY <1>1, <1>2, GotoType DEF EndInput, Goto
<1>3. CASE ~th[t].nested
  BY <1>1, <1>3, RestType, TmrType DEF EndInput, Leave
<1> QED
  BY <1>2, <1>3

\* A reply is counted.
LEMMA PublishType ==
  ASSUME TypeOK, NEW k \in ReplyKinds, Publish(k)
  PROVE  replies' \in [Ids -> [ReplyKinds -> Nat]]
<1>1. replies[g] \in [ReplyKinds -> Nat] /\ replies[g][k] + 1 \in Nat
  BY DEF TypeOK
<1>2. [replies[g] EXCEPT ![k] = @ + 1] \in [ReplyKinds -> Nat]
  BY <1>1
<1> QED
  BY <1>2 DEF TypeOK, Publish

\* The steps of a handler, of any thread, keep the types.
LEMMA TypeStep ==
  ASSUME TypeOK, NEW t \in Threads, HandlerStep(t)
  PROVE  TypeOK'
<1> USE DEF TypeOK
<1>w. overlap' \in {"never", "now", "before"}
  BY DEF HandlerStep, Watch
<1>1. /\ th[t] \in Activities /\ th[t].msg \in Ids /\ buf.msg \in Ids
      /\ Cmds \subseteq Ids
  BY DEF Activities, Cmds, Ids
<1>2. {"set_idle", "idle_expires", "idle_wait", "check_buf", "clear_buf", "input",
       "hold", "open", "set_wait", "start_expires", "start_wait", "ack",
       "trg_wait", "timeout", "sat_nok"} \subseteq Labels
  BY DEF Labels
<1>3. CASE ReadState(t)
  BY <1>w, <1>2, <1>3, GotoType DEF ReadState, Goto
<1>4. CASE Hold(t)
  <2>1. buf' \in [msg : Ids, waiting : BOOLEAN]
    BY <1>w, <1>1, <1>4 DEF Hold
  <2>2. dropped' \subseteq Ids
    BY <1>w, <1>4 DEF Hold
  <2> QED
    BY <1>w, <1>4, <2>1, <2>2, EndInputType DEF Hold
<1>5. CASE Open(t)
  <2>1. sent' \in [Cmds -> Nat]
    <3>1. CASE th[t].msg \in Cmds
      <4>1. sent[th[t].msg] + 1 \in Nat
        BY <3>1
      <4> QED
        BY <1>w, <1>5, <3>1, <4>1 DEF Open
    <3>2. CASE th[t].msg \notin Cmds
      BY <1>w, <1>5, <3>2 DEF Open
    <3> QED
      BY <3>1, <3>2
  <2> QED
    BY <1>w, <1>1, <1>2, <1>5, <2>1, GotoType DEF Open, Goto
<1>6. CASE SetWaitMsg(t)
  BY <1>w, <1>2, <1>6, GotoType DEF SetWaitMsg, Goto
<1>7. CASE StartTimerExpires(t)
  BY <1>w, <1>2, <1>7, TmrType, GotoType DEF StartTimerExpires, Goto
<1>8. CASE StartTimerWait(t)
  BY <1>w, <1>2, <1>8, TmrType, GotoType DEF StartTimerWait, Goto
<1>9. CASE AckOk(t)
  BY <1>w, <1>9, EndInputType, PublishType DEF AckOk, ReplyKinds
<1>10. CASE SetIdle(t)
  BY <1>w, <1>2, <1>10, GotoType DEF SetIdle, Goto
<1>11. CASE IdleTimerExpires(t)
  BY <1>w, <1>2, <1>11, TmrType, GotoType DEF IdleTimerExpires, Goto
<1>12. CASE IdleTimerWait(t)
  <2>1. CASE th[t].at = "idle_wait"
    BY <1>w, <1>2, <1>12, <2>1, TmrType, GotoType DEF IdleTimerWait, Goto
  <2>2. CASE th[t].at = "trg_wait"
    BY <1>w, <1>12, <2>2, TmrType, RestType DEF IdleTimerWait, Leave
  <2> QED
    BY <1>w, <1>12, <2>1, <2>2 DEF IdleTimerWait
<1>13. CASE CheckBuffer(t)
  <2>1. CASE buf.waiting
    <3>1. /\ th' = [th EXCEPT ![t] = [at |-> "input", msg |-> buf.msg, nested |-> TRUE]]
          /\ UNCHANGED tmr
      BY <1>w, <1>13, <2>1 DEF CheckBuffer
    <3>2. th' \in [Threads -> Activities]
      BY <1>w, <1>1, <1>2, <3>1, GotoType
    <3> QED
      BY <1>w, <1>13, <3>1, <3>2 DEF CheckBuffer
  <2>2. CASE ~buf.waiting
    BY <1>w, <1>13, <2>2, TmrType, RestType DEF CheckBuffer, Leave
  <2> QED
    BY <2>1, <2>2
<1>14. CASE ClearBuffer(t)
  BY <1>w, <1>14, TmrType, RestType DEF ClearBuffer, Leave
<1>15. CASE Timeout(t)
  BY <1>w, <1>2, <1>15, GotoType DEF Timeout, Goto
<1>16. CASE SatNok(t)
  BY <1>w, <1>2, <1>16, GotoType, PublishType DEF SatNok, Goto, ReplyKinds
<1> QED
  BY <1>w, <1>3, <1>4, <1>5, <1>6, <1>7, <1>8, <1>9, <1>10, <1>11, <1>12, <1>13,
     <1>14, <1>15, <1>16 DEF HandlerStep

\* Type correctness, for every step.
LEMMA TypeNext == TypeOK /\ [Next]_vars => TypeOK'
<1> SUFFICES ASSUME TypeOK, [Next]_vars
             PROVE  TypeOK'
  OBVIOUS
<1>1. /\ "block" \in Threads /\ "timer" \in Threads
      /\ {"input", "trg_expires", "set_idle", "timeout", "join", "gone"} \subseteq Labels
      /\ th \in [Threads -> Activities] /\ tmr \in Timers(Handlers)
  BY DEF TypeOK, Threads, Labels
<1>w. Watch \/ overlap' = overlap => overlap' \in {"never", "now", "before"}
  BY DEF Watch, TypeOK
<1>2. CASE \E t \in Threads : HandlerStep(t)
  BY <1>2, TypeStep
<1>3. CASE InputCommand /\ Watch
  <2>1. arrived' \in Ids
    BY <1>w, <1>3, BoundsAssumption DEF InputCommand, TypeOK, Ids
  <2> QED
    BY <1>w, <1>1, <1>3, <2>1, GotoType DEF InputCommand, TypeOK
<1>4. CASE InputRefused /\ Watch
  BY <1>w, <1>4, PublishType DEF InputRefused, TypeOK, ReplyKinds
<1>5. CASE RxTrigger /\ Watch
  BY <1>w, <1>1, <1>5, GotoType DEF RxTrigger, Goto, TypeOK
<1>6. CASE RxMessage /\ Watch
  BY <1>w, <1>1, <1>6, GotoType DEF RxMessage, Goto, TypeOK
<1>7. CASE TimerElapses /\ Watch
  BY <1>w, <1>1, <1>7, TmrType DEF TimerElapses, TypeOK
<1>8. CASE RunCompletion /\ Watch
  <2>1. \/ tmr' = Dispatched(tmr) /\ Goto("timer", "timeout")
        \/ tmr' = Returned(Dispatched(tmr)) /\ th' = th
    BY <1>w, <1>8 DEF RunCompletion
  <2>2. tmr' \in Timers(Handlers)
    BY <1>w, <1>1, <1>8, <2>1, TmrType DEF RunCompletion
  <2>3. th' \in [Threads -> Activities]
    BY <1>1, <2>1, GotoType DEF Goto
  <2> QED
    BY <1>w, <1>8, <2>2, <2>3 DEF RunCompletion, TypeOK
<1>9. CASE Destroy /\ Watch
  BY <1>w, <1>1, <1>9, TmrType, GotoType DEF Destroy, Goto, TypeOK
<1>10. CASE Join /\ Watch
  BY <1>w, <1>1, <1>10, GotoType DEF Join, Goto, TypeOK
<1>11. CASE UNCHANGED vars
  BY <1>11 DEF vars, TypeOK
<1> QED
  BY <1>2, <1>3, <1>4, <1>5, <1>6, <1>7, <1>8, <1>9, <1>10, <1>11
  DEF Next, Receive, RunTimer, Destruct, Destroyed

LEMMA TypeInit == Init => TypeOK
<1> SUFFICES ASSUME Init PROVE TypeOK
  OBVIOUS
<1>1. 0 \in Ids /\ "infinite" \in Handlers /\ "never" \in Deadlines /\ "rest" \in Labels
  BY BoundsAssumption DEF Ids, Handlers, Deadlines, Labels
<1>2. tmr \in Timers(Handlers)
  BY <1>1 DEF Init, NewTimer, Timers
<1>3. Resting \in Activities
  BY <1>1 DEF Resting, Activities
<1>4. th \in [Threads -> Activities]
  BY <1>3 DEF Init
<1>5. replies \in [Ids -> [ReplyKinds -> Nat]] /\ sent \in [Cmds -> Nat]
  BY DEF Init
<1>6. /\ p_state \in {"idle", "wait_msg"}
      /\ buf \in [msg : Ids, waiting : BOOLEAN]
      /\ g \in Ids /\ arrived \in Ids /\ dropped \subseteq Ids
      /\ heard \in BOOLEAN /\ overlap \in {"never", "now", "before"}
  BY <1>1 DEF Init
<1> QED
  BY <1>2, <1>4, <1>5, <1>6 DEF TypeOK

\* Every variable keeps its type, whatever the threads do.
THEOREM TypeCorrect == Spec => []TypeOK
  BY TypeInit, TypeNext, PTL DEF Spec

------------------------------------------------------------------------------
(* What becomes of the threads                                              *)

\* What Goto and Leave do to the activities of the threads.
LEMMA GotoFacts ==
  ASSUME TypeOK, NEW t \in Threads, NEW l, Goto(t, l)
  PROVE  /\ th'[t].at = l /\ th'[t].msg = th[t].msg /\ th'[t].nested = th[t].nested
         /\ \A u \in Threads : u # t => th'[u] = th[u]
  BY DEF TypeOK, Goto, Activities

LEMMA EnterFacts ==
  ASSUME TypeOK, NEW t \in Threads, NEW a, th' = [th EXCEPT ![t] = a]
  PROVE  /\ th'[t] = a
         /\ \A u \in Threads : u # t => th'[u] = th[u]
  BY DEF TypeOK

LEMMA LeaveFacts ==
  ASSUME TypeOK, NEW t \in Threads, NEW tm, Leave(t, tm)
  PROVE  /\ th'[t] = Resting
         /\ \A u \in Threads : u # t => th'[u] = th[u]
         /\ tmr' = IF t = "timer" THEN Returned(tm) ELSE tm
  BY DEF TypeOK, Leave

\* handle_msg_input returns to set_idle or to its thread's loop.
LEMMA EndInputFacts ==
  ASSUME TypeOK, NEW t \in Threads, EndInput(t)
  PROVE  /\ th[t].nested => /\ th'[t].at = "clear_buf" /\ th'[t].msg = th[t].msg
                            /\ th'[t].nested /\ tmr' = tmr
         /\ ~th[t].nested => /\ th'[t] = Resting
                             /\ tmr' = IF t = "timer" THEN Returned(tmr) ELSE tmr
         /\ \A u \in Threads : u # t => th'[u] = th[u]
<1>1. CASE th[t].nested
  <2>1. Goto(t, "clear_buf") /\ tmr' = tmr
    BY <1>1 DEF EndInput
  <2> QED
    BY <1>1, <2>1, GotoFacts
<1>2. CASE ~th[t].nested
  BY <1>2, LeaveFacts DEF EndInput
<1> QED
  BY <1>1, <1>2

\* The timer is stopped for good.
LEMMA StaysStopped ==
  ASSUME tmr \in Timers(Handlers), tmr.stopped
  PROVE  /\ \A d \in {"never", "finite"} : ExpiresFromNow(tmr, d).stopped
         /\ \A h \in {"timeout", "infinite"} :
              AsyncWait(tmr, h).stopped /\ Returned(AsyncWait(tmr, h)).stopped
         /\ Returned(tmr).stopped
<1>1. /\ \A d \in {"never", "finite"} : ExpiresFromNow(tmr, d).stopped
      /\ \A h \in {"timeout", "infinite"} :
           AsyncWait(tmr, h).stopped /\ AsyncWait(tmr, h) \in Timers(Handlers)
  BY ExpiresFacts, AsyncWaitFacts, TmrType DEF Deadlines, Handlers
<1> QED
  BY <1>1, ReturnedFacts

Inside == Labels \ {"rest", "join", "gone"}

\* Where a step of a handler starts and where it can lead.
LEMMA StepFacts ==
  ASSUME TypeOK, NEW t \in Threads, HandlerStep(t)
  PROVE  /\ th[t].at \in Inside
         /\ th'[t].at \notin {"join", "gone", "timeout", "trg_expires"}
         /\ th'[t].at = "sat_nok" => th[t].at = "timeout"
         /\ th'[t].at = "trg_wait" => th[t].at = "trg_expires"
         /\ \A u \in Threads : u # t => th'[u] = th[u]
         /\ tmr.stopped => tmr'.stopped
<1> USE DEF Inside, Labels
<1>0. tmr \in Timers(Handlers)
  BY DEF TypeOK
<1>1. CASE ReadState(t)
  BY <1>1, GotoFacts DEF ReadState
<1>2. CASE Hold(t)
  BY <1>0, <1>2, EndInputFacts, StaysStopped DEF Hold, Resting
<1>3. CASE Open(t)
  BY <1>3, GotoFacts DEF Open
<1>4. CASE SetWaitMsg(t)
  BY <1>4, GotoFacts DEF SetWaitMsg
<1>5. CASE StartTimerExpires(t)
  BY <1>0, <1>5, GotoFacts, StaysStopped DEF StartTimerExpires
<1>6. CASE StartTimerWait(t)
  BY <1>0, <1>6, GotoFacts, StaysStopped DEF StartTimerWait
<1>7. CASE AckOk(t)
  BY <1>0, <1>7, EndInputFacts, StaysStopped DEF AckOk, Resting
<1>8. CASE SetIdle(t)
  BY <1>8, GotoFacts DEF SetIdle
<1>9. CASE IdleTimerExpires(t)
  BY <1>0, <1>9, GotoFacts, StaysStopped DEF IdleTimerExpires
<1>10. CASE IdleTimerWait(t)
  <2>1. CASE th[t].at = "idle_wait"
    BY <1>0, <1>10, <2>1, GotoFacts, StaysStopped DEF IdleTimerWait
  <2>2. CASE th[t].at = "trg_wait"
    BY <1>0, <1>10, <2>2, LeaveFacts, StaysStopped DEF IdleTimerWait, Resting
  <2> QED
    BY <1>10, <2>1, <2>2 DEF IdleTimerWait
<1>11. CASE CheckBuffer(t)
  <2>1. CASE buf.waiting
    <3>1. th' = [th EXCEPT ![t] = [at |-> "input", msg |-> buf.msg, nested |-> TRUE]]
      BY <1>11, <2>1 DEF CheckBuffer
    <3> QED
      BY <1>11, <2>1, <3>1, EnterFacts DEF CheckBuffer
  <2>2. CASE ~buf.waiting
    BY <1>0, <1>11, <2>2, LeaveFacts, StaysStopped DEF CheckBuffer, Resting
  <2> QED
    BY <2>1, <2>2
<1>12. CASE ClearBuffer(t)
  BY <1>0, <1>12, LeaveFacts, StaysStopped DEF ClearBuffer, Resting
<1>13. CASE Timeout(t)
  BY <1>13, GotoFacts DEF Timeout
<1>14. CASE SatNok(t)
  BY <1>14, GotoFacts DEF SatNok
<1> QED
  BY <1>1, <1>2, <1>3, <1>4, <1>5, <1>6, <1>7, <1>8, <1>9, <1>10, <1>11,
     <1>12, <1>13, <1>14 DEF HandlerStep

------------------------------------------------------------------------------
(* The destructor                                                           *)

DestroyInv ==
  /\ Closing => tmr.stopped
  /\ th["block"].at = "gone" => th["timer"].at = "rest"

LEMMA DestroyNext == TypeOK /\ DestroyInv /\ [Next]_vars => DestroyInv'
<1> SUFFICES ASSUME TypeOK, DestroyInv, [Next]_vars
             PROVE  DestroyInv'
  OBVIOUS
<1> USE DEF DestroyInv, Closing
<1>0. "block" \in Threads /\ "timer" \in Threads /\ tmr \in Timers(Handlers)
  BY DEF Threads, TypeOK
<1>1. ASSUME NEW t \in Threads, HandlerStep(t)
      PROVE  DestroyInv'
  <2>1. CASE t = "block"
    BY <1>0, <1>1, <2>1, StepFacts DEF Inside
  <2>2. CASE t = "timer"
    BY <1>0, <1>1, <2>2, StepFacts DEF Inside
  <2> QED
    BY <2>1, <2>2 DEF Threads
<1>2. CASE InputCommand
  BY <1>0, <1>2, EnterFacts DEF InputCommand, TakesMessage
<1>3. CASE InputRefused
  BY <1>3 DEF InputRefused
<1>4. CASE RxTrigger
  BY <1>0, <1>4, GotoFacts DEF RxTrigger
<1>5. CASE RxMessage
  BY <1>0, <1>5, GotoFacts DEF RxMessage
<1>6. CASE TimerElapses
  BY <1>6 DEF TimerElapses, Elapsable
<1>7. CASE RunCompletion
  <2>1. ~tmr.stopped
    BY <1>7 DEF RunCompletion, Dispatchable
  <2>2. ~Closing'
    <3>1. th' = th \/ Goto("timer", "timeout")
      BY <1>7 DEF RunCompletion
    <3> QED
      BY <1>0, <2>1, <3>1, GotoFacts
  <2> QED
    BY <2>2
<1>8. CASE Destroy
  <2>1. tmr'.stopped
    BY <1>0, <1>8 DEF Destroy, Stop, Timers
  <2> QED
    BY <1>0, <1>8, <2>1, GotoFacts DEF Destroy
<1>9. CASE Join
  BY <1>0, <1>9, GotoFacts DEF Join
<1>10. CASE UNCHANGED vars
  BY <1>10 DEF vars
<1> QED
  BY <1>1, <1>2, <1>3, <1>4, <1>5, <1>6, <1>7, <1>8, <1>9, <1>10
  DEF Next, Receive, RunTimer, Destruct, Destroyed

\* The destructor of tnc_impl stops run() and waits for its thread, so that
\* no handler runs, or is still to run, once the block is gone.
THEOREM QuietAfterDestroy == Spec => []NoCallbackAfterDestroy
<1>1. Init => DestroyInv
  BY DEF Init, DestroyInv, Closing, Resting, Threads
<1>2. TypeOK /\ DestroyInv => NoCallbackAfterDestroy
  BY DEF DestroyInv, Closing, NoCallbackAfterDestroy, Dispatchable
<1> QED
  BY <1>1, <1>2, TypeCorrect, DestroyNext, PTL DEF Spec

------------------------------------------------------------------------------
(* Where the threads are                                                    *)

\* What ThreadInv says of a thread t whose activity is a.
ThreadAt(t, a, s) ==
  /\ t = "block" => a.at \notin {"timeout", "sat_nok"}
  /\ t = "timer" => a.at \notin {"trg_expires", "trg_wait", "join", "gone"}
  /\ a.nested => a.at \in InputSteps \cup SentSteps
  /\ a.at = "clear_buf" => a.nested
  /\ a.at \in InputSteps \cup SentSteps => a.msg \in Cmds
  /\ a.at \in OpeningSteps => s[a.msg] > 0

LEMMA ThreadOf ==
  ThreadInv <=> /\ \A t \in Threads : ThreadAt(t, th[t], sent)
                /\ buf.waiting => buf.msg \in Cmds
  BY DEF ThreadInv, ThreadAt, Threads

\* No transmission is forgotten.
LEMMA SentGrows ==
  ASSUME TypeOK, NEW t \in Threads, HandlerStep(t), NEW c \in Cmds
  PROVE  /\ sent[c] \in Nat /\ sent'[c] \in Nat /\ sent[c] <= sent'[c]
         /\ th[t].at = "open" /\ th[t].msg = c => sent'[c] = sent[c] + 1
         /\ sent'[c] # sent[c] => Open(t) /\ th[t].msg = c
<1>0. sent \in [Cmds -> Nat]
  BY DEF TypeOK
<1>1. CASE Open(t)
  BY <1>0, <1>1 DEF Open
<1>2. CASE ~Open(t)
  <2>1. sent' = sent /\ th[t].at # "open"
    BY <1>2 DEF HandlerStep, ReadState, Hold, SetWaitMsg, StartTimerExpires, StartTimerWait,
                AckOk, SetIdle, IdleTimerExpires, IdleTimerWait, CheckBuffer, ClearBuffer,
                Timeout, SatNok
  <2> QED
    BY <1>0, <1>2, <2>1
<1> QED
  BY <1>1, <1>2

LEMMA ThreadStep ==
  ASSUME TypeOK, ThreadInv, NEW t \in Threads, HandlerStep(t)
  PROVE  ThreadInv'
<1> USE DEF ThreadAt, InputSteps, OpeningSteps, SentSteps
<1>0. /\ buf \in [msg : Ids, waiting : BOOLEAN]
      /\ \A c \in Cmds : sent[c] > 0 => sent'[c] > 0
  BY SentGrows DEF TypeOK
<1>a. \A u \in Threads : u # t => th'[u] = th[u]
  BY StepFacts
<1>b. ThreadAt(t, th[t], sent) /\ (buf.waiting => buf.msg \in Cmds)
  BY ThreadOf
<1> SUFFICES ThreadAt(t, th'[t], sent') /\ (buf'.waiting => buf'.msg \in Cmds)
  <2>1. ASSUME ThreadAt(t, th'[t], sent'), buf'.waiting => buf'.msg \in Cmds
        PROVE  ThreadInv'
    <3>1. \A u \in Threads : u # t => ThreadAt(u, th'[u], sent')
      BY <1>0, <1>a, ThreadOf
    <3> QED
      BY <2>1, <3>1 DEF ThreadInv, Threads
  <2> QED
    BY <2>1
<1>e. ASSUME th'[t] = Resting PROVE ThreadAt(t, th'[t], sent')
  BY <1>e DEF Resting
<1>1. CASE ReadState(t)
  BY <1>1, <1>b, GotoFacts DEF ReadState
<1>2. CASE Hold(t)
  <2>1. buf'.msg \in Cmds
    BY <1>0, <1>2, <1>b DEF Hold
  <2>2. CASE th[t].nested
    BY <1>2, <1>b, <2>1, <2>2, EndInputFacts DEF Hold
  <2>3. CASE ~th[t].nested
    BY <1>2, <1>e, <2>1, <2>3, EndInputFacts DEF Hold
  <2> QED
    BY <2>2, <2>3
<1>3. CASE Open(t)
  <2>1. th[t].msg \in Cmds /\ th[t].at = "open"
    BY <1>3, <1>b DEF Open
  <2>2. sent'[th[t].msg] > 0
    BY <2>1, SentGrows
  <2> QED
    BY <1>3, <1>b, <2>1, <2>2, GotoFacts DEF Open
<1>4. CASE SetWaitMsg(t)
  BY <1>4, <1>b, GotoFacts DEF SetWaitMsg
<1>5. CASE StartTimerExpires(t)
  BY <1>5, <1>b, GotoFacts DEF StartTimerExpires
<1>6. CASE StartTimerWait(t)
  BY <1>6, <1>b, GotoFacts DEF StartTimerWait
<1>7. CASE AckOk(t)
  <2>1. CASE th[t].nested
    BY <1>7, <1>b, <2>1, EndInputFacts DEF AckOk
  <2>2. CASE ~th[t].nested
    BY <1>7, <1>b, <1>e, <2>2, EndInputFacts DEF AckOk
  <2> QED
    BY <2>1, <2>2
<1>8. CASE SetIdle(t)
  BY <1>8, <1>b, GotoFacts DEF SetIdle
<1>9. CASE IdleTimerExpires(t)
  BY <1>9, <1>b, GotoFacts DEF IdleTimerExpires
<1>10. CASE IdleTimerWait(t)
  <2>1. CASE th[t].at = "idle_wait"
    BY <1>10, <1>b, <2>1, GotoFacts DEF IdleTimerWait
  <2>2. CASE th[t].at = "trg_wait"
    BY <1>10, <1>b, <1>e, <2>2, LeaveFacts DEF IdleTimerWait
  <2> QED
    BY <1>10, <2>1, <2>2 DEF IdleTimerWait
<1>11. CASE CheckBuffer(t)
  <2>1. CASE buf.waiting
    <3>1. th'[t] = [at |-> "input", msg |-> buf.msg, nested |-> TRUE]
      BY <1>11, <2>1, EnterFacts DEF CheckBuffer
    <3> QED
      BY <1>11, <1>b, <2>1, <3>1 DEF CheckBuffer
  <2>2. CASE ~buf.waiting
    BY <1>11, <1>b, <1>e, <2>2, LeaveFacts DEF CheckBuffer
  <2> QED
    BY <2>1, <2>2
<1>12. CASE ClearBuffer(t)
  BY <1>0, <1>12, <1>e, LeaveFacts DEF ClearBuffer
<1>13. CASE Timeout(t)
  BY <1>13, <1>b, GotoFacts DEF Timeout
<1>14. CASE SatNok(t)
  BY <1>14, <1>b, GotoFacts DEF SatNok
<1> QED
  BY <1>1, <1>2, <1>3, <1>4, <1>5, <1>6, <1>7, <1>8, <1>9, <1>10, <1>11,
     <1>12, <1>13, <1>14 DEF HandlerStep

LEMMA ThreadNext == TypeOK /\ ThreadInv /\ [Next]_vars => ThreadInv'
<1> SUFFICES ASSUME TypeOK, ThreadInv, [Next]_vars
             PROVE  ThreadInv'
  OBVIOUS
<1> USE DEF ThreadInv, InputSteps, OpeningSteps, SentSteps
<1>0. "block" \in Threads /\ "timer" \in Threads
  BY DEF Threads
<1>1. ASSUME NEW t \in Threads, HandlerStep(t)
      PROVE  ThreadInv'
  BY <1>1, ThreadStep
<1>2. CASE InputCommand
  <2>1. th'["block"] = [at |-> "input", msg |-> arrived + 1, nested |-> FALSE]
    BY <1>0, <1>2, EnterFacts DEF InputCommand
  <2>2. arrived + 1 \in Cmds
    BY <1>2, BoundsAssumption DEF InputCommand, TypeOK, Ids, Cmds
  <2>3. th'["timer"] = th["timer"] /\ UNCHANGED <<buf, sent>>
    BY <1>0, <1>2, EnterFacts DEF InputCommand
  <2> QED
    BY <2>1, <2>2, <2>3 DEF Threads
<1>3. CASE InputRefused
  BY <1>3 DEF InputRefused
\* The other steps only take a thread at rest, or the destructor, on.
<1>b. ASSUME NEW t \in Threads, NEW l, Goto(t, l), UNCHANGED <<buf, sent>>,
             th[t].at \in {"rest", "join"},
             \/ t = "block" /\ l \in {"trg_expires", "set_idle", "join", "gone"}
             \/ t = "timer" /\ l = "timeout"
      PROVE  ThreadInv'
  <2>1. /\ th'[t].at = l /\ th'[t].nested = th[t].nested
        /\ \A u \in Threads : u # t => th'[u] = th[u]
    BY <1>b, GotoFacts
  <2> QED
    BY <1>b, <2>1 DEF Threads
<1>4. CASE RxTrigger
  BY <1>0, <1>4, <1>b DEF RxTrigger, TakesMessage
<1>5. CASE RxMessage
  BY <1>0, <1>5, <1>b DEF RxMessage, TakesMessage
<1>6. CASE TimerElapses
  BY <1>6 DEF TimerElapses
<1>7. CASE RunCompletion
  <2>1. th' = th \/ Goto("timer", "timeout")
    BY <1>7 DEF RunCompletion
  <2> QED
    BY <1>0, <1>7, <1>b, <2>1 DEF RunCompletion
<1>8. CASE Destroy
  BY <1>0, <1>8, <1>b DEF Destroy
<1>9. CASE Join
  BY <1>0, <1>9, <1>b DEF Join
<1>10. CASE UNCHANGED vars
  BY <1>10 DEF vars
<1> QED
  BY <1>1, <1>2, <1>3, <1>4, <1>5, <1>6, <1>7, <1>8, <1>9, <1>10
  DEF Next, Receive, RunTimer, Destruct, Destroyed

LEMMA ThreadsCorrect == Spec => [](TypeOK /\ ThreadInv)
<1>1. Init => ThreadInv
  BY DEF Init, ThreadInv, Resting, Threads, InputSteps, SentSteps, OpeningSteps
<1> QED
  BY <1>1, TypeCorrect, ThreadNext, PTL DEF Spec

------------------------------------------------------------------------------
(* When io_service::run runs out of work                                    *)

Between == {"idle_wait", "trg_wait", "start_wait"}

\* WorkInv for the threads being about to take the steps b and r.
WorkAt(b, r, tm) ==
  /\ tm.waits = <<>> =>
       \/ b \in Between
       \/ r \in Renewing \cup {"idle_wait"}
       \/ Queued(tm, "timeout", TRUE)
  /\ tm.waits # <<>> /\ tm.due = "finite" =>
       \/ Awaited(tm, "timeout")
       \/ b = "start_wait" \/ r \in Renewing
       \/ Queued(tm, "timeout", TRUE)
  /\ b \in {"idle_wait", "trg_wait"} /\ tm.expiry = "finite" =>
       \/ Awaited(tm, "timeout")
       \/ r \in Renewing
       \/ Queued(tm, "timeout", TRUE)
  /\ r = "idle_wait" /\ tm.expiry = "finite" => Awaited(tm, "timeout") \/ b = "start_wait"

LEMMA WorkOf == WorkInv <=> WorkAt(th["block"].at, th["timer"].at, tmr)
  BY DEF WorkInv, WorkAt, BetweenCalls, Between

\* A handler that returns, or a completion that is not handled, leaves work.
LEMMA WorkReturned ==
  ASSUME NEW tm \in Timers(Handlers), NEW b, NEW r, WorkAt(b, r, tm),
         r \notin Renewing \cup {"idle_wait"}
  PROVE  /\ WorkAt(b, "rest", Returned(tm))
         /\ Returned(tm).stopped => tm.stopped \/ b \in Between
<1>1. /\ Returned(tm).waits = tm.waits /\ Returned(tm).due = tm.due
      /\ Returned(tm).expiry = tm.expiry /\ Returned(tm).ready = tm.ready
      /\ Returned(tm).stopped <=> tm.stopped \/ (tm.waits = <<>> /\ tm.ready = <<>>)
  BY ReturnedFacts
<1>2. Queued(tm, "timeout", TRUE) => tm.ready # <<>>
  BY QueuedNonempty
<1> QED
  BY <1>1, <1>2 DEF WorkAt, Queued, Awaited, Renewing

\* What a handler step of either thread does to the timer.
LEMMA WorkStep ==
  ASSUME TypeOK, ThreadInv, WorkInv, NEW t \in Threads, HandlerStep(t)
  PROVE  /\ WorkInv'
         /\ ~tmr.stopped /\ tmr'.stopped => BetweenCalls("block")
<1> DEFINE b == th["block"].at
           r == th["timer"].at
<1>0. /\ tmr \in Timers(Handlers) /\ "timeout" \in Handlers /\ "infinite" \in Handlers
      /\ "never" \in Deadlines /\ "finite" \in Deadlines
  BY DEF TypeOK, Handlers, Deadlines
<1>a. \A u \in Threads : u # t => th'[u] = th[u]
  BY StepFacts
<1>b. /\ WorkAt(b, r, tmr)
      /\ b \notin {"timeout", "sat_nok"} /\ r \notin {"trg_expires", "trg_wait", "join", "gone"}
  BY WorkOf DEF ThreadInv
<1>g. WorkInv' <=> WorkAt(b', r', tmr')
  BY DEF WorkInv, WorkAt, BetweenCalls, Between
<1>t. /\ "block" \in Threads /\ "timer" \in Threads
      /\ t = "block" \/ t = "timer"
  BY DEF Threads
<1> SUFFICES /\ WorkAt(b', r', tmr')
             /\ tmr'.stopped => tmr.stopped \/ b \in Between
  BY <1>g DEF BetweenCalls, Between
\* A step that does not touch the timer.
<1>d. ASSUME tmr' = tmr, th'[t].at \notin Between,
             th[t].at \notin Between,
             th[t].at \in Renewing => th'[t].at \in Renewing
      PROVE  /\ WorkAt(b', r', tmr')
             /\ tmr'.stopped => tmr.stopped \/ b \in Between
  BY <1>a, <1>b, <1>d, <1>t DEF WorkAt, Between, Renewing
\* The handler returns.
<1>e. ASSUME th'[t] = Resting, tmr' = IF t = "timer" THEN Returned(tmr) ELSE tmr,
             th[t].at \notin Renewing \cup Between
      PROVE  /\ WorkAt(b', r', tmr')
             /\ tmr'.stopped => tmr.stopped \/ b \in Between
  <2>1. CASE t = "timer"
    <3>1. b' = b /\ r' = "rest" /\ tmr' = Returned(tmr) /\ r \notin Renewing \cup {"idle_wait"}
      BY <1>a, <1>e, <1>t, <2>1 DEF Resting, Between
    <3> QED
      BY <1>0, <1>b, <3>1, WorkReturned
  <2>2. CASE t = "block"
    <3>1. b' = "rest" /\ r' = r /\ tmr' = tmr /\ b \notin Between
      BY <1>a, <1>e, <1>t, <2>2 DEF Resting, Between
    <3> QED
      BY <1>b, <3>1 DEF WorkAt, Between
  <2> QED
    BY <1>t, <2>1, <2>2
\* The two halves of start_timer and idle_timer.
<1>f. ASSUME NEW d \in {"never", "finite"}, tmr' = ExpiresFromNow(tmr, d)
      PROVE  /\ tmr'.waits = <<>> /\ tmr'.expiry = d /\ tmr'.stopped = tmr.stopped
             /\ Queued(tmr, "timeout", TRUE) => Queued(tmr', "timeout", TRUE)
  BY <1>0, <1>f, ExpiresFacts DEF Deadlines, Handlers
<1>h. ASSUME NEW h \in {"timeout", "infinite"}, tmr' = AsyncWait(tmr, h)
      PROVE  /\ tmr'.waits # <<>> /\ tmr'.expiry = tmr.expiry /\ tmr'.stopped = tmr.stopped
             /\ tmr'.due = IF tmr.waits = <<>> THEN tmr.expiry ELSE tmr.due
             /\ Awaited(tmr', h)
             /\ Awaited(tmr, "timeout") => Awaited(tmr', "timeout")
             /\ Queued(tmr, "timeout", TRUE) => Queued(tmr', "timeout", TRUE)
  <2>1. tmr'.ready = tmr.ready /\ tmr'.waits # <<>> /\ tmr'.stopped = tmr.stopped
    BY <1>0, <1>h, AsyncWaitFacts
  <2>2. tmr.waits = <<>> => tmr'.due = tmr.expiry
    BY <1>0, <1>h, AsyncWaitFacts
  <2>3. /\ tmr'.expiry = tmr.expiry /\ Awaited(tmr', h)
        /\ tmr.waits # <<>> => tmr'.due = tmr.due
        /\ Awaited(tmr, "timeout") => Awaited(tmr', "timeout")
    <3>1. h \in Handlers /\ "timeout" \in Handlers
      BY <1>h DEF Handlers
    <3>2. /\ tmr'.expiry = tmr.expiry /\ Awaited(tmr', h)
          /\ tmr.waits # <<>> => tmr'.due = tmr.due
          /\ \A k \in Handlers : Awaited(tmr, k) => Awaited(tmr', k)
      BY <1>0, <1>h, <3>1, AwaitedFacts
    <3> QED
      BY <3>1, <3>2
  <2> QED
    BY <2>1, <2>2, <2>3 DEF Queued
<1>z. Awaited(tmr, "timeout") => tmr.waits # <<>>
  BY <1>0, AwaitedFacts
<1>1. CASE ReadState(t)
  BY <1>1, <1>d, GotoFacts DEF ReadState, Between, Renewing
<1>2. CASE Hold(t)
  <2>1. CASE th[t].nested
    BY <1>2, <1>d, <2>1, EndInputFacts DEF Hold, Between, Renewing
  <2>2. CASE ~th[t].nested
    BY <1>2, <1>e, <2>2, EndInputFacts DEF Hold, Between, Renewing
  <2> QED
    BY <2>1, <2>2
<1>3. CASE Open(t)
  BY <1>3, <1>d, GotoFacts DEF Open, Between, Renewing
<1>4. CASE SetWaitMsg(t)
  BY <1>4, <1>d, GotoFacts DEF SetWaitMsg, Between, Renewing
<1>5. CASE StartTimerExpires(t)
  <2>1. /\ th'[t].at = "start_wait" /\ th[t].at = "start_expires"
        /\ tmr' = ExpiresFromNow(tmr, "finite")
    BY <1>5, GotoFacts DEF StartTimerExpires
  <2>2. /\ tmr'.waits = <<>> /\ tmr'.expiry = "finite" /\ tmr'.stopped = tmr.stopped
        /\ Queued(tmr, "timeout", TRUE) => Queued(tmr', "timeout", TRUE)
    BY <1>f, <2>1
  <2> QED
    BY <1>a, <1>b, <1>t, <2>1, <2>2 DEF WorkAt, Between, Renewing
<1>6. CASE StartTimerWait(t)
  <2>1. th[t].at = "start_wait" /\ th'[t].at = "ack" /\ tmr' = AsyncWait(tmr, "timeout")
    BY <1>6, GotoFacts DEF StartTimerWait
  <2>2. tmr'.waits # <<>> /\ Awaited(tmr', "timeout") /\ tmr'.stopped = tmr.stopped
    BY <1>h, <2>1
  <2> QED
    BY <2>1, <2>2 DEF WorkAt
<1>7. CASE AckOk(t)
  <2>1. CASE th[t].nested
    BY <1>7, <1>d, <2>1, EndInputFacts DEF AckOk, Between, Renewing
  <2>2. CASE ~th[t].nested
    BY <1>7, <1>e, <2>2, EndInputFacts DEF AckOk, Between, Renewing
  <2> QED
    BY <2>1, <2>2
<1>8. CASE SetIdle(t)
  BY <1>8, <1>d, GotoFacts DEF SetIdle, Between, Renewing
<1>9. CASE IdleTimerExpires(t)
  <2>1. /\ th'[t].at \in {"idle_wait", "trg_wait"} /\ th[t].at \in {"idle_expires", "trg_expires"}
        /\ th'[t].at = "trg_wait" => th[t].at = "trg_expires"
        /\ tmr' = ExpiresFromNow(tmr, "never")
    BY <1>9, GotoFacts DEF IdleTimerExpires
  <2>2. /\ tmr'.waits = <<>> /\ tmr'.expiry = "never" /\ tmr'.stopped = tmr.stopped
    BY <1>f, <2>1
  <2> QED
    BY <1>a, <1>b, <1>t, <2>1, <2>2 DEF WorkAt, Between, Renewing
<1>10. CASE IdleTimerWait(t)
  <2>1. /\ th[t].at \in {"idle_wait", "trg_wait"} /\ th'[t].at \in {"check_buf", "rest"}
        /\ tmr' = AsyncWait(tmr, "infinite")
    <3>1. CASE th[t].at = "idle_wait"
      BY <1>10, <3>1, GotoFacts DEF IdleTimerWait
    <3>2. CASE th[t].at = "trg_wait"
      BY <1>10, <1>b, <1>t, <3>2, LeaveFacts DEF IdleTimerWait, Resting
    <3> QED
      BY <1>10, <3>1, <3>2 DEF IdleTimerWait
  <2>2. /\ tmr'.waits # <<>> /\ tmr'.expiry = tmr.expiry /\ tmr'.stopped = tmr.stopped
        /\ tmr'.due = IF tmr.waits = <<>> THEN tmr.expiry ELSE tmr.due
        /\ Awaited(tmr, "timeout") => Awaited(tmr', "timeout")
        /\ Queued(tmr, "timeout", TRUE) => Queued(tmr', "timeout", TRUE)
    BY <1>h, <2>1
  <2>3. CASE t = "block"
    <3>1. r' = r /\ b' \in {"check_buf", "rest"} /\ b \in {"idle_wait", "trg_wait"}
      BY <1>a, <1>t, <2>1, <2>3
    <3> QED
      BY <1>b, <1>z, <2>2, <3>1 DEF WorkAt, Between, Renewing
  <2>4. CASE t = "timer"
    <3>1. b' = b /\ r' \in {"check_buf", "rest"} /\ r = "idle_wait"
      BY <1>a, <1>b, <1>t, <2>1, <2>4
    <3> QED
      BY <1>b, <1>z, <2>2, <3>1 DEF WorkAt, Between, Renewing
  <2> QED
    BY <1>t, <2>3, <2>4
<1>11. CASE CheckBuffer(t)
  <2>1. CASE buf.waiting
    <3>1. /\ th' = [th EXCEPT ![t] = [at |-> "input", msg |-> buf.msg, nested |-> TRUE]]
          /\ tmr' = tmr /\ th[t].at = "check_buf"
      BY <1>11, <2>1 DEF CheckBuffer
    <3>2. th'[t] = [at |-> "input", msg |-> buf.msg, nested |-> TRUE]
      BY <3>1, EnterFacts
    <3>3. th'[t].at = "input"
      BY <3>2
    <3> QED
      BY <1>d, <3>1, <3>3 DEF Between, Renewing
  <2>2. CASE ~buf.waiting
    BY <1>11, <1>e, <2>2, LeaveFacts DEF CheckBuffer, Between, Renewing
  <2> QED
    BY <2>1, <2>2
<1>12. CASE ClearBuffer(t)
  BY <1>12, <1>e, LeaveFacts DEF ClearBuffer, Between, Renewing
<1>13. CASE Timeout(t)
  BY <1>13, <1>d, GotoFacts DEF Timeout, Between, Renewing
<1>14. CASE SatNok(t)
  BY <1>14, <1>d, GotoFacts DEF SatNok, Between, Renewing
<1> QED
  BY <1>1, <1>2, <1>3, <1>4, <1>5, <1>6, <1>7, <1>8, <1>9, <1>10, <1>11,
     <1>12, <1>13, <1>14 DEF HandlerStep

LEMMA WorkNext ==
  ASSUME TypeOK, ThreadInv, WorkInv, [Next]_vars
  PROVE  /\ WorkInv'
         /\ ~tmr.stopped /\ tmr'.stopped => Closing' \/ BetweenCalls("block")
<1>0. /\ "block" \in Threads /\ "timer" \in Threads /\ tmr \in Timers(Handlers)
      /\ "timeout" \in Handlers
  BY DEF Threads, TypeOK, Handlers
<1>b. WorkAt(th["block"].at, th["timer"].at, tmr)
  BY WorkOf
<1>g. WorkInv' <=> WorkAt(th'["block"].at, th'["timer"].at, tmr')
  BY DEF WorkInv, WorkAt, BetweenCalls, Between
\* A step outside the handlers that leaves the timer alone.
<1>d. ASSUME tmr' = tmr, th'["timer"] = th["timer"],
             th["block"].at \notin Between \/ th'["block"].at = th["block"].at,
             th'["block"].at \in Between => th'["block"].at = th["block"].at
      PROVE  /\ WorkInv'
             /\ ~tmr.stopped /\ tmr'.stopped => Closing' \/ BetweenCalls("block")
  BY <1>b, <1>d, <1>g DEF WorkAt, Between
<1>1. CASE \E t \in Threads : HandlerStep(t)
  BY <1>1, WorkStep
<1>2. CASE InputCommand
  <2>1. /\ th'["block"] = [at |-> "input", msg |-> arrived + 1, nested |-> FALSE]
        /\ th'["timer"] = th["timer"]
    BY <1>0, <1>2, EnterFacts DEF InputCommand
  <2>2. th'["block"].at = "input" /\ th["block"].at = "rest" /\ tmr' = tmr
    BY <1>2, <2>1 DEF InputCommand, TakesMessage
  <2> QED
    BY <1>d, <2>1, <2>2 DEF Between
<1>3. CASE InputRefused
  BY <1>3, <1>d DEF InputRefused
<1>4. CASE RxTrigger
  BY <1>0, <1>4, <1>d, GotoFacts DEF RxTrigger, TakesMessage, Between
<1>5. CASE RxMessage
  BY <1>0, <1>5, <1>d, GotoFacts DEF RxMessage, TakesMessage, Between
\* Among the waits that elapse is one for handle_timeout.
<1>6. CASE TimerElapses
  <2>1. /\ tmr.waits # <<>> /\ tmr.due = "finite" /\ tmr' = Elapse(tmr) /\ th' = th
        /\ th["timer"].at = "rest"
    BY <1>6 DEF TimerElapses, Elapsable
  <2>2. /\ tmr'.waits = <<>> /\ tmr'.expiry = tmr.expiry /\ tmr'.stopped = tmr.stopped
        /\ Queued(tmr, "timeout", TRUE) => Queued(tmr', "timeout", TRUE)
    BY <1>0, <2>1, ElapseFacts
  <2>3. Awaited(tmr, "timeout") => Queued(tmr', "timeout", TRUE)
    BY <1>0, <2>1, AwaitedFacts
  <2> QED
    BY <1>b, <1>g, <2>1, <2>2, <2>3 DEF WorkAt, Between, Renewing
<1>7. CASE RunCompletion
  <2> DEFINE c == Head(tmr.ready)
             d == Dispatched(tmr)
  <2>2. Dispatchable(tmr) /\ ~tmr.stopped /\ th["timer"].at = "rest"
    BY <1>7 DEF RunCompletion, Dispatchable
  <2>3. /\ d \in Timers(Handlers) /\ d.expiry = tmr.expiry
        /\ d.waits = tmr.waits /\ d.due = tmr.due /\ d.stopped = tmr.stopped
        /\ Queued(tmr, "timeout", TRUE) =>
             Queued(d, "timeout", TRUE) \/ c = [handler |-> "timeout", ok |-> TRUE]
    BY <1>0, <2>2, DispatchedFacts, TimersClosed DEF Deadlines
  <2>a. Awaited(d, "timeout") <=> Awaited(tmr, "timeout")
    BY <2>3 DEF Awaited
  <2>4. CASE c.handler = "timeout" /\ c.ok
    <3>1. tmr' = d /\ Goto("timer", "timeout")
      BY <1>7, <2>4 DEF RunCompletion
    <3>2. th'["timer"].at = "timeout" /\ th'["block"] = th["block"]
      BY <1>0, <3>1, GotoFacts
    <3> HIDE DEF c, d
    <3> QED
      BY <1>b, <1>g, <2>2, <2>3, <2>a, <3>1, <3>2 DEF WorkAt, Renewing
  <2>5. CASE ~(c.handler = "timeout" /\ c.ok)
    <3>1. tmr' = Returned(d) /\ th' = th
      BY <1>7, <2>5 DEF RunCompletion
    <3>2. c # [handler |-> "timeout", ok |-> TRUE]
      BY <2>5
    <3>3. WorkAt(th["block"].at, "rest", d)
      <4> HIDE DEF c, d
      <4> QED
        BY <1>b, <2>2, <2>3, <2>a, <3>2 DEF WorkAt
    <3>4. WorkAt(th["block"].at, "rest", Returned(d)) /\ (Returned(d).stopped => th["block"].at \in Between)
      BY <2>2, <2>3, <3>3, WorkReturned DEF Renewing
    <3> QED
      BY <1>g, <2>2, <3>1, <3>4 DEF BetweenCalls, Between
  <2> QED
    BY <2>4, <2>5
<1>8. CASE Destroy
  <2>1. /\ tmr'.waits = tmr.waits /\ tmr'.due = tmr.due /\ tmr'.ready = tmr.ready
        /\ tmr'.expiry = tmr.expiry
    BY <1>0, <1>8 DEF Destroy, Stop, Timers
  <2>2. th'["block"].at = "join" /\ th'["timer"] = th["timer"] /\ th["block"].at = "rest"
    BY <1>0, <1>8, GotoFacts DEF Destroy
  <2>3. WorkInv'
    BY <1>b, <1>g, <2>1, <2>2 DEF WorkAt, Between, Queued, Awaited
  <2> QED
    BY <2>2, <2>3 DEF Closing
<1>9. CASE Join
  <2>1. /\ th'["block"].at = "gone" /\ th'["timer"] = th["timer"] /\ th["block"].at = "join"
        /\ tmr' = tmr
    BY <1>0, <1>9, GotoFacts DEF Join
  <2> QED
    BY <1>d, <2>1 DEF Between
<1>10. CASE UNCHANGED vars
  BY <1>10, <1>d DEF vars
<1> QED
  BY <1>1, <1>2, <1>3, <1>4, <1>5, <1>6, <1>7, <1>8, <1>9, <1>10
  DEF Next, Receive, RunTimer, Destruct, Destroyed

\* In every interleaving io_service::run has a wait or a completion in hand
\* whenever a handler of it returns, but for the moment in which the block thread
\* is between the two calls of start_timer or idle_timer.
THEOREM TimerThreadLost == Spec => RunsOutBetweenCalls
<1>1. Init => WorkInv
  BY DEF Init, WorkInv, BetweenCalls, Resting, Threads, NewTimer
<1>2. TypeOK /\ ThreadInv /\ WorkInv /\ [Next]_vars =>
        /\ WorkInv'
        /\ [~tmr.stopped /\ tmr'.stopped => Closing' \/ BetweenCalls("block")]_vars
  BY WorkNext
<1> QED
  BY <1>1, <1>2, ThreadsCorrect, PTL DEF Spec, RunsOutBetweenCalls

------------------------------------------------------------------------------
(* Which commands are held where                                            *)

\* What a handler step of thread t does to messages.
LEMMA StepData ==
  ASSUME TypeOK, NEW t \in Threads, HandlerStep(t)
  PROVE  /\ arrived' = arrived
         /\ th'[t].msg \in {th[t].msg, 0} \/ (CheckBuffer(t) /\ th'[t].msg = buf.msg)
         /\ ~Hold(t) /\ ~ClearBuffer(t) => buf' = buf
         /\ ~Hold(t) => dropped' = dropped /\ buf'.msg = buf.msg
         /\ th'[t].at \in InputSteps /\ ~th'[t].nested =>
              ReadState(t) /\ ~th[t].nested /\ th'[t].msg = th[t].msg
         /\ th'[t].at \in SentSteps /\ ~th'[t].nested =>
              th[t].at \in InputSteps \cup SentSteps /\ ~th[t].nested
         /\ th[t].nested /\ ~ClearBuffer(t) /\ th[t].at \in InputSteps \cup SentSteps =>
              th'[t].nested
<1> USE DEF InputSteps, SentSteps, OpeningSteps
<1>0. buf \in [msg : Ids, waiting : BOOLEAN]
  BY DEF TypeOK
<1>1. CASE ReadState(t)
  BY <1>1, GotoFacts DEF ReadState
<1>2. CASE Hold(t)
  <2>1. CASE th[t].nested
    BY <1>2, <2>1, EndInputFacts DEF Hold, ClearBuffer
  <2>2. CASE ~th[t].nested
    BY <1>2, <2>2, EndInputFacts DEF Hold, Resting
  <2> QED
    BY <2>1, <2>2
<1>3. CASE Open(t)
  BY <1>3, GotoFacts DEF Open
<1>4. CASE SetWaitMsg(t)
  BY <1>4, GotoFacts DEF SetWaitMsg
<1>5. CASE StartTimerExpires(t)
  BY <1>5, GotoFacts DEF StartTimerExpires
<1>6. CASE StartTimerWait(t)
  BY <1>6, GotoFacts DEF StartTimerWait
<1>7. CASE AckOk(t)
  <2>1. CASE th[t].nested
    BY <1>7, <2>1, EndInputFacts DEF AckOk
  <2>2. CASE ~th[t].nested
    BY <1>7, <2>2, EndInputFacts DEF AckOk, Resting
  <2> QED
    BY <2>1, <2>2
<1>8. CASE SetIdle(t)
  BY <1>8, GotoFacts DEF SetIdle
<1>9. CASE IdleTimerExpires(t)
  BY <1>9, GotoFacts DEF IdleTimerExpires
<1>10. CASE IdleTimerWait(t)
  <2>1. CASE th[t].at = "idle_wait"
    BY <1>10, <2>1, GotoFacts DEF IdleTimerWait
  <2>2. CASE th[t].at = "trg_wait"
    BY <1>10, <2>2, LeaveFacts DEF IdleTimerWait, Resting
  <2> QED
    BY <1>10, <2>1, <2>2 DEF IdleTimerWait
<1>11. CASE CheckBuffer(t)
  <2>1. CASE buf.waiting
    <3>1. th'[t] = [at |-> "input", msg |-> buf.msg, nested |-> TRUE]
      BY <1>11, <2>1, EnterFacts DEF CheckBuffer
    <3> QED
      BY <1>11, <3>1 DEF CheckBuffer
  <2>2. CASE ~buf.waiting
    <3>1. th'[t] = Resting
      BY <1>11, <2>2, LeaveFacts DEF CheckBuffer
    <3> QED
      BY <1>11, <3>1 DEF CheckBuffer, Resting
  <2> QED
    BY <2>1, <2>2
<1>12. CASE ClearBuffer(t)
  BY <1>0, <1>12, LeaveFacts DEF ClearBuffer, Resting
<1>13. CASE Timeout(t)
  BY <1>13, GotoFacts DEF Timeout
<1>14. CASE SatNok(t)
  BY <1>14, GotoFacts DEF SatNok
<1> QED
  BY <1>1, <1>2, <1>3, <1>4, <1>5, <1>6, <1>7, <1>8, <1>9, <1>10, <1>11,
     <1>12, <1>13, <1>14 DEF HandlerStep

LEMMA FreshStep ==
  ASSUME TypeOK, ThreadInv, FreshInv, NEW t \in Threads, HandlerStep(t)
  PROVE  FreshInv'
<1>0. /\ "block" \in Threads /\ "timer" \in Threads /\ arrived \in Nat
      /\ t = "block" \/ t = "timer"
      /\ buf \in [msg : Ids, waiting : BOOLEAN] /\ Ids \subseteq Nat
      /\ \A u \in Threads : th[u].msg \in Nat
  BY BoundsAssumption DEF Threads, TypeOK, Ids, Activities
<1>a. /\ \A u \in Threads : u # t => th'[u] = th[u]
      /\ arrived' = arrived
  BY StepFacts, StepData
<1>h. CASE Hold(t)
  <2>1. /\ buf' = [msg |-> th[t].msg, waiting |-> TRUE] /\ th[t].at = "hold"
        /\ dropped' = dropped \/ dropped' = dropped \cup {buf.msg}
        /\ sent' = sent
    BY <1>h DEF Hold
  <2>2. th'[t].at \notin InputSteps
    BY <1>h, EndInputFacts DEF Hold, InputSteps, Resting
  <2>3. th'[t].msg \in {th[t].msg, 0}
    BY <1>h, StepData DEF Hold, CheckBuffer
  <2>4. /\ \A u \in Threads : th'[u].msg <= arrived
        /\ buf'.msg <= arrived
    BY <1>0, <1>a, <2>1, <2>3 DEF FreshInv
  <2>5. \A c \in Cmds : c > arrived => c \notin dropped'
    BY <1>0, <2>1 DEF FreshInv, Cmds
  <2>6. t = "timer" => th[t].nested
    BY <2>1 DEF FreshInv, InputSteps
  <2>7. t = "timer" => th'["timer"].nested
    BY <1>h, <2>6, EndInputFacts DEF Hold
  <2>8. Fresh' => /\ t = "timer" /\ Fresh
    BY <1>0, <1>a, <2>2 DEF Fresh
  <2>9. Fresh' => /\ th'["block"].msg = arrived' /\ sent'[arrived'] = 0
                  /\ buf'.msg # arrived' /\ th'["timer"].msg # arrived'
    <3> SUFFICES ASSUME Fresh' PROVE /\ th'["block"].msg = arrived' /\ sent'[arrived'] = 0
                                     /\ buf'.msg # arrived' /\ th'["timer"].msg # arrived'
      OBVIOUS
    <3>1. /\ th["block"].msg = arrived /\ sent[arrived] = 0
          /\ buf.msg # arrived /\ th["timer"].msg # arrived /\ t = "timer"
      BY <2>8 DEF FreshInv
    <3>2. arrived # 0
      BY <1>0, <2>8, <3>1 DEF ThreadInv, Fresh, Cmds
    <3> QED
      BY <1>0, <1>a, <2>1, <2>3, <3>1, <3>2
  <2>10. th'["timer"].at \in InputSteps \cup SentSteps => th'["timer"].nested
    BY <1>0, <1>a, <2>7 DEF FreshInv
  <2> QED
    BY <1>a, <2>1, <2>4, <2>5, <2>9, <2>10 DEF FreshInv
<1>n. CASE ~Hold(t)
  <2>1. /\ dropped' = dropped /\ buf'.msg = buf.msg
        /\ th'[t].msg \in {th[t].msg, 0, buf.msg}
    BY <1>n, StepData
  <2>2. /\ \A u \in Threads : th'[u].msg <= arrived
        /\ buf'.msg <= arrived
    BY <1>0, <1>a, <2>1 DEF FreshInv
  <2>3. \A c \in Cmds : c > arrived => sent'[c] = 0
    <3>1. ASSUME NEW c \in Cmds, c > arrived PROVE sent'[c] = sent[c]
      <4>1. th[t].msg # c
        BY <1>0, <3>1 DEF FreshInv, Cmds
      <4> QED
        BY <4>1, SentGrows
    <3> QED
      BY <3>1 DEF FreshInv
  <2>4. th'["timer"].at \in InputSteps \cup SentSteps => th'["timer"].nested
    <3>1. CASE t = "block"
      BY <1>0, <1>a, <3>1 DEF FreshInv
    <3>2. CASE t = "timer"
      BY <3>2, StepData DEF FreshInv, ReadState, InputSteps
    <3> QED
      BY <1>0, <3>1, <3>2
  <2>5. ASSUME Fresh'
        PROVE  /\ th'["block"].msg = arrived' /\ sent'[arrived'] = 0
               /\ buf'.msg # arrived' /\ th'["timer"].msg # arrived'
    <3>1. /\ Fresh /\ th'["block"].msg = th["block"].msg
          /\ t = "block" => ReadState(t)
      <4>1. CASE t = "block"
        BY <2>5, <4>1, StepData DEF Fresh, ReadState, InputSteps
      <4>2. CASE t = "timer"
        BY <1>0, <1>a, <2>5, <4>2 DEF Fresh
      <4> QED
        BY <1>0, <4>1, <4>2
    <3>2. /\ th["block"].msg = arrived /\ sent[arrived] = 0
          /\ buf.msg # arrived /\ th["timer"].msg # arrived
      BY <3>1 DEF FreshInv
    <3>3. arrived \in Cmds /\ arrived # 0
      <4>1. th["block"].msg \in Cmds
        BY <1>0, <3>1 DEF ThreadInv, Fresh
      <4> QED
        BY <3>2, <4>1 DEF Cmds
    <3>4. sent'[arrived] = 0
      <4>1. CASE t = "block"
        BY <3>1, <3>2, <4>1 DEF ReadState
      <4>2. CASE t = "timer"
        BY <3>2, <3>3, <4>2, SentGrows
      <4> QED
        BY <1>0, <4>1, <4>2
    <3>5. th'["timer"].msg # arrived
      BY <1>0, <1>a, <2>1, <3>2, <3>3
    <3> QED
      BY <1>a, <2>1, <3>1, <3>2, <3>4, <3>5
  <2> QED
    BY <1>a, <2>1, <2>2, <2>3, <2>4, <2>5 DEF FreshInv
<1> QED
  BY <1>h, <1>n

LEMMA ResendStep ==
  ASSUME TypeOK, ThreadInv, FreshInv, ResendInv, NEW t \in Threads, HandlerStep(t)
  PROVE  ResendInv'
<1>0. /\ "block" \in Threads /\ "timer" \in Threads /\ sent \in [Cmds -> Nat]
      /\ t = "block" \/ t = "timer"
      /\ buf \in [msg : Ids, waiting : BOOLEAN]
  BY DEF Threads, TypeOK
<1>a. \A u \in Threads : u # t => th'[u] = th[u]
  BY StepFacts
<1>s. ASSUME th[t].at \in InputSteps, ~th[t].nested
      PROVE  th[t].msg = arrived /\ sent[arrived] = 0 /\ buf.msg # arrived
  BY <1>0, <1>s DEF FreshInv, Fresh
<1>1. CASE Hold(t)
  <2>1. /\ buf' = [msg |-> th[t].msg, waiting |-> TRUE] /\ th[t].at = "hold" /\ sent' = sent
    BY <1>1 DEF Hold
  <2>2. CASE th[t].nested
    BY <1>1, <2>2, EndInputFacts DEF Hold, ResendInv
  <2>3. CASE ~th[t].nested
    BY <1>0, <1>s, <2>1, <2>3 DEF InputSteps, ResendInv
  <2> QED
    BY <2>2, <2>3
<1>2. CASE ClearBuffer(t)
  BY <1>0, <1>2 DEF ClearBuffer, ResendInv
<1>3. CASE ~Hold(t) /\ ~ClearBuffer(t)
  <2> SUFFICES ASSUME buf.waiting, sent'[buf.msg] > 0
               PROVE  \E u \in Threads : th'[u].nested
    BY <1>3, StepData DEF ResendInv
  <2>1. buf.msg \in Cmds
    BY DEF ThreadInv
  <2>2. \A u \in Threads : th[u].nested => th'[u].nested
    BY <1>3, <1>a, StepData DEF ThreadInv
  <2>3. CASE sent[buf.msg] > 0
    BY <2>2, <2>3 DEF ResendInv
  <2>4. CASE ~(sent[buf.msg] > 0)
    <3>1. Open(t) /\ th[t].msg = buf.msg
      BY <2>1, <2>4, SentGrows
    <3>2. th[t].nested
      BY <1>s, <3>1 DEF Open, InputSteps
    <3> QED
      BY <2>2, <3>2
  <2> QED
    BY <2>3, <2>4
<1> QED
  BY <1>1, <1>2, <1>3

\* FreshInv and ResendInv, for every step.
LEMMA HeldNext ==
  ASSUME TypeOK, ThreadInv, FreshInv, ResendInv, [Next]_vars
  PROVE  FreshInv' /\ ResendInv'
<1>0. /\ "block" \in Threads /\ "timer" \in Threads /\ arrived \in Nat
      /\ buf \in [msg : Ids, waiting : BOOLEAN] /\ Ids \subseteq Nat
      /\ \A u \in Threads : th[u].msg \in Nat
  BY BoundsAssumption DEF Threads, TypeOK, Ids, Activities
<1>1. ASSUME NEW t \in Threads, HandlerStep(t)
      PROVE  FreshInv' /\ ResendInv'
  BY <1>1, FreshStep, ResendStep
<1>2. CASE InputCommand
  <2>1. /\ th'["block"] = [at |-> "input", msg |-> arrived + 1, nested |-> FALSE]
        /\ th'["timer"] = th["timer"]
    BY <1>0, <1>2, EnterFacts DEF InputCommand
  <2>2. /\ arrived' = arrived + 1 /\ UNCHANGED <<buf, sent, dropped>>
        /\ arrived + 1 \in Cmds /\ th["block"].at = "rest"
    BY <1>0, <1>2, BoundsAssumption DEF InputCommand, TakesMessage, Cmds, TypeOK, Ids
  <2>3. sent[arrived + 1] = 0 /\ buf.msg # arrived + 1 /\ th["timer"].msg # arrived + 1
    <3>1. sent[arrived + 1] = 0
      BY <1>0, <2>2 DEF FreshInv
    <3>2. buf.msg <= arrived /\ th["timer"].msg <= arrived /\ buf.msg \in Nat /\ th["timer"].msg \in Nat
      BY <1>0 DEF FreshInv
    <3> QED
      BY <1>0, <3>1, <3>2
  <2>4. \A u \in Threads : th'[u].msg <= arrived'
    <3>1. th'["block"].msg = arrived + 1 /\ th'["timer"].msg = th["timer"].msg
      BY <2>1
    <3>2. \A u \in Threads : th[u].msg <= arrived /\ th[u].msg \in Nat
      BY <1>0 DEF FreshInv
    <3>3. th["timer"].msg <= arrived + 1
      BY <1>0, <3>2
    <3>4. arrived' = arrived + 1 /\ arrived + 1 <= arrived + 1
      BY <1>0, <2>2
    <3>5. th'["block"].msg <= arrived' /\ th'["timer"].msg <= arrived'
      BY <3>1, <3>3, <3>4
    <3> QED
      BY <3>5 DEF Threads
  <2>5. FreshInv'
    <3>1. buf'.msg <= arrived'
      <4>1. buf.msg \in Nat /\ buf.msg <= arrived /\ buf' = buf
        BY <1>0, <2>2 DEF FreshInv
      <4> QED
        BY <1>0, <2>2, <4>1
    <3>2. \A c \in Cmds : c > arrived' => c > arrived
      BY <1>0, <2>2 DEF Cmds
    <3>3. \A c \in Cmds : c > arrived' => sent'[c] = 0 /\ c \notin dropped'
      BY <2>2, <3>2 DEF FreshInv
    <3>4. /\ th'["block"].msg = arrived' /\ sent'[arrived'] = 0
          /\ buf'.msg # arrived' /\ th'["timer"].msg # arrived'
      BY <2>1, <2>2, <2>3
    <3>5. th'["timer"].at \in InputSteps \cup SentSteps => th'["timer"].nested
      BY <2>1 DEF FreshInv
    <3> QED
      BY <2>4, <3>1, <3>3, <3>4, <3>5 DEF FreshInv
  <2>6. ResendInv'
    <3>1. ~th["block"].nested
      BY <1>0, <2>2 DEF ThreadInv, InputSteps, SentSteps, OpeningSteps
    <3> QED
      BY <2>1, <2>2, <3>1 DEF ResendInv, Threads
  <2> QED
    BY <2>5, <2>6
\* The other steps leave the commands alone and begin no handler with one.
<1>b. ASSUME NEW t \in Threads, NEW l, Goto(t, l), UNCHANGED <<buf, sent, arrived, dropped>>,
             l \notin InputSteps \cup SentSteps, th[t].at \in {"rest", "join"}
      PROVE  FreshInv' /\ ResendInv'
  <2>1. /\ th'[t].at = l /\ th'[t].msg = th[t].msg /\ th'[t].nested = th[t].nested
        /\ \A u \in Threads : u # t => th'[u] = th[u]
    BY <1>b, GotoFacts
  <2>2. FreshInv'
    BY <1>b, <2>1 DEF FreshInv, Fresh, Threads
  <2>3. ResendInv'
    BY <1>b, <2>1 DEF ResendInv
  <2> QED
    BY <2>2, <2>3
<1>s. ASSUME UNCHANGED <<th, buf, sent, arrived, dropped>>
      PROVE  FreshInv' /\ ResendInv'
  BY <1>s DEF FreshInv, Fresh, ResendInv
<1> USE DEF InputSteps, SentSteps, OpeningSteps
<1>3. CASE InputRefused
  BY <1>3, <1>s DEF InputRefused
<1>4. CASE RxTrigger
  BY <1>0, <1>4, <1>b DEF RxTrigger, TakesMessage
<1>5. CASE RxMessage
  BY <1>0, <1>5, <1>b DEF RxMessage, TakesMessage
<1>6. CASE TimerElapses
  BY <1>6, <1>s DEF TimerElapses
<1>7. CASE RunCompletion
  <2>1. th' = th \/ Goto("timer", "timeout")
    BY <1>7 DEF RunCompletion
  <2> QED
    BY <1>0, <1>7, <1>b, <1>s, <2>1 DEF RunCompletion
<1>8. CASE Destroy
  BY <1>0, <1>8, <1>b DEF Destroy
<1>9. CASE Join
  BY <1>0, <1>9, <1>b DEF Join
<1>10. CASE UNCHANGED vars
  BY <1>10, <1>s DEF vars
<1> QED
  BY <1>1, <1>2, <1>3, <1>4, <1>5, <1>6, <1>7, <1>8, <1>9, <1>10
  DEF Next, Receive, RunTimer, Destruct, Destroyed

LEMMA HeldCorrect == Spec => [](TypeOK /\ ThreadInv /\ FreshInv /\ ResendInv)
<1>1. ASSUME Init PROVE FreshInv /\ ResendInv
  <2>1. /\ th = [t \in Threads |-> Resting] /\ buf = [msg |-> 0, waiting |-> FALSE]
        /\ arrived = 0 /\ sent = [c \in Cmds |-> 0] /\ dropped = {}
        /\ "block" \in Threads /\ "timer" \in Threads
    BY <1>1 DEF Init, Threads
  <2> QED
    BY <2>1 DEF FreshInv, Fresh, ResendInv, Resting, InputSteps, SentSteps, OpeningSteps
<1> QED
  BY <1>1, ThreadsCorrect, HeldNext, PTL DEF Spec

------------------------------------------------------------------------------
(* A handler that runs alone                                                *)

\* Watch notices every overlap, and when it ends.
LEMMA WatchFacts ==
  ASSUME [Next]_vars, ~Together', LoneInv
  PROVE  /\ Exclusive'
         /\ Together => Quiescent'
<1>1. Watch \/ UNCHANGED vars
  BY DEF Next, HandlerStep, Receive, RunTimer, Destruct, Destroyed
<1>2. CASE UNCHANGED vars
  BY <1>2 DEF vars, Together, LoneInv, Exclusive, InHandler, Quiescent
<1>3. CASE Watch
  BY <1>3 DEF Watch, Together, Exclusive, InHandler, Quiescent, Threads
<1> QED
  BY <1>1, <1>2, <1>3

\* In a lone handler the other thread is outside.
LEMMA AloneFacts ==
  ASSUME TypeOK, ThreadInv, Exclusive, NEW t \in Threads, HandlerStep(t), NEW u \in Threads, u # t
  PROVE  /\ th[u].at \in {"rest", "join", "gone"} /\ th'[u] = th[u]
         /\ ~th[u].nested
<1>1. InHandler(t) /\ th'[u] = th[u]
  BY StepFacts DEF InHandler, Inside
<1>2. ~InHandler(u)
  BY <1>1 DEF Exclusive, Threads
<1>3. th[u].at \in {"rest", "join", "gone"}
  BY <1>2 DEF InHandler, TypeOK, Activities
<1> QED
  BY <1>1, <1>3 DEF ThreadInv, InputSteps, SentSteps, OpeningSteps

LEMMA LoneStep ==
  ASSUME TypeOK, ThreadInv, ResendInv, Exclusive, NEW t \in Threads, LoneAt(t), HandlerStep(t)
  PROVE  LoneAt(t)'
<1> USE DEF LoneAt, IdleSteps, InputSteps, OpeningSteps, SentSteps
<1>0. /\ sent \in [Cmds -> Nat] /\ p_state \in {"idle", "wait_msg"}
      /\ buf \in [msg : Ids, waiting : BOOLEAN] /\ tmr \in Timers(Handlers)
      /\ "finite" \in Deadlines
  BY DEF TypeOK, Deadlines
<1>i. /\ th[t].at \in InputSteps \cup SentSteps => th[t].msg \in Cmds
      /\ th[t].at \in OpeningSteps => sent[th[t].msg] > 0
      /\ th[t].nested => th[t].at \in InputSteps \cup SentSteps
      /\ th[t].at = "clear_buf" => th[t].nested
  BY DEF ThreadInv
<1>e. ASSUME th'[t] = Resting PROVE LoneAt(t)'
  BY <1>e DEF Resting
<1>1. CASE ReadState(t)
  BY <1>0, <1>1, GotoFacts DEF ReadState
<1>2. CASE Hold(t)
  <2>1. ~th[t].nested
    BY <1>2 DEF Hold
  <2> QED
    BY <1>2, <1>e, <2>1, EndInputFacts DEF Hold
<1>3. CASE Open(t)
  <2>1. sent'[th[t].msg] > 0
    BY <1>i, <1>3, SentGrows DEF Open
  <2>2. /\ th'[t].at = "set_wait" /\ th'[t].msg = th[t].msg /\ th'[t].nested = th[t].nested
        /\ buf' = buf
    BY <1>3, GotoFacts DEF Open
  <2> QED
    BY <2>1, <2>2
<1>4. CASE SetWaitMsg(t)
  BY <1>i, <1>4, GotoFacts DEF SetWaitMsg
<1>5. CASE StartTimerExpires(t)
  <2>1. tmr'.waits = <<>> /\ tmr'.expiry = "finite"
    BY <1>0, <1>5, ExpiresFacts DEF StartTimerExpires
  <2> QED
    BY <1>i, <1>5, <2>1, GotoFacts DEF StartTimerExpires
<1>6. CASE StartTimerWait(t)
  BY <1>i, <1>6, GotoFacts DEF StartTimerWait
<1>7. CASE AckOk(t)
  <2>1. CASE th[t].nested
    BY <1>i, <1>7, <2>1, EndInputFacts DEF AckOk
  <2>2. CASE ~th[t].nested
    BY <1>7, <1>e, <2>2, EndInputFacts DEF AckOk
  <2> QED
    BY <2>1, <2>2
<1>8. CASE SetIdle(t)
  BY <1>i, <1>8, GotoFacts DEF SetIdle
<1>9. CASE IdleTimerExpires(t)
  BY <1>i, <1>9, GotoFacts DEF IdleTimerExpires
<1>10. CASE IdleTimerWait(t)
  <2>1. CASE th[t].at = "idle_wait"
    BY <1>i, <1>10, <2>1, GotoFacts DEF IdleTimerWait
  <2>2. CASE th[t].at = "trg_wait"
    BY <1>10, <1>e, <2>2, LeaveFacts DEF IdleTimerWait
  <2> QED
    BY <1>10, <2>1, <2>2 DEF IdleTimerWait
<1>11. CASE CheckBuffer(t)
  <2>1. CASE buf.waiting
    <3>1. th'[t] = [at |-> "input", msg |-> buf.msg, nested |-> TRUE]
      BY <1>11, <2>1, EnterFacts DEF CheckBuffer
    <3>2. \A u \in Threads : ~th[u].nested
      BY <1>i, <1>11, AloneFacts DEF CheckBuffer
    <3>3. buf.msg \in Cmds /\ ~(sent[buf.msg] > 0)
      BY <2>1, <3>2 DEF ThreadInv, ResendInv
    <3>4. sent[buf.msg] = 0
      BY <1>0, <3>3
    <3>5. buf' = buf /\ sent' = sent /\ p_state' = "idle"
      BY <1>11 DEF CheckBuffer
    <3> QED
      BY <2>1, <3>1, <3>4, <3>5
  <2>2. CASE ~buf.waiting
    BY <1>11, <1>e, <2>2, LeaveFacts DEF CheckBuffer
  <2> QED
    BY <2>1, <2>2
<1>12. CASE ClearBuffer(t)
  BY <1>12, <1>e, LeaveFacts DEF ClearBuffer
<1>13. CASE Timeout(t)
  BY <1>i, <1>13, GotoFacts DEF Timeout
<1>14. CASE SatNok(t)
  BY <1>i, <1>14, GotoFacts DEF SatNok
<1> QED
  BY <1>1, <1>2, <1>3, <1>4, <1>5, <1>6, <1>7, <1>8, <1>9, <1>10, <1>11,
     <1>12, <1>13, <1>14 DEF HandlerStep

LEMMA LoneNext ==
  ASSUME TypeOK, ThreadInv, ThreadInv', ResendInv, LoneInv, [Next]_vars
  PROVE  LoneInv'
<1> SUFFICES ASSUME ~Together'
             PROVE  Exclusive' /\ \A t \in Threads : LoneAt(t)'
  BY DEF LoneInv
<1>0. "block" \in Threads /\ "timer" \in Threads /\ tmr \in Timers(Handlers) /\ TypeOK'
  BY TypeNext DEF Threads, TypeOK
<1>x. Exclusive' /\ (Together => Quiescent')
  BY WatchFacts
\* A thread that is outside its handlers, or begins one.
<1>y. ASSUME NEW t \in Threads, ~th'[t].nested,
             th'[t].at \in {"rest", "join", "gone", "input", "trg_expires", "set_idle", "timeout"}
      PROVE  LoneAt(t)'
  BY <1>y DEF LoneAt, IdleSteps
<1>z. ASSUME NEW t \in Threads, ~InHandler(t)'
      PROVE  LoneAt(t)'
  <2>1. th'[t].at \in {"rest", "join", "gone"}
    BY <1>z DEF InHandler
  <2>2. ~th'[t].nested
    BY <2>1 DEF ThreadInv, InputSteps, SentSteps, OpeningSteps
  <2> QED
    BY <1>y, <2>1, <2>2
<1> SUFFICES ASSUME ~Together
             PROVE  \A t \in Threads : LoneAt(t)'
  BY <1>x, <1>z DEF Quiescent
<1>l. Exclusive /\ \A t \in Threads : LoneAt(t)
  BY DEF LoneInv
\* A thread goes on while the other, and what it knows, stays.
<1>b. ASSUME NEW t \in Threads, NEW l, Goto(t, l), th[t].at \in {"rest", "join"},
             l \in {"trg_expires", "set_idle", "timeout", "join", "gone"},
             UNCHANGED <<p_state, buf, sent>>,
             tmr'.waits = tmr.waits, tmr'.expiry = tmr.expiry
      PROVE  \A u \in Threads : LoneAt(u)'
  <2>1. /\ th'[t].at = l /\ th'[t].nested = th[t].nested
        /\ \A u \in Threads : u # t => th'[u] = th[u]
    BY <1>b, GotoFacts
  <2>2. ~th[t].nested
    BY <1>b DEF ThreadInv, InputSteps, SentSteps, OpeningSteps
  <2>3. LoneAt(t)'
    BY <1>b, <1>y, <2>1, <2>2
  <2>4. \A u \in Threads : u # t => LoneAt(u)'
    BY <1>b, <1>l, <2>1 DEF LoneAt
  <2> QED
    BY <2>3, <2>4
<1>s. ASSUME UNCHANGED <<th, p_state, buf, sent>>,
             tmr'.waits = tmr.waits \/ \A t \in Threads : th[t].at # "start_wait",
             tmr'.expiry = tmr.expiry
      PROVE  \A u \in Threads : LoneAt(u)'
  BY <1>l, <1>s DEF LoneAt
<1>1. ASSUME NEW t \in Threads, HandlerStep(t)
      PROVE  \A u \in Threads : LoneAt(u)'
  <2>1. LoneAt(t)'
    BY <1>1, <1>l, LoneStep
  <2>2. ASSUME NEW u \in Threads, u # t PROVE LoneAt(u)'
    <3>1. th'[u].at \in {"rest", "join", "gone"} /\ ~th'[u].nested
      BY <1>1, <1>l, <2>2, AloneFacts
    <3> QED
      BY <1>y, <3>1
  <2> QED
    BY <2>1, <2>2
<1>2. CASE InputCommand
  <2>1. /\ th'["block"] = [at |-> "input", msg |-> arrived + 1, nested |-> FALSE]
        /\ th'["timer"] = th["timer"]
    BY <1>0, <1>2, EnterFacts DEF InputCommand
  <2>2. LoneAt("block")'
    BY <1>0, <1>y, <2>1
  <2>3. LoneAt("timer")'
    BY <1>0, <1>2, <1>l, <2>1 DEF InputCommand, LoneAt
  <2> QED
    BY <2>2, <2>3 DEF Threads
<1>3. CASE InputRefused
  BY <1>3, <1>s DEF InputRefused
<1>4. CASE RxTrigger
  BY <1>0, <1>4, <1>b DEF RxTrigger, TakesMessage
<1>5. CASE RxMessage
  BY <1>0, <1>5, <1>b DEF RxMessage, TakesMessage
<1>6. CASE TimerElapses
  <2>1. tmr.waits # <<>> /\ tmr'.expiry = tmr.expiry
    BY <1>0, <1>6, ElapseFacts DEF TimerElapses, Elapsable
  <2> QED
    BY <1>6, <1>l, <1>s, <2>1 DEF TimerElapses, LoneAt
<1>7. CASE RunCompletion
  <2>1. /\ th["timer"].at = "rest"
        /\ \/ tmr' = Dispatched(tmr) /\ Goto("timer", "timeout")
           \/ tmr' = Returned(Dispatched(tmr)) /\ th' = th
    BY <1>7 DEF RunCompletion
  <2>2. tmr'.waits = tmr.waits /\ tmr'.expiry = tmr.expiry
    BY <1>0, <2>1 DEF Dispatched, Returned, Timers
  <2> QED
    BY <1>0, <1>7, <1>b, <1>s, <2>1, <2>2 DEF RunCompletion
<1>8. CASE Destroy
  <2>1. tmr'.waits = tmr.waits /\ tmr'.expiry = tmr.expiry
    BY <1>0, <1>8 DEF Destroy, Stop, Timers
  <2> QED
    BY <1>0, <1>8, <1>b, <2>1 DEF Destroy
<1>9. CASE Join
  BY <1>0, <1>9, <1>b DEF Join
<1>10. CASE UNCHANGED vars
  BY <1>10, <1>s DEF vars
<1> QED
  BY <1>1, <1>2, <1>3, <1>4, <1>5, <1>6, <1>7, <1>8, <1>9, <1>10
  DEF Next, Receive, RunTimer, Destruct, Destroyed

AllInv == TypeOK /\ ThreadInv /\ FreshInv /\ ResendInv /\ LoneInv

LEMMA LoneCorrect == Spec => []AllInv
<1>1. Init => LoneInv
  BY DEF Init, LoneInv, LoneAt, IdleSteps, Exclusive, InHandler, Resting, Threads
<1>2. TypeOK /\ ThreadInv /\ [Next]_vars => ThreadInv'
  BY ThreadNext
<1>3. TypeOK /\ ThreadInv /\ ThreadInv' /\ ResendInv /\ LoneInv /\ [Next]_vars => LoneInv'
  BY LoneNext
<1> QED
  BY <1>1, <1>2, <1>3, HeldCorrect, PTL DEF Spec, AllInv

\* An action property of handlers that run alone, from the invariants.
LEMMA Alone ==
  ASSUME AllInv, [Next]_vars, Apart
  PROVE  /\ TypeOK /\ ThreadInv /\ FreshInv /\ Exclusive
         /\ \A t \in Threads : LoneAt(t)
         /\ "block" \in Threads /\ "timer" \in Threads
         /\ tmr \in Timers(Handlers) /\ sent \in [Cmds -> Nat]
         /\ buf \in [msg : Ids, waiting : BOOLEAN] /\ p_state \in {"idle", "wait_msg"}
         /\ 1..arrived \subseteq Cmds
<1>1. TypeOK /\ ThreadInv /\ FreshInv /\ LoneInv /\ ~Together
  BY DEF AllInv, Apart
<1>2. 1..arrived \subseteq Cmds
  BY <1>1, BoundsAssumption DEF TypeOK, Ids, Cmds
<1> QED
  BY <1>1, <1>2 DEF LoneInv, TypeOK, Threads

\* What handler steps that run alone do to a command and to the other thread.
LEMMA KeptStep ==
  ASSUME AllInv, [Next]_vars, Apart, NEW t \in Threads, HandlerStep(t),
         NEW c \in 1..arrived, Kept(c)
  PROVE  Kept(c)'
<1> USE DEF InputSteps, SentSteps, OpeningSteps
<1>0. /\ TypeOK /\ ThreadInv /\ Exclusive /\ LoneAt(t) /\ c \in Cmds
      /\ sent \in [Cmds -> Nat] /\ buf \in [msg : Ids, waiting : BOOLEAN]
  BY Alone
<1>a. \A u \in Threads : u # t => th[u].at \in {"rest", "join", "gone"} /\ th'[u] = th[u]
  BY <1>0, AloneFacts
<1>b. /\ sent[c] > 0 => sent'[c] > 0
      /\ arrived' = arrived
  BY <1>0, SentGrows, StepData
<1>c. InProgress(c) => th[t].msg = c /\ th[t].at \in InputSteps
  BY <1>a DEF InProgress
<1>1. CASE ReadState(t)
  <2>1. th'[t].at \in {"hold", "open"} /\ th'[t].msg = th[t].msg
    BY <1>0, <1>1, GotoFacts DEF ReadState
  <2> QED
    BY <1>1, <1>c, <2>1 DEF ReadState, Kept, InProgress
<1>2. CASE Hold(t)
  <2>1. buf' = [msg |-> th[t].msg, waiting |-> TRUE] /\ sent' = sent
    BY <1>2 DEF Hold
  <2>2. buf.waiting /\ buf.msg # th[t].msg => dropped' = dropped \cup {buf.msg}
    BY <1>2 DEF Hold
  <2>3. dropped \subseteq dropped'
    BY <1>2 DEF Hold
  <2> QED
    BY <1>c, <2>1, <2>2, <2>3 DEF Kept
<1>3. CASE Open(t)
  <2>1. th[t].msg = c => sent'[c] > 0
    BY <1>0, <1>3, SentGrows DEF Open
  <2>2. buf' = buf /\ dropped' = dropped
    BY <1>3 DEF Open
  <2> QED
    BY <1>b, <1>c, <2>1, <2>2 DEF Kept
<1>4. CASE ClearBuffer(t)
  <2>1. th[t].nested /\ buf.msg = th[t].msg /\ sent[th[t].msg] # 0 /\ th[t].msg \in Cmds
    BY <1>0, <1>4 DEF ClearBuffer, ThreadInv, LoneAt
  <2>2. sent[th[t].msg] \in Nat
    BY <1>0, <2>1
  <2>3. buf.msg = c => sent[c] > 0
    BY <2>1, <2>2
  <2> QED
    BY <1>4, <1>b, <1>c, <2>3 DEF ClearBuffer, Kept
<1>5. CASE ~ReadState(t) /\ ~Hold(t) /\ ~Open(t) /\ ~ClearBuffer(t)
  <2>1. th[t].at \notin InputSteps
    BY <1>5 DEF HandlerStep, SetWaitMsg, StartTimerExpires, StartTimerWait, AckOk, SetIdle,
                IdleTimerExpires, IdleTimerWait, CheckBuffer, Timeout, SatNok
  <2>2. buf' = buf /\ dropped' = dropped
    BY <1>0, <1>5, StepData
  <2> QED
    BY <1>b, <1>c, <2>1, <2>2 DEF Kept
<1> QED
  BY <1>1, <1>2, <1>3, <1>4, <1>5

LEMMA KeptNext ==
  ASSUME AllInv, [Next]_vars, Apart, NEW c \in 1..arrived, Kept(c)
  PROVE  Kept(c)'
<1>0. TypeOK /\ "block" \in Threads /\ "timer" \in Threads
  BY Alone
<1>s. ASSUME UNCHANGED <<sent, dropped, buf>>, UNCHANGED th
      PROVE  Kept(c)'
  BY <1>s DEF Kept, InProgress
\* A thread begins a handler, or goes on with its destructor.
<1>b. ASSUME NEW t \in Threads, th[t].at \in {"rest", "join"},
             \A u \in Threads : u # t => th'[u] = th[u], UNCHANGED <<sent, dropped, buf>>
      PROVE  Kept(c)'
  BY <1>b DEF Kept, InProgress
<1>1. CASE \E t \in Threads : HandlerStep(t)
  BY <1>1, KeptStep
<1>2. CASE InputCommand
  BY <1>0, <1>2, <1>b, EnterFacts DEF InputCommand, TakesMessage
<1>3. CASE InputRefused
  BY <1>3, <1>s DEF InputRefused
<1>4. CASE RxTrigger
  BY <1>0, <1>4, <1>b, GotoFacts DEF RxTrigger, TakesMessage
<1>5. CASE RxMessage
  BY <1>0, <1>5, <1>b, GotoFacts DEF RxMessage, TakesMessage
<1>6. CASE TimerElapses
  BY <1>6, <1>s DEF TimerElapses
<1>7. CASE RunCompletion
  <2>1. th' = th \/ Goto("timer", "timeout")
    BY <1>7 DEF RunCompletion
  <2> QED
    BY <1>0, <1>7, <1>b, <1>s, <2>1, GotoFacts DEF RunCompletion
<1>8. CASE Destroy
  BY <1>0, <1>8, <1>b, GotoFacts DEF Destroy
<1>9. CASE Join
  BY <1>0, <1>9, <1>b, GotoFacts DEF Join
<1>10. CASE UNCHANGED vars
  BY <1>10, <1>s DEF vars
<1> QED
  BY <1>1, <1>2, <1>3, <1>4, <1>5, <1>6, <1>7, <1>8, <1>9, <1>10
  DEF Next, Receive, RunTimer, Destruct, Destroyed

\* A handler that runs alone forgets no command, in whatever state handlers that
\* overlapped have left the buffer and the protocol.
THEOREM CommandsKept == Spec => LostOnlyTogether
<1>1. AllInv /\ [Next]_vars =>
        [Apart => \A c \in 1..arrived : Kept(c) => Kept(c)']_vars
  BY KeptNext
<1> QED
  BY <1>1, LoneCorrect, PTL DEF Spec, LostOnlyTogether

\* What a handler that runs alone leaves stranded was stranded before.
LEMMA StrandedStep ==
  ASSUME AllInv, [Next]_vars, Apart, NEW t \in Threads, HandlerStep(t), Stranded'
  PROVE  Stranded
<1> USE DEF InputSteps, SentSteps, OpeningSteps, IdleSteps
<1>0. /\ TypeOK /\ ThreadInv /\ Exclusive /\ LoneAt(t)
      /\ p_state \in {"idle", "wait_msg"} /\ "block" \in Threads /\ "timer" \in Threads
  BY Alone
<1>a. \A u \in Threads : u # t => /\ th[u].at \in {"rest", "join", "gone"} /\ ~th[u].nested
                                  /\ th'[u] = th[u]
  BY <1>0, AloneFacts
<1>b. /\ p_state' = "idle" /\ buf'.waiting
      /\ th'[t].at \notin IdleSteps /\ ~th'[t].nested
  BY DEF Stranded
<1>c. ASSUME p_state' = p_state, buf' = buf, th[t].at \notin IdleSteps, ~th[t].nested
      PROVE  Stranded
  BY <1>a, <1>b, <1>c DEF Stranded
<1>d. p_state = "wait_msg" /\ p_state' = p_state => FALSE
  BY <1>b
<1>1. CASE ReadState(t)
  BY <1>0, <1>1, <1>b, <1>c, GotoFacts DEF ReadState
<1>2. CASE Hold(t)
  BY <1>0, <1>2, <1>d DEF Hold, LoneAt
<1>3. CASE Open(t)
  BY <1>0, <1>3, <1>b, <1>c, GotoFacts DEF Open
<1>4. CASE SetWaitMsg(t)
  BY <1>4, <1>b DEF SetWaitMsg
<1>5. CASE StartTimerExpires(t)
  BY <1>0, <1>5, <1>d DEF StartTimerExpires, LoneAt
<1>6. CASE StartTimerWait(t)
  BY <1>0, <1>6, <1>d DEF StartTimerWait, LoneAt
<1>7. CASE AckOk(t)
  BY <1>0, <1>7, <1>d DEF AckOk, LoneAt
<1>8. CASE SetIdle(t)
  BY <1>0, <1>8, <1>b, GotoFacts DEF SetIdle
<1>9. CASE IdleTimerExpires(t)
  BY <1>0, <1>9, <1>b, <1>c, GotoFacts DEF IdleTimerExpires, ThreadInv
<1>10. CASE IdleTimerWait(t)
  BY <1>0, <1>10, <1>b, <1>c, GotoFacts DEF IdleTimerWait, ThreadInv
<1>11. CASE CheckBuffer(t)
  <2>1. buf' = buf
    BY <1>11 DEF CheckBuffer
  <2>2. th'[t] = [at |-> "input", msg |-> buf.msg, nested |-> TRUE]
    BY <1>0, <1>11, <1>b, <2>1, EnterFacts DEF CheckBuffer
  <2> QED
    BY <1>b, <2>2
<1>12. CASE ClearBuffer(t)
  <2>1. buf'.waiting = FALSE
    BY <1>0, <1>12 DEF ClearBuffer, TypeOK
  <2> QED
    BY <1>b, <2>1
<1>13. CASE Timeout(t)
  BY <1>0, <1>13, <1>b, <1>c, GotoFacts DEF Timeout
<1>14. CASE SatNok(t)
  BY <1>0, <1>14, <1>b, <1>c, GotoFacts DEF SatNok
<1> QED
  BY <1>1, <1>2, <1>3, <1>4, <1>5, <1>6, <1>7, <1>8, <1>9, <1>10, <1>11,
     <1>12, <1>13, <1>14 DEF HandlerStep

LEMMA StrandedNext ==
  ASSUME AllInv, [Next]_vars, Apart, Stranded'
  PROVE  Stranded
<1>0. TypeOK /\ ThreadInv /\ "block" \in Threads /\ "timer" \in Threads
  BY Alone
<1>s. ASSUME UNCHANGED <<p_state, buf, th>>
      PROVE  Stranded
  BY <1>s DEF Stranded
\* A thread begins a handler, or goes on with its destructor.
<1>b. ASSUME NEW t \in Threads, th[t].at \in {"rest", "join"},
             \A u \in Threads : u # t => th'[u] = th[u], UNCHANGED <<p_state, buf>>
      PROVE  Stranded
  <2>1. ~th[t].nested
    BY <1>0, <1>b DEF ThreadInv, InputSteps, SentSteps, OpeningSteps
  <2> QED
    BY <1>b, <2>1 DEF Stranded
<1>1. CASE \E t \in Threads : HandlerStep(t)
  BY <1>1, StrandedStep
<1>2. CASE InputCommand
  BY <1>0, <1>2, <1>b, EnterFacts DEF InputCommand, TakesMessage
<1>3. CASE InputRefused
  BY <1>3, <1>s DEF InputRefused
<1>4. CASE RxTrigger
  BY <1>0, <1>4, <1>b, GotoFacts DEF RxTrigger, TakesMessage
<1>5. CASE RxMessage
  BY <1>0, <1>5, <1>b, GotoFacts DEF RxMessage, TakesMessage
<1>6. CASE TimerElapses
  BY <1>6, <1>s DEF TimerElapses
<1>7. CASE RunCompletion
  <2>1. th' = th \/ Goto("timer", "timeout")
    BY <1>7 DEF RunCompletion
  <2> QED
    BY <1>0, <1>7, <1>b, <1>s, <2>1, GotoFacts DEF RunCompletion
<1>8. CASE Destroy
  BY <1>0, <1>8, <1>b, GotoFacts DEF Destroy
<1>9. CASE Join
  BY <1>0, <1>9, <1>b, GotoFacts DEF Join
<1>10. CASE UNCHANGED vars
  BY <1>10, <1>s DEF vars
<1> QED
  BY <1>1, <1>2, <1>3, <1>4, <1>5, <1>6, <1>7, <1>8, <1>9, <1>10
  DEF Next, Receive, RunTimer, Destruct, Destroyed

\* Nor does it leave a command in the buffer of a block it makes idle.
THEOREM BufferServed == Spec => StrandedOnlyTogether
<1>1. AllInv /\ [Next]_vars => [Apart /\ Stranded' => Stranded]_vars
  BY StrandedNext
<1> QED
  BY <1>1, LoneCorrect, PTL DEF Spec, StrandedOnlyTogether

------------------------------------------------------------------------------
(* Transmissions                                                            *)

LEMMA OnceNext ==
  ASSUME AllInv, [Next]_vars, Apart, NEW c \in Cmds, sent'[c] > sent[c]
  PROVE  sent[c] = 0
<1>0. /\ TypeOK /\ FreshInv /\ sent \in [Cmds -> Nat]
      /\ \A t \in Threads : LoneAt(t)
  BY Alone
<1>1. PICK t \in Threads : HandlerStep(t)
  <2>1. ~UNCHANGED sent
    BY <1>0
  <2> QED
    BY <2>1 DEF Next, Receive, InputCommand, InputRefused, RxTrigger, RxMessage, RunTimer,
                TimerElapses, RunCompletion, Destruct, Destroy, Join, Destroyed, vars
<1>2. Open(t) /\ th[t].msg = c
  BY <1>0, <1>1, SentGrows
<1>3. CASE th[t].nested
  BY <1>0, <1>2, <1>3 DEF Open, LoneAt, InputSteps
<1>4. CASE ~th[t].nested
  BY <1>0, <1>2, <1>4 DEF Open, FreshInv, Fresh, InputSteps, Threads
<1> QED
  BY <1>3, <1>4

\* A handler that runs alone transmits no command for the second time, although
\* the buffer may still hold one that was transmitted.
THEOREM SentOnceAlone == Spec => RepeatedOnlyTogether
<1>1. AllInv /\ [Next]_vars =>
        [Apart => \A c \in Cmds : sent'[c] > sent[c] => sent[c] = 0]_vars
  BY OnceNext
<1> QED
  BY <1>1, LoneCorrect, PTL DEF Spec, RepeatedOnlyTogether

------------------------------------------------------------------------------
(* The deadline of a session                                                *)

Pending(tm) ==
  \/ tm.waits # <<>> /\ Head(tm.waits) = "timeout" /\ tm.due = "finite"
  \/ Queued(tm, "timeout", TRUE)

\* Where a session without a deadline is about to get one, or to end.
Ending == {"timeout", "sat_nok", "set_idle", "start_expires", "start_wait"}

LEMMA UntimedOf ==
  Untimed <=> p_state = "wait_msg" /\ ~Pending(tmr) /\ \A t \in Threads : th[t].at \notin Ending
  BY DEF Untimed, Pending, TimeoutPending, At, Ending

\* What does not cancel the wait in progress, or only completes it, loses no
\* deadline of handle_timeout.
LEMMA PendingKept ==
  ASSUME tmr \in Timers(Handlers)
  PROVE  /\ Pending(tmr) <=> Pending(Returned(tmr))
         /\ Pending(tmr) <=> Pending(Stop(tmr))
         /\ Pending(tmr) => Pending(AsyncWait(tmr, "infinite"))
         /\ Pending(tmr) /\ tmr.waits # <<>> => Pending(Elapse(tmr))
         /\ /\ Pending(tmr) /\ Dispatchable(tmr)
            /\ ~(Head(tmr.ready).handler = "timeout" /\ Head(tmr.ready).ok)
            => Pending(Returned(Dispatched(tmr)))
<1>h. "timeout" \in Handlers /\ "infinite" \in Handlers /\ "never" \in Deadlines
  BY DEF Handlers, Deadlines
<1>1. ASSUME NEW tm \in Timers(Handlers) PROVE Pending(tm) <=> Pending(Returned(tm))
  <2>1. /\ Returned(tm).waits = tm.waits /\ Returned(tm).due = tm.due
        /\ Returned(tm).ready = tm.ready
    BY ReturnedFacts
  <2> QED
    BY <2>1 DEF Pending, Queued
<1>2. Pending(tmr) <=> Pending(Stop(tmr))
  BY DEF Pending, Queued, Stop, Timers
<1>3. Pending(tmr) => Pending(AsyncWait(tmr, "infinite"))
  <2> DEFINE a == AsyncWait(tmr, "infinite")
  <2>1. /\ a.waits = Append(tmr.waits, "infinite") /\ a.ready = tmr.ready
        /\ tmr.waits # <<>> => a.due = tmr.due
    BY DEF AsyncWait, Timers
  <2>2. tmr.waits \in Seq(Handlers)
    BY DEF Timers
  <2>3. tmr.waits # <<>> => Head(a.waits) = Head(tmr.waits) /\ a.waits # <<>>
    BY <1>h, <2>1, <2>2, AppendProperties
  <2> QED
    BY <2>1, <2>3 DEF Pending, Queued
<1>4. Pending(tmr) /\ tmr.waits # <<>> => Pending(Elapse(tmr))
  BY <1>h, ElapseFacts DEF Pending
<1>5. ASSUME Pending(tmr), Dispatchable(tmr),
             ~(Head(tmr.ready).handler = "timeout" /\ Head(tmr.ready).ok)
      PROVE  Pending(Returned(Dispatched(tmr)))
  <2> DEFINE d == Dispatched(tmr)
  <2>1. /\ d \in Timers(Handlers) /\ d.waits = tmr.waits /\ d.due = tmr.due
        /\ Queued(tmr, "timeout", TRUE) =>
             Queued(d, "timeout", TRUE) \/ Head(tmr.ready) = [handler |-> "timeout", ok |-> TRUE]
    BY <1>5, <1>h, DispatchedFacts, TimersClosed
  <2>2. Head(tmr.ready) # [handler |-> "timeout", ok |-> TRUE]
    BY <1>5
  <2>3. Pending(d)
    BY <1>5, <2>1, <2>2 DEF Pending
  <2> QED
    BY <1>1, <2>1, <2>3
<1> QED
  BY <1>1, <1>2, <1>3, <1>4, <1>5

LEMMA UntimedStep ==
  ASSUME AllInv, [Next]_vars, Apart, NEW t \in Threads, HandlerStep(t), Untimed',
         th["block"].at # "trg_expires"
  PROVE  Untimed
<1> USE DEF Ending
<1>0. /\ TypeOK /\ ThreadInv /\ Exclusive /\ LoneAt(t) /\ tmr \in Timers(Handlers)
      /\ "block" \in Threads /\ "timer" \in Threads /\ "timeout" \in Handlers
  BY Alone DEF Handlers
<1>a. \A u \in Threads : u # t => th[u].at \in {"rest", "join", "gone"}
  BY <1>0, AloneFacts
<1>b. p_state' = "wait_msg" /\ ~Pending(tmr') /\ th'[t].at \notin Ending
  BY UntimedOf DEF Untimed, Pending, TimeoutPending, At
<1>r. /\ Pending(tmr) <=> Pending(Returned(tmr))
      /\ Pending(tmr) => Pending(AsyncWait(tmr, "infinite"))
  BY <1>0, PendingKept
<1>c. ASSUME p_state' = p_state, th[t].at \notin Ending,
             tmr' = tmr \/ tmr' = IF t = "timer" THEN Returned(tmr) ELSE tmr
      PROVE  Untimed
  BY <1>a, <1>b, <1>c, <1>r, UntimedOf
<1>d. p_state = "idle" /\ p_state' = p_state => FALSE
  BY <1>b
<1>1. CASE ReadState(t)
  BY <1>1, <1>c DEF ReadState
<1>2. CASE Hold(t)
  BY <1>0, <1>2, <1>c, EndInputFacts DEF Hold
<1>3. CASE Open(t)
  BY <1>3, <1>c DEF Open
<1>4. CASE SetWaitMsg(t)
  BY <1>0, <1>4, <1>b, GotoFacts DEF SetWaitMsg
<1>5. CASE StartTimerExpires(t)
  BY <1>0, <1>5, <1>b, GotoFacts DEF StartTimerExpires
<1>6. CASE StartTimerWait(t)
  <2>1. tmr.waits = <<>> /\ tmr.expiry = "finite"
    BY <1>0, <1>6 DEF StartTimerWait, LoneAt
  <2>2. /\ tmr'.waits # <<>> /\ Head(tmr'.waits) = "timeout" /\ tmr'.due = "finite"
    BY <1>0, <1>6, <2>1, AsyncWaitFacts DEF StartTimerWait
  <2> QED
    BY <1>b, <2>2 DEF Pending
<1>7. CASE AckOk(t)
  BY <1>0, <1>7, <1>c, EndInputFacts DEF AckOk
<1>8. CASE SetIdle(t)
  BY <1>8, <1>b DEF SetIdle
<1>9. CASE IdleTimerExpires(t)
  BY <1>0, <1>9, <1>d DEF IdleTimerExpires, LoneAt, IdleSteps, ThreadInv, Threads
<1>10. CASE IdleTimerWait(t)
  <2>1. CASE th[t].at = "idle_wait"
    BY <1>0, <1>10, <1>d, <2>1 DEF IdleTimerWait, LoneAt, IdleSteps
  <2>2. CASE th[t].at = "trg_wait"
    <3>1. t = "block" /\ p_state' = p_state
      BY <1>0, <1>10, <2>2 DEF IdleTimerWait, ThreadInv, Threads
    <3>2. tmr' = AsyncWait(tmr, "infinite")
      BY <1>0, <1>10, <2>2, <3>1, LeaveFacts DEF IdleTimerWait
    <3> QED
      BY <1>a, <1>b, <1>r, <2>2, <3>1, <3>2, UntimedOf
  <2> QED
    BY <1>10, <2>1, <2>2 DEF IdleTimerWait
<1>11. CASE CheckBuffer(t)
  BY <1>0, <1>11, <1>d DEF CheckBuffer, LoneAt, IdleSteps
<1>12. CASE ClearBuffer(t)
  BY <1>0, <1>12, <1>c, LeaveFacts DEF ClearBuffer
<1>13. CASE Timeout(t)
  BY <1>0, <1>13, <1>b, GotoFacts DEF Timeout
<1>14. CASE SatNok(t)
  BY <1>0, <1>14, <1>b, GotoFacts DEF SatNok
<1> QED
  BY <1>1, <1>2, <1>3, <1>4, <1>5, <1>6, <1>7, <1>8, <1>9, <1>10, <1>11,
     <1>12, <1>13, <1>14 DEF HandlerStep

LEMMA UntimedNext ==
  ASSUME AllInv, [Next]_vars, Apart, Untimed', th["block"].at # "trg_expires"
  PROVE  Untimed
<1> USE DEF Ending
<1>0. /\ TypeOK /\ tmr \in Timers(Handlers) /\ "block" \in Threads /\ "timer" \in Threads
  BY Alone
<1>r. /\ Pending(tmr) <=> Pending(Stop(tmr))
      /\ Pending(tmr) /\ tmr.waits # <<>> => Pending(Elapse(tmr))
      /\ /\ Pending(tmr) /\ Dispatchable(tmr)
         /\ ~(Head(tmr.ready).handler = "timeout" /\ Head(tmr.ready).ok)
         => Pending(Returned(Dispatched(tmr)))
  BY <1>0, PendingKept
<1>a. p_state' = "wait_msg" /\ ~Pending(tmr') /\ \A t \in Threads : th'[t].at \notin Ending
  BY UntimedOf DEF Untimed, Pending, TimeoutPending, At
<1>s. ASSUME p_state' = p_state, UNCHANGED th, Pending(tmr) => Pending(tmr')
      PROVE  Untimed
  BY <1>a, <1>s, UntimedOf
\* A thread begins a handler, or goes on with its destructor.
<1>b. ASSUME NEW t \in Threads, th[t].at \in {"rest", "join"},
             \A u \in Threads : u # t => th'[u] = th[u],
             p_state' = p_state, Pending(tmr) => Pending(tmr')
      PROVE  Untimed
  BY <1>a, <1>b, UntimedOf
<1>1. CASE \E t \in Threads : HandlerStep(t)
  BY <1>1, UntimedStep
<1>2. CASE InputCommand
  BY <1>0, <1>2, <1>b, EnterFacts DEF InputCommand, TakesMessage
<1>3. CASE InputRefused
  BY <1>3, <1>s DEF InputRefused
<1>4. CASE RxTrigger
  BY <1>0, <1>4, <1>b, GotoFacts DEF RxTrigger, TakesMessage
<1>5. CASE RxMessage
  BY <1>0, <1>5, <1>b, GotoFacts DEF RxMessage, TakesMessage
<1>6. CASE TimerElapses
  BY <1>6, <1>r, <1>s DEF TimerElapses, Elapsable
<1>7. CASE RunCompletion
  <2>1. CASE Goto("timer", "timeout")
    <3>1. th'["timer"].at = "timeout"
      BY <1>0, <2>1, GotoFacts
    <3> QED
      BY <1>0, <1>a, <3>1
  <2>2. CASE ~Goto("timer", "timeout")
    BY <1>7, <1>r, <1>s, <2>2 DEF RunCompletion
  <2> QED
    BY <2>1, <2>2
<1>8. CASE Destroy
  BY <1>0, <1>8, <1>b, <1>r, GotoFacts DEF Destroy
<1>9. CASE Join
  BY <1>0, <1>9, <1>b, GotoFacts DEF Join
<1>10. CASE UNCHANGED vars
  BY <1>10, <1>s DEF vars
<1> QED
  BY <1>1, <1>2, <1>3, <1>4, <1>5, <1>6, <1>7, <1>8, <1>9, <1>10
  DEF Next, Receive, RunTimer, Destruct, Destroyed

\* Of the handlers that run alone only that of a trigger takes the deadline of an
\* open session away: all others replace it or end the session.
THEOREM SessionTimed == Spec => UntimedByTrigger
<1>1. AllInv /\ [Next]_vars =>
        [Apart /\ Untimed' => Untimed \/ th["block"].at = "trg_expires"]_vars
  BY UntimedNext
<1> QED
  BY <1>1, LoneCorrect, PTL DEF Spec, UntimedByTrigger

------------------------------------------------------------------------------
(* As long as handlers never overlapped                                     *)

LEMMA NeverFacts ==
  ASSUME AllInv, [Next]_vars, overlap' = "never"
  PROVE  overlap = "never" /\ Apart /\ Exclusive'
<1>1. Watch \/ UNCHANGED vars
  BY DEF Next, HandlerStep, Receive, RunTimer, Destruct, Destroyed
<1>2. overlap = "never"
  BY <1>1 DEF Watch, vars
<1> QED
  BY <1>2, WatchFacts DEF AllInv, Apart, Together

\* The number of telecommands changes only when one arrives.
LEMMA ArrivedFacts ==
  ASSUME TypeOK, [Next]_vars
  PROVE  \/ arrived' = arrived
         \/ InputCommand
<1>1. ASSUME NEW t \in Threads, HandlerStep(t) PROVE arrived' = arrived
  BY <1>1, StepData
<1> QED
  BY <1>1 DEF Next, Receive, InputRefused, RxTrigger, RxMessage, RunTimer, TimerElapses,
              RunCompletion, Destruct, Destroy, Join, Destroyed, vars

LEMMA OrderlyNext ==
  ASSUME AllInv, OrderlyInv, [Next]_vars
  PROVE  OrderlyInv'
<1> SUFFICES ASSUME overlap' = "never" PROVE (~Stranded /\ NothingLost)'
  BY DEF OrderlyInv
<1>0. TypeOK /\ ~Stranded /\ NothingLost /\ Apart
  BY NeverFacts DEF OrderlyInv, AllInv
<1>1. ~Stranded'
  BY <1>0, StrandedNext
<1>2. \A c \in 1..arrived : Kept(c)'
  BY <1>0, KeptNext DEF NothingLost
<1>3. CASE arrived' = arrived
  BY <1>1, <1>2, <1>3 DEF NothingLost
<1>4. CASE InputCommand
  <2>1. arrived' = arrived + 1 /\ arrived \in Nat
    BY <1>0, <1>4, BoundsAssumption DEF InputCommand, TypeOK, Ids
  <2>2. \A c \in 1..(arrived + 1) : c \in 1..arrived \/ c = arrived + 1
    BY <2>1
  <2>3. th'["block"] = [at |-> "input", msg |-> arrived + 1, nested |-> FALSE]
    <3>1. th' = [th EXCEPT !["block"] = [at |-> "input", msg |-> arrived + 1, nested |-> FALSE]]
      BY <1>4 DEF InputCommand
    <3> QED
      BY <1>0, <3>1, EnterFacts DEF Threads
  <2>4. "block" \in Threads /\ th'["block"].at = "input" /\ th'["block"].msg = arrived + 1
    BY <2>3 DEF Threads
  <2>5. \A c : c = arrived + 1 => Kept(c)'
    BY <2>4 DEF Kept, InProgress
  <2> QED
    BY <1>1, <1>2, <2>1, <2>2, <2>5 DEF NothingLost
<1> QED
  BY <1>0, <1>3, <1>4, ArrivedFacts

------------------------------------------------------------------------------
(* The saved header, in every interleaving                                  *)

\* Each reply counts for the command whose header was saved.
LEMMA PublishFacts ==
  ASSUME TypeOK, NEW k \in ReplyKinds, Publish(k)
  PROVE  /\ Oks' = IF k = "tnc_ok" THEN [Oks EXCEPT ![g] = @ + 1] ELSE Oks
         /\ Misses' = IF k = "sat_nok" THEN [Misses EXCEPT ![g] = @ + 1] ELSE Misses
<1>1. /\ replies \in [Ids -> [ReplyKinds -> Nat]] /\ g \in Ids
      /\ replies' = [replies EXCEPT ![g][k] = @ + 1]
  BY DEF TypeOK, Publish
<1>2. Cmds \subseteq Ids
  BY BoundsAssumption DEF Cmds, Ids
<1>3. \A c \in Ids, j \in ReplyKinds :
         replies'[c][j] = IF c = g /\ j = k THEN replies[c][j] + 1 ELSE replies[c][j]
  BY <1>1
<1>4. "tnc_ok" \in ReplyKinds /\ "sat_nok" \in ReplyKinds
  BY DEF ReplyKinds
<1> QED
  BY <1>2, <1>3, <1>4 DEF Oks, Misses

\* What a step does to the data of the service: nothing, or one of these.
ServiceData ==
  \/ UNCHANGED <<arrived, dropped, sent, g, Oks, Misses>>
  \/ InputCommand /\ UNCHANGED <<dropped, sent, g, Oks, Misses>>
  \/ \E t \in Threads :
       \/ /\ Hold(t) /\ buf.waiting /\ dropped' = dropped \cup {buf.msg}
          /\ UNCHANGED <<arrived, sent, g, Oks, Misses>>
       \/ Open(t) /\ UNCHANGED <<arrived, dropped, Oks, Misses>>
       \/ /\ AckOk(t) /\ Oks' = [Oks EXCEPT ![g] = @ + 1]
          /\ UNCHANGED <<arrived, dropped, sent, g, Misses>>
       \/ /\ SatNok(t) /\ Misses' = [Misses EXCEPT ![g] = @ + 1]
          /\ UNCHANGED <<arrived, dropped, sent, g, Oks>>

LEMMA ServiceFacts == ASSUME TypeOK, [Next]_vars PROVE ServiceData
<1>r. replies' = replies => Oks' = Oks /\ Misses' = Misses
  BY DEF Oks, Misses
<1>1. ASSUME NEW t \in Threads, Hold(t) PROVE ServiceData
  BY <1>1, <1>r DEF Hold, ServiceData
<1>2. ASSUME NEW t \in Threads, Open(t) PROVE ServiceData
  BY <1>2, <1>r DEF Open, ServiceData
<1>3. ASSUME NEW t \in Threads, AckOk(t) PROVE ServiceData
  <2>1. Oks' = [Oks EXCEPT ![g] = @ + 1] /\ Misses' = Misses
    BY <1>3, PublishFacts DEF AckOk, ReplyKinds
  <2> QED
    BY <1>3, <2>1 DEF AckOk, ServiceData
<1>4. ASSUME NEW t \in Threads, SatNok(t) PROVE ServiceData
  <2>1. Misses' = [Misses EXCEPT ![g] = @ + 1] /\ Oks' = Oks
    BY <1>4, PublishFacts DEF SatNok, ReplyKinds
  <2> QED
    BY <1>4, <2>1 DEF SatNok, ServiceData
<1>5. CASE InputCommand
  BY <1>5, <1>r DEF InputCommand, ServiceData
<1>6. CASE InputRefused
  <2>1. Oks' = Oks /\ Misses' = Misses
    BY <1>6, <1>r, PublishFacts DEF InputRefused, ReplyKinds
  <2> QED
    BY <1>6, <2>1 DEF InputRefused, ServiceData
<1>7. ASSUME UNCHANGED <<arrived, dropped, sent, g, replies>> PROVE ServiceData
  BY <1>7, <1>r DEF ServiceData
<1> QED
  BY <1>1, <1>2, <1>3, <1>4, <1>5, <1>6, <1>7
  DEF Next, HandlerStep, ReadState, SetWaitMsg, StartTimerExpires, StartTimerWait, SetIdle,
      IdleTimerExpires, IdleTimerWait, CheckBuffer, ClearBuffer, Timeout, Receive, RxTrigger,
      RxMessage, RunTimer, TimerElapses, RunCompletion, Destruct, Destroy, Join, Destroyed, vars

\* Where a session is opened, waited for, or about to be reported missed.
Waits == OpeningSteps \cup {"sat_nok"}

LEMMA WaitsStep ==
  ASSUME TypeOK, NEW t \in Threads, HandlerStep(t), ~Open(t)
  PROVE  /\ p_state' = "wait_msg" => p_state = "wait_msg" \/ th[t].at \in Waits
         /\ th'[t].at \in Waits => p_state = "wait_msg" \/ th[t].at \in Waits
<1> USE DEF Waits, OpeningSteps
<1>1. CASE ReadState(t)
  BY <1>1, GotoFacts DEF ReadState
<1>2. CASE Hold(t)
  BY <1>2, EndInputFacts DEF Hold, Resting
<1>4. CASE SetWaitMsg(t)
  BY <1>4 DEF SetWaitMsg
<1>5. CASE StartTimerExpires(t)
  BY <1>5 DEF StartTimerExpires
<1>6. CASE StartTimerWait(t)
  BY <1>6 DEF StartTimerWait
<1>7. CASE AckOk(t)
  BY <1>7 DEF AckOk
<1>8. CASE SetIdle(t)
  BY <1>8, GotoFacts DEF SetIdle
<1>9. CASE IdleTimerExpires(t)
  BY <1>9, GotoFacts DEF IdleTimerExpires
<1>10. CASE IdleTimerWait(t)
  BY <1>10, GotoFacts, LeaveFacts DEF IdleTimerWait, Resting
<1>11. CASE CheckBuffer(t)
  <2>1. th'[t].at \in {"input", "rest"}
    BY <1>11, EnterFacts, LeaveFacts DEF CheckBuffer, Resting
  <2> QED
    BY <1>11, <2>1 DEF CheckBuffer
<1>12. CASE ClearBuffer(t)
  BY <1>12, LeaveFacts DEF ClearBuffer, Resting
<1>13. CASE Timeout(t)
  BY <1>13, GotoFacts DEF Timeout
<1>14. CASE SatNok(t)
  BY <1>14 DEF SatNok
<1> QED
  BY <1>1, <1>2, <1>4, <1>5, <1>6, <1>7, <1>8, <1>9, <1>10, <1>11,
     <1>12, <1>13, <1>14 DEF HandlerStep

\* No other step than Open begins to wait.
LEMMA WaitsNext ==
  ASSUME TypeOK, [Next]_vars, \A t \in Threads : ~Open(t),
         p_state' = "wait_msg" \/ At(Waits)'
  PROVE  p_state = "wait_msg" \/ At(Waits)
<1> USE DEF Waits, OpeningSteps
<1>0. "block" \in Threads /\ "timer" \in Threads
  BY DEF Threads
<1>1. ASSUME NEW t \in Threads, HandlerStep(t)
      PROVE  p_state = "wait_msg" \/ At(Waits)
  <2>1. \A u \in Threads : u # t => th'[u] = th[u]
    BY <1>1, StepFacts
  <2> QED
    BY <1>1, <2>1, WaitsStep DEF At
\* A thread begins a handler, or goes on with its destructor.
<1>b. ASSUME NEW t \in Threads, NEW l, th'[t].at = l, l \notin Waits,
             \A u \in Threads : u # t => th'[u] = th[u], p_state' = p_state
      PROVE  p_state = "wait_msg" \/ At(Waits)
  BY <1>b DEF At
<1>s. ASSUME UNCHANGED <<th, p_state>>
      PROVE  p_state = "wait_msg" \/ At(Waits)
  BY <1>s DEF At
<1>2. CASE InputCommand
  <2>1. /\ th'["block"] = [at |-> "input", msg |-> arrived + 1, nested |-> FALSE]
        /\ \A u \in Threads : u # "block" => th'[u] = th[u]
    BY <1>0, <1>2, EnterFacts DEF InputCommand
  <2>2. th'["block"].at = "input"
    BY <2>1
  <2> QED
    BY <1>0, <1>2, <1>b, <2>1, <2>2 DEF InputCommand
<1>3. CASE InputRefused
  BY <1>3, <1>s DEF InputRefused
<1>4. CASE RxTrigger
  BY <1>0, <1>4, <1>b, GotoFacts DEF RxTrigger
<1>5. CASE RxMessage
  BY <1>0, <1>5, <1>b, GotoFacts DEF RxMessage
<1>6. CASE TimerElapses
  BY <1>6, <1>s DEF TimerElapses
<1>7. CASE RunCompletion
  <2>1. th' = th \/ Goto("timer", "timeout")
    BY <1>7 DEF RunCompletion
  <2> QED
    BY <1>0, <1>7, <1>b, <1>s, <2>1, GotoFacts DEF RunCompletion
<1>8. CASE Destroy
  BY <1>0, <1>8, <1>b, GotoFacts DEF Destroy
<1>9. CASE Join
  BY <1>0, <1>9, <1>b, GotoFacts DEF Join
<1>10. CASE UNCHANGED vars
  BY <1>10, <1>s DEF vars
<1> QED
  BY <1>1, <1>2, <1>3, <1>4, <1>5, <1>6, <1>7, <1>8, <1>9, <1>10
  DEF Next, Receive, RunTimer, Destruct, Destroyed

LEMMA HeaderNext ==
  ASSUME AllInv, HeaderInv, [Next]_vars
  PROVE  HeaderInv'
<1>0. /\ TypeOK /\ ThreadInv /\ sent \in [Cmds -> Nat] /\ g \in Ids
      /\ Oks \in [Cmds -> Nat] /\ Misses \in [Cmds -> Nat]
  <2>1. Cmds \subseteq Ids
    BY BoundsAssumption DEF Ids, Cmds
  <2> QED
    BY <2>1 DEF AllInv, TypeOK, Oks, Misses, ReplyKinds
<1>h. /\ p_state = "wait_msg" \/ At(Waits) => g \in Cmds
      /\ g \in Cmds => sent[g] > 0
      /\ \A c \in Cmds : sent[c] = 0 => Oks[c] = 0 /\ Misses[c] = 0
  BY DEF HeaderInv, Waits
<1> SUFFICES /\ p_state' = "wait_msg" \/ At(Waits)' => g' \in Cmds
             /\ g' \in Cmds => sent'[g'] > 0
             /\ \A c \in Cmds : sent'[c] = 0 => Oks'[c] = 0 /\ Misses'[c] = 0
  BY DEF HeaderInv, Waits, At
<1>1. ASSUME NEW t \in Threads, Open(t), UNCHANGED <<arrived, dropped, Oks, Misses>>
      PROVE  /\ g' \in Cmds /\ sent'[g'] > 0
             /\ \A c \in Cmds : sent'[c] = 0 => Oks'[c] = 0 /\ Misses'[c] = 0
  <2>1. th[t].msg \in Cmds /\ g' = th[t].msg
    BY <1>0, <1>1 DEF Open, ThreadInv, InputSteps
  <2>2. PICK m \in Cmds : m = th[t].msg
    BY <2>1
  <2>3. sent' = [sent EXCEPT ![m] = @ + 1]
    BY <1>1, <2>2 DEF Open
  <2>4. sent'[m] > 0 /\ \A c \in Cmds : c # m => sent'[c] = sent[c]
    BY <1>0, <2>3
  <2> QED
    BY <1>0, <1>1, <1>h, <2>1, <2>2, <2>4
<1>2. ASSUME \A t \in Threads : ~Open(t), g' = g
      PROVE  p_state' = "wait_msg" \/ At(Waits)' => g' \in Cmds
  BY <1>0, <1>2, <1>h, WaitsNext
<1>3. CASE \E t \in Threads : Open(t)
  <2>1. PICK t \in Threads : Open(t)
    BY <1>3
  <2>2. UNCHANGED <<arrived, dropped, Oks, Misses>>
    BY <2>1 DEF Open, Oks, Misses
  <2> QED
    BY <1>1, <2>1, <2>2
<1>4. CASE \A t \in Threads : ~Open(t)
  <2>1. g' = g /\ sent' = sent
    BY <1>0, <1>4, ServiceFacts DEF ServiceData
  <2>2. Oks' = Oks \/ (g \in Cmds /\ Oks' = [Oks EXCEPT ![g] = @ + 1])
    <3>1. ASSUME NEW t \in Threads, AckOk(t) PROVE g \in Cmds
      BY <1>h, <3>1 DEF AckOk, At, Waits, OpeningSteps
    <3> QED
      BY <1>0, <1>4, <3>1, ServiceFacts DEF ServiceData
  <2>3. Misses' = Misses \/ (g \in Cmds /\ Misses' = [Misses EXCEPT ![g] = @ + 1])
    <3>1. ASSUME NEW t \in Threads, SatNok(t) PROVE g \in Cmds
      BY <1>h, <3>1 DEF SatNok, At, Waits
    <3> QED
      BY <1>0, <1>4, <3>1, ServiceFacts DEF ServiceData
  <2>4. \A c \in Cmds : c # g => Oks'[c] = Oks[c] /\ Misses'[c] = Misses[c]
    BY <1>0, <2>2, <2>3
  <2>5. \A c \in Cmds : sent[c] = 0 => Oks'[c] = 0 /\ Misses'[c] = 0
    <3>1. \A c \in Cmds : sent[c] = 0 => c # g
      BY <1>h
    <3> QED
      BY <1>h, <2>4, <3>1
  <2> QED
    BY <1>2, <1>4, <1>h, <2>1, <2>5
<1> QED
  BY <1>3, <1>4

------------------------------------------------------------------------------
(* The block implements CommandService                                      *)

Outside == {"rest", "join", "gone"}

\* What becomes of commands and sessions, if handlers never overlapped and the one
\* activity in progress is a.
BufferAt(a, p, b, s, n, d) ==
  /\ b.waiting => b.msg \in Cmds
  /\ b.waiting /\ p = "idle" => a.at \in IdleSteps \/ a.nested
  /\ a.nested => /\ b.waiting /\ a.msg = b.msg
                 /\ a.at \in {"input", "open"} \cup SentSteps
                 /\ a.at = "input" => p = "idle"
  /\ a.at = "clear_buf" => a.nested
  /\ a.at \in IdleSteps => p = "idle"
  /\ a.at \in InputSteps => a.msg \in Cmds
  /\ a.at = "hold" => p = "wait_msg"
  /\ a.at \in SentSteps => a.msg \in Cmds /\ s[a.msg] > 0
  /\ \A c \in 1..n : \/ s[c] > 0
                     \/ c \in d
                     \/ b.waiting /\ b.msg = c
                     \/ a.msg = c /\ a.at \in InputSteps

\* The command c is one the service has waiting.
Unsent(c, s, n, d) == c \in 1..n /\ s[c] = 0 /\ c \notin d

ServiceAt(a, p, b, h, s, ok, miss, n, d) ==
  /\ \A c \in Cmds : c > n => s[c] = 0 /\ c \notin d
  /\ b.waiting => Unsent(b.msg, s, n, d) \/ (a.nested /\ a.at \in SentSteps)
  /\ a.at \in InputSteps =>
       Unsent(a.msg, s, n, d) /\ (b.waiting /\ ~a.nested => b.msg < a.msg)
  /\ \A c \in Cmds : s[c] = 0 => ok[c] = 0 /\ miss[c] = 0
  /\ a.at = "open" => p = "idle"
  /\ a.at \in {"start_expires", "start_wait", "ack", "sat_nok"} => p = "wait_msg"
  /\ p = "wait_msg" \/ a.at = "set_wait" =>
       /\ h \in Cmds /\ s[h] > 0
       /\ ok[h] = IF a.at \in OpeningSteps THEN 0 ELSE 1
       /\ a.at = "set_idle" \/ miss[h] = 0

LEMMA BufferOf ==
  ASSUME AllInv, OrderlyInv, overlap = "never", NEW t \in Threads,
         \A u \in Threads : u # t => th[u].at \in Outside /\ ~th[u].nested
  PROVE  BufferAt(th[t], p_state, buf, sent, arrived, dropped)
<1> USE DEF Outside, IdleSteps, InputSteps, SentSteps, OpeningSteps
<1>1. /\ ThreadInv /\ LoneAt(t) /\ sent \in [Cmds -> Nat] /\ ~Stranded /\ NothingLost
      /\ \A u \in Threads : th[u].msg \in Ids
  BY DEF AllInv, LoneInv, Together, TypeOK, OrderlyInv, Activities
<1>2. \A c \in 1..arrived : \/ sent[c] > 0
                            \/ c \in dropped
                            \/ buf.waiting /\ buf.msg = c
                            \/ th[t].msg = c /\ th[t].at \in InputSteps
  BY <1>1 DEF NothingLost, Kept, InProgress
<1>3. buf.waiting /\ p_state = "idle" => th[t].at \in IdleSteps \/ th[t].nested
  BY <1>1 DEF Stranded
<1>4. th[t].at \in SentSteps => th[t].msg \in Cmds /\ sent[th[t].msg] > 0
  <2>1. th[t].at \in SentSteps => th[t].msg \in Cmds
    BY <1>1 DEF ThreadInv
  <2>2. th[t].at \in OpeningSteps => sent[th[t].msg] > 0
    BY <1>1 DEF ThreadInv
  <2>3. th[t].at = "clear_buf" => sent[th[t].msg] # 0
    BY <1>1 DEF ThreadInv, LoneAt
  <2>4. th[t].msg \in Cmds => sent[th[t].msg] \in Nat
    BY <1>1
  <2>5. \A n \in Nat : n # 0 => n > 0
    OBVIOUS
  <2> QED
    BY <2>1, <2>2, <2>3, <2>4, <2>5
<1> QED
  BY <1>1, <1>2, <1>3, <1>4 DEF BufferAt, ThreadInv, LoneAt

LEMMA ServiceOf ==
  ASSUME AllInv, HeaderInv, ServiceInv, overlap = "never", NEW t \in Threads,
         \A u \in Threads : u # t => th[u].at \in Outside /\ ~th[u].nested
  PROVE  ServiceAt(th[t], p_state, buf, g, sent, Oks, Misses, arrived, dropped)
<1> USE DEF Outside, InputSteps, SentSteps, OpeningSteps
<1>0. FreshInv /\ LoneAt(t)
  BY DEF AllInv, LoneInv, Together
<1>1. \A c : c \in Service!Waiting <=> Unsent(c, sent, arrived, dropped)
  BY DEF Service!Waiting, Unsent
<1>2. /\ \A c \in Cmds : c > arrived => sent[c] = 0 /\ c \notin dropped
      /\ buf.waiting => Unsent(buf.msg, sent, arrived, dropped) \/ (th[t].nested /\ th[t].at \in SentSteps)
      /\ th[t].at \in InputSteps =>
           /\ Unsent(th[t].msg, sent, arrived, dropped)
           /\ buf.waiting /\ ~th[t].nested => buf.msg < th[t].msg
  BY <1>0, <1>1 DEF ServiceInv, FreshInv
<1>3. /\ At({"set_wait"}) <=> th[t].at = "set_wait"
      /\ At({"set_idle"}) <=> th[t].at = "set_idle"
      /\ At({"sat_nok"}) <=> th[t].at = "sat_nok"
      /\ At(OpeningSteps) <=> th[t].at \in OpeningSteps
      /\ At(OpeningSteps \cup {"sat_nok"}) <=> th[t].at \in OpeningSteps \cup {"sat_nok"}
  BY DEF At
<1>4. /\ p_state = "wait_msg" \/ th[t].at = "set_wait" => g \in Cmds /\ sent[g] > 0
      /\ \A c \in Cmds : sent[c] = 0 => Oks[c] = 0 /\ Misses[c] = 0
  BY <1>3 DEF HeaderInv
<1>5. /\ th[t].at = "sat_nok" => p_state = "wait_msg"
      /\ p_state = "wait_msg" \/ th[t].at = "set_wait" =>
           /\ Oks[g] = IF th[t].at \in OpeningSteps THEN 0 ELSE 1
           /\ th[t].at = "set_idle" \/ Misses[g] = 0
  BY <1>3 DEF ServiceInv
<1> QED
  BY <1>0, <1>2, <1>4, <1>5 DEF ServiceAt, LoneAt

\* And back, once a step was taken.
LEMMA ServiceFrom ==
  ASSUME NEW t \in Threads,
         \A u \in Threads : u # t => th'[u].at \in Outside /\ ~th'[u].nested,
         ServiceAt(th'[t], p_state', buf', g', sent', Oks', Misses', arrived', dropped')
  PROVE  ServiceInv'
<1> USE DEF Outside, InputSteps, SentSteps, OpeningSteps
<1>1. \A c : c \in Service!Waiting' <=> Unsent(c, sent', arrived', dropped')
  BY DEF Service!Waiting, Unsent
<1>2. /\ buf'.waiting => \/ buf'.msg \in Service!Waiting'
                         \/ \E u \in Threads : th'[u].nested /\ th'[u].at \in SentSteps
      /\ \A u \in Threads :
           th'[u].at \in InputSteps =>
             /\ th'[u].msg \in Service!Waiting'
             /\ buf'.waiting /\ ~th'[u].nested => buf'.msg < th'[u].msg
  BY <1>1 DEF ServiceAt
<1>3. /\ At({"set_wait"})' <=> th'[t].at = "set_wait"
      /\ At({"set_idle"})' <=> th'[t].at = "set_idle"
      /\ At({"sat_nok"})' <=> th'[t].at = "sat_nok"
      /\ At(OpeningSteps)' <=> th'[t].at \in OpeningSteps
  BY DEF At
<1>4. /\ At({"sat_nok"})' => p_state' = "wait_msg"
      /\ p_state' = "wait_msg" \/ At({"set_wait"})' =>
           /\ Oks'[g'] = IF At(OpeningSteps)' THEN 0 ELSE 1
           /\ At({"set_idle"})' \/ Misses'[g'] = 0
  BY <1>3 DEF ServiceAt
<1> QED
  BY <1>2, <1>4 DEF ServiceInv

\* A handler step keeps ServiceInv.
LEMMA ServiceStep ==
  ASSUME AllInv, OrderlyInv, HeaderInv, ServiceInv, [Next]_vars, overlap' = "never",
         NEW t \in Threads, HandlerStep(t)
  PROVE  ServiceInv'
<1> USE DEF Outside, IdleSteps, InputSteps, SentSteps, OpeningSteps
<1>0. /\ arrived \in Nat /\ sent \in [Cmds -> Nat] /\ g \in Ids
      /\ p_state \in {"idle", "wait_msg"} /\ buf \in [msg : Ids, waiting : BOOLEAN]
      /\ Oks \in [Cmds -> Nat] /\ Misses \in [Cmds -> Nat] /\ Cmds \subseteq Nat /\ 1..arrived \subseteq Cmds
  <2>1. arrived \in Nat /\ 1..arrived \subseteq Cmds /\ Cmds \subseteq Ids /\ Cmds \subseteq Nat
    BY BoundsAssumption DEF AllInv, TypeOK, Ids, Cmds
  <2> QED
    BY <2>1 DEF AllInv, TypeOK, Oks, Misses, ReplyKinds
<1>t. TypeOK /\ ThreadInv /\ Exclusive /\ overlap = "never"
  BY NeverFacts, Alone DEF AllInv
<1>a. \A u \in Threads : u # t => /\ th[u].at \in Outside /\ ~th[u].nested
                                  /\ th'[u] = th[u]
  BY <1>t, AloneFacts
<1>b. /\ BufferAt(th[t], p_state, buf, sent, arrived, dropped)
      /\ ServiceAt(th[t], p_state, buf, g, sent, Oks, Misses, arrived, dropped)
  BY <1>a, <1>t, BufferOf, ServiceOf
<1>c. ServiceAt(th[t], p_state, buf, g, sent, Oks, Misses, arrived, dropped)
  BY <1>b
<1> SUFFICES ServiceAt(th'[t], p_state', buf', g', sent', Oks', Misses', arrived', dropped')
  BY <1>a, ServiceFrom
<1>r. replies' = replies => Oks' = Oks /\ Misses' = Misses
  BY DEF Oks, Misses
<1>1. CASE ReadState(t)
  BY <1>0, <1>1, <1>b, <1>c, <1>r, <1>t, GotoFacts DEF ReadState, BufferAt, ServiceAt
<1>2. CASE Hold(t)
  <2>1. th[t].at = "hold" /\ p_state = "wait_msg" /\ ~th[t].nested
    BY <1>2, <1>b DEF Hold, BufferAt
  <2>2. th'[t] = Resting
    BY <1>2, <2>1, <1>t, EndInputFacts DEF Hold
  <2> QED
    BY <1>0, <1>2, <1>c, <1>r, <2>1, <2>2 DEF Hold, ServiceAt, Resting, Unsent
<1>3. CASE Open(t)
  <2>1. th[t].msg \in Cmds /\ sent' = [sent EXCEPT ![th[t].msg] = @ + 1]
    BY <1>3, <1>b DEF Open, BufferAt
  <2>2. sent'[th[t].msg] > 0 /\ \A c \in Cmds : c # th[t].msg => sent'[c] = sent[c]
    <3>1. PICK m \in Cmds : m = th[t].msg
      BY <2>1
    <3>2. sent' = [sent EXCEPT ![m] = @ + 1] /\ sent \in [Cmds -> Nat]
      BY <1>0, <2>1, <3>1
    <3>3. sent'[m] > 0 /\ \A c \in Cmds : c # m => sent'[c] = sent[c]
      BY <3>2
    <3> QED
      BY <3>1, <3>3
  <2> QED
    BY <1>0, <1>3, <1>b, <1>c, <1>r, <2>1, <2>2, <1>t, GotoFacts DEF Open, BufferAt, ServiceAt, Unsent
<1>4. CASE SetWaitMsg(t)
  BY <1>4, <1>c, <1>r, <1>t, GotoFacts DEF SetWaitMsg, ServiceAt
<1>5. CASE StartTimerExpires(t)
  BY <1>5, <1>c, <1>r, <1>t, GotoFacts DEF StartTimerExpires, ServiceAt
<1>6. CASE StartTimerWait(t)
  BY <1>6, <1>c, <1>r, <1>t, GotoFacts DEF StartTimerWait, ServiceAt
<1>7. CASE AckOk(t)
  <2>1. /\ Oks' = [Oks EXCEPT ![g] = @ + 1] /\ Misses' = Misses
    BY <1>7, <1>t, PublishFacts DEF AckOk, ReplyKinds
  <2>2. g \in Cmds /\ Oks[g] = 0 /\ sent[g] > 0 /\ p_state = "wait_msg"
    BY <1>7, <1>c DEF AckOk, ServiceAt
  <2>3. Oks'[g] = 1 /\ \A c \in Cmds : c # g => Oks'[c] = Oks[c]
    BY <1>0, <2>1, <2>2
  <2>4. \/ th'[t].at = "clear_buf" /\ th'[t].nested /\ th'[t].msg = th[t].msg
        \/ th'[t] = Resting /\ ~th[t].nested
    BY <1>7, <1>t, EndInputFacts DEF AckOk
  <2> QED
    BY <1>0, <1>7, <1>c, <2>1, <2>2, <2>3, <2>4 DEF AckOk, ServiceAt, Resting
<1>8. CASE SetIdle(t)
  BY <1>8, <1>b, <1>c, <1>r, <1>t, GotoFacts DEF SetIdle, BufferAt, ServiceAt
<1>9. CASE IdleTimerExpires(t)
  BY <1>9, <1>b, <1>c, <1>r, <1>t, GotoFacts DEF IdleTimerExpires, BufferAt, ServiceAt
<1>10. CASE IdleTimerWait(t)
  BY <1>10, <1>b, <1>c, <1>r, <1>t, GotoFacts, LeaveFacts DEF IdleTimerWait, BufferAt, ServiceAt, Resting
<1>11. CASE CheckBuffer(t)
  <2>1. CASE buf.waiting
    <3>1. th'[t] = [at |-> "input", msg |-> buf.msg, nested |-> TRUE]
      BY <1>11, <2>1, <1>t, EnterFacts DEF CheckBuffer
    <3> QED
      BY <1>11, <1>b, <1>c, <1>r, <2>1, <3>1 DEF CheckBuffer, BufferAt, ServiceAt
  <2>2. CASE ~buf.waiting
    <3>1. th'[t] = Resting
      BY <1>11, <2>2, <1>t, LeaveFacts DEF CheckBuffer
    <3> QED
      BY <1>11, <1>b, <1>c, <1>r, <2>2, <3>1 DEF CheckBuffer, BufferAt, ServiceAt, Resting
  <2> QED
    BY <2>1, <2>2
<1>12. CASE ClearBuffer(t)
  <2>1. th'[t] = Resting
    BY <1>12, <1>t, LeaveFacts DEF ClearBuffer
  <2> QED
    BY <1>0, <1>12, <1>b, <1>c, <1>r, <2>1 DEF ClearBuffer, BufferAt, ServiceAt, Resting
<1>13. CASE Timeout(t)
  BY <1>0, <1>13, <1>b, <1>c, <1>r, <1>t, GotoFacts DEF Timeout, BufferAt, ServiceAt
<1>14. CASE SatNok(t)
  <2>1. /\ Misses' = [Misses EXCEPT ![g] = @ + 1] /\ Oks' = Oks
    BY <1>14, <1>t, PublishFacts DEF SatNok, ReplyKinds
  <2>2. g \in Cmds /\ sent[g] > 0 /\ p_state = "wait_msg"
    BY <1>14, <1>c DEF SatNok, ServiceAt
  <2>3. \A c \in Cmds : c # g => Misses'[c] = Misses[c]
    BY <1>0, <2>1, <2>2
  <2> QED
    BY <1>0, <1>14, <1>b, <1>c, <2>1, <2>2, <2>3, <1>t, GotoFacts DEF SatNok, BufferAt, ServiceAt
<1> QED
  BY <1>1, <1>2, <1>3, <1>4, <1>5, <1>6, <1>7, <1>8, <1>9, <1>10, <1>11,
     <1>12, <1>13, <1>14 DEF HandlerStep

------------------------------------------------------------------------------
(* Each step is one of the service, or none                                 *)

\* The session, if only one thread is in a handler, its activity being a.
SessionAt(a, p, h) == IF p = "wait_msg" \/ a.at = "set_wait" THEN h ELSE 0

LEMMA MapsStep ==
  ASSUME AllInv, OrderlyInv, HeaderInv, ServiceInv, [Next]_vars, overlap' = "never",
         NEW t \in Threads, HandlerStep(t)
  PROVE  [Service!Next]_Service!vars
<1> USE DEF Outside, IdleSteps, InputSteps, SentSteps, OpeningSteps
<1>0. /\ arrived \in Nat /\ sent \in [Cmds -> Nat] /\ g \in Ids
      /\ p_state \in {"idle", "wait_msg"} /\ buf \in [msg : Ids, waiting : BOOLEAN]
      /\ Oks \in [Cmds -> Nat] /\ Misses \in [Cmds -> Nat] /\ Cmds \subseteq Nat /\ 1..arrived \subseteq Cmds
      /\ 0 \notin Cmds
  <2>1. arrived \in Nat /\ 1..arrived \subseteq Cmds /\ Cmds \subseteq Ids /\ Cmds \subseteq Nat /\ 0 \notin Cmds
    BY BoundsAssumption DEF AllInv, TypeOK, Ids, Cmds
  <2> QED
    BY <2>1 DEF AllInv, TypeOK, Oks, Misses, ReplyKinds
<1>t. TypeOK /\ ThreadInv /\ Exclusive /\ overlap = "never"
  BY NeverFacts, Alone DEF AllInv
<1>d. ~(overlap # "never") /\ ~(overlap # "never")'
  BY <1>t
<1>a. \A u \in Threads : u # t => /\ th[u].at \in Outside /\ ~th[u].nested
                                  /\ th'[u] = th[u]
  BY <1>t, AloneFacts
<1>b. BufferAt(th[t], p_state, buf, sent, arrived, dropped)
  BY <1>a, <1>t, BufferOf
<1>c. ServiceAt(th[t], p_state, buf, g, sent, Oks, Misses, arrived, dropped)
  BY <1>a, <1>t, ServiceOf
<1>w. Service!Waiting = {c \in 1..arrived : sent[c] = 0 /\ c \notin dropped}
  BY DEF Service!Waiting
<1>s. /\ CurrentSession = SessionAt(th[t], p_state, g)
      /\ CurrentSession' = SessionAt(th'[t], p_state', g')
  BY <1>a DEF CurrentSession, SessionAt, At
<1>r. replies' = replies => Oks' = Oks /\ Misses' = Misses
  BY DEF Oks, Misses
\* The steps the service does not see.
<1>u. ASSUME arrived' = arrived, dropped' = dropped, sent' = sent, Oks' = Oks, Misses' = Misses,
             SessionAt(th'[t], p_state', g') = SessionAt(th[t], p_state, g)
      PROVE  [Service!Next]_Service!vars
  BY <1>d, <1>s, <1>u DEF Service!vars
<1>1. CASE ReadState(t)
  BY <1>1, <1>r, <1>u, <1>t, GotoFacts DEF ReadState, SessionAt
<1>2. CASE Hold(t)
  <2>1. th[t].at = "hold" /\ p_state = "wait_msg" /\ ~th[t].nested
    BY <1>2, <1>b DEF Hold, BufferAt
  <2>2. th'[t] = Resting
    BY <1>2, <2>1, <1>t, EndInputFacts DEF Hold
  <2>3. SessionAt(th'[t], p_state', g') = SessionAt(th[t], p_state, g)
    BY <1>2, <2>1, <2>2 DEF Hold, SessionAt, Resting
  <2>4. CASE buf.waiting /\ buf.msg # th[t].msg
    <3>1. CurrentSession = g /\ CurrentSession # 0
      BY <1>0, <1>c, <1>s, <2>1 DEF SessionAt, ServiceAt
    <3>2. /\ buf.msg \in Service!Waiting /\ th[t].msg \in Service!Waiting
          /\ buf.msg < th[t].msg
      BY <1>c, <1>w, <2>1, <2>4 DEF ServiceAt, Unsent
    <3>3. /\ dropped' = dropped \cup {buf.msg}
          /\ UNCHANGED <<arrived, sent, Oks, Misses, CurrentSession>>
      BY <1>2, <1>r, <1>s, <2>3, <2>4 DEF Hold
    <3>4. Service!Displace
      BY <3>1, <3>2, <3>3 DEF Service!Displace
    <3> QED
      BY <1>d, <3>4 DEF Service!Next, Service!Orderly
  <2>5. CASE ~(buf.waiting /\ buf.msg # th[t].msg)
    BY <1>2, <1>r, <1>u, <2>3, <2>5 DEF Hold
  <2> QED
    BY <2>4, <2>5
<1>3. CASE Open(t)
  <2>1. /\ th[t].at = "open" /\ p_state = "idle" /\ th[t].msg \in Service!Waiting
        /\ th[t].msg \in Cmds /\ sent[th[t].msg] = 0
    BY <1>0, <1>3, <1>c, <1>w DEF Open, ServiceAt, Unsent
  <2>2. CurrentSession = 0
    BY <1>s, <2>1 DEF SessionAt
  <2>3. CurrentSession' = th[t].msg
    BY <1>3, <1>s, <1>t, GotoFacts DEF Open, SessionAt
  <2>4. sent' = [sent EXCEPT ![th[t].msg] = 1]
    BY <1>0, <1>3, <2>1 DEF Open
  <2>5. Service!Waiting = {th[t].msg}
    <3>1. \A c \in Service!Waiting : c = th[t].msg
      BY <1>0, <1>b, <1>w, <2>1 DEF BufferAt
    <3> QED
      BY <2>1, <3>1
  <2>6. UNCHANGED <<arrived, dropped, Oks, Misses>>
    BY <1>3, <1>r DEF Open
  <2>7. Service!Serve
    <3>1. th[t].msg \in Service!Cmds
      BY <2>1 DEF Service!Cmds, Cmds
    <3> QED
      BY <2>2, <2>3, <2>4, <2>5, <2>6, <3>1 DEF Service!Serve
  <2> QED
    BY <1>d, <2>7 DEF Service!Next, Service!Orderly
<1>4. CASE SetWaitMsg(t)
  BY <1>4, <1>r, <1>u, <1>t, GotoFacts DEF SetWaitMsg, SessionAt
<1>5. CASE StartTimerExpires(t)
  BY <1>5, <1>r, <1>u, <1>t, GotoFacts DEF StartTimerExpires, SessionAt
<1>6. CASE StartTimerWait(t)
  BY <1>6, <1>r, <1>u, <1>t, GotoFacts DEF StartTimerWait, SessionAt
<1>7. CASE AckOk(t)
  <2>1. /\ g \in Cmds /\ Oks[g] = 0 /\ p_state = "wait_msg"
    BY <1>7, <1>c DEF AckOk, ServiceAt
  <2>2. Oks' = [Oks EXCEPT ![g] = 1] /\ Misses' = Misses
    BY <1>0, <1>7, <2>1, <1>t, PublishFacts DEF AckOk, ReplyKinds
  <2>3. CurrentSession = g /\ CurrentSession' = g /\ g # 0
    BY <1>0, <1>7, <1>s, <2>1 DEF AckOk, SessionAt
  <2>4. Service!Confirm
    BY <1>7, <2>1, <2>2, <2>3 DEF AckOk, Service!Confirm
  <2> QED
    BY <1>d, <2>4 DEF Service!Next, Service!Orderly
<1>8. CASE SetIdle(t)
  <2>1. th[t].at = "set_idle" /\ CurrentSession' = 0
    BY <1>8, <1>s, <1>t, GotoFacts DEF SetIdle, SessionAt
  <2>2. UNCHANGED <<arrived, dropped, sent, Oks, Misses>>
    BY <1>8, <1>r DEF SetIdle
  <2>3. CASE p_state = "wait_msg"
    <3>1. CurrentSession = g /\ g # 0 /\ Oks[g] = 1
      BY <1>0, <1>c, <1>s, <2>1, <2>3 DEF SessionAt, ServiceAt
    <3>2. Service!Close
      BY <2>1, <2>2, <3>1 DEF Service!Close
    <3> QED
      BY <1>d, <3>2 DEF Service!Next, Service!Orderly
  <2>4. CASE p_state = "idle"
    BY <1>s, <1>u, <2>1, <2>2, <2>4 DEF SessionAt
  <2> QED
    BY <1>0, <2>3, <2>4
<1>9. CASE IdleTimerExpires(t)
  BY <1>9, <1>r, <1>u, <1>t, GotoFacts DEF IdleTimerExpires, SessionAt
<1>10. CASE IdleTimerWait(t)
  BY <1>10, <1>r, <1>u, <1>t, GotoFacts, LeaveFacts DEF IdleTimerWait, SessionAt, Resting
<1>11. CASE CheckBuffer(t)
  <2>1. th'[t].at \in {"input", "rest"} /\ th[t].at = "check_buf"
    BY <1>11, <1>t, EnterFacts, LeaveFacts DEF CheckBuffer, Resting
  <2> QED
    BY <1>11, <1>r, <1>u, <2>1 DEF CheckBuffer, SessionAt
<1>12. CASE ClearBuffer(t)
  BY <1>12, <1>r, <1>u, <1>t, LeaveFacts DEF ClearBuffer, SessionAt, Resting
<1>13. CASE Timeout(t)
  BY <1>13, <1>r, <1>u, <1>t, GotoFacts DEF Timeout, SessionAt
<1>14. CASE SatNok(t)
  <2>1. /\ g \in Cmds /\ Oks[g] = 1 /\ Misses[g] = 0 /\ p_state = "wait_msg"
    BY <1>14, <1>c DEF SatNok, ServiceAt
  <2>2. Misses' = [Misses EXCEPT ![g] = 1] /\ Oks' = Oks
    BY <1>0, <1>14, <2>1, <1>t, PublishFacts DEF SatNok, ReplyKinds
  <2>3. CurrentSession = g /\ CurrentSession' = g /\ g # 0
    BY <1>0, <1>14, <1>s, <2>1 DEF SatNok, SessionAt
  <2>4. Service!Miss
    BY <1>14, <2>1, <2>2, <2>3 DEF SatNok, Service!Miss
  <2> QED
    BY <1>d, <2>4 DEF Service!Next, Service!Orderly
<1> QED
  BY <1>1, <1>2, <1>3, <1>4, <1>5, <1>6, <1>7, <1>8, <1>9, <1>10, <1>11,
     <1>12, <1>13, <1>14 DEF HandlerStep

\* A thread begins a handler while the other one is outside, with nothing else
\* changed than what arrived.
LEMMA ServiceBegins ==
  ASSUME AllInv, OrderlyInv, HeaderInv, ServiceInv, [Next]_vars, overlap' = "never",
         NEW t \in Threads, th[t].at = "rest", \A u \in Threads : u # t => th'[u] = th[u],
         th'[t].at \in {"input", "trg_expires", "set_idle", "timeout"}, ~th'[t].nested,
         IF th'[t].at = "input"
           THEN arrived' = arrived + 1 /\ th'[t].msg = arrived' /\ arrived' \in Cmds
           ELSE arrived' = arrived,
         UNCHANGED <<p_state, buf, g, sent, replies, dropped>>
  PROVE  /\ ServiceInv'
         /\ \A u \in Threads : th[u].at \in Outside
<1> USE DEF Outside, IdleSteps, InputSteps, SentSteps, OpeningSteps
<1>0. /\ arrived \in Nat /\ sent \in [Cmds -> Nat] /\ buf \in [msg : Ids, waiting : BOOLEAN]
      /\ Cmds \subseteq Nat /\ TypeOK /\ ThreadInv
  BY BoundsAssumption DEF AllInv, TypeOK, Ids, Cmds
<1>r. Oks' = Oks /\ Misses' = Misses
  BY DEF Oks, Misses
<1>1. \A u \in Threads : th[u].at \in Outside /\ ~th[u].nested
  <2>1. Exclusive' /\ InHandler(t)'
    BY NeverFacts DEF InHandler
  <2>2. ASSUME NEW u \in Threads, u # t PROVE th[u].at \in Outside
    <3>1. ~InHandler(u)'
      BY <2>1, <2>2 DEF Exclusive, Threads
    <3> QED
      BY <2>2, <3>1 DEF InHandler
  <2> QED
    BY <1>0, <2>2 DEF ThreadInv
<1>2. /\ overlap = "never"
      /\ ServiceAt(th[t], p_state, buf, g, sent, Oks, Misses, arrived, dropped)
  BY <1>1, NeverFacts, ServiceOf
<1>4. \A c : Unsent(c, sent, arrived, dropped) => Unsent(c, sent', arrived', dropped')
  BY <1>0 DEF Unsent
<1>5. th'[t].at = "input" => Unsent(th'[t].msg, sent', arrived', dropped')
  BY <1>0, <1>2 DEF ServiceAt, Unsent
<1>6. buf.waiting => Unsent(buf.msg, sent, arrived, dropped)
  BY <1>1, <1>2 DEF ServiceAt
<1>7. buf.waiting /\ th'[t].at = "input" => buf.msg < th'[t].msg
  BY <1>0, <1>6 DEF Unsent
<1>8. \A c \in Cmds : c > arrived' => sent'[c] = 0 /\ c \notin dropped'
  <2>1. \A c \in Cmds : c > arrived => sent[c] = 0 /\ c \notin dropped
    BY <1>2 DEF ServiceAt
  <2>2. arrived' = arrived \/ arrived' = arrived + 1
    OBVIOUS
  <2>3. \A c \in Cmds : c > arrived' => c > arrived
    BY <1>0, <2>2
  <2> QED
    BY <2>1, <2>3
<1>9. ServiceAt(th'[t], p_state', buf', g', sent', Oks', Misses', arrived', dropped')
  BY <1>r, <1>1, <1>2, <1>4, <1>5, <1>6, <1>7, <1>8 DEF ServiceAt
<1>10. ServiceInv'
  BY <1>1, <1>9, ServiceFrom
<1> QED
  BY <1>1, <1>10

\* So do all other steps, and each is one of the service.
LEMMA ServiceNext ==
  ASSUME AllInv, OrderlyInv, HeaderInv, ServiceInv, [Next]_vars, overlap' = "never"
  PROVE  ServiceInv' /\ [Service!Next]_Service!vars
<1> USE DEF Outside, IdleSteps, InputSteps, SentSteps, OpeningSteps
<1>0. /\ "block" \in Threads /\ "timer" \in Threads /\ arrived \in Nat
      /\ TypeOK /\ ThreadInv
  BY BoundsAssumption DEF Threads, AllInv, TypeOK, Ids
<1>d. overlap = "never" /\ ~(overlap # "never") /\ ~(overlap # "never")'
  BY NeverFacts
<1>r. replies' = replies => Oks' = Oks /\ Misses' = Misses
  BY DEF Oks, Misses
<1>n. \A t \in Threads : th[t].at \in Outside => ~th[t].nested
  BY <1>0 DEF ThreadInv
\* A thread begins a handler that is not handle_msg_input.
<1>b. ASSUME NEW t \in Threads, NEW l, Goto(t, l), th[t].at = "rest",
             l \in {"trg_expires", "set_idle", "timeout"},
             UNCHANGED <<p_state, buf, g, sent, replies, arrived, dropped>>
      PROVE  ServiceInv' /\ [Service!Next]_Service!vars
  <2>1. /\ th'[t].at = l /\ ~th'[t].nested
        /\ \A u \in Threads : u # t => th'[u] = th[u]
    BY <1>0, <1>b, <1>n, GotoFacts
  <2>2. ServiceInv'
    BY <1>b, <2>1, ServiceBegins
  <2>3. At({"set_wait"})' = At({"set_wait"})
    BY <1>b, <2>1 DEF At
  <2>4. UNCHANGED Service!vars
    BY <1>b, <1>d, <1>r, <2>3 DEF CurrentSession, Service!vars
  <2> QED
    BY <2>2, <2>4
\* No handler begins or ends.
<1>s. ASSUME \A t \in Threads : /\ th'[t].at = th[t].at \/ {th'[t].at, th[t].at} \subseteq Outside
                                /\ th'[t].nested = th[t].nested /\ th'[t].msg = th[t].msg,
             UNCHANGED <<p_state, buf, g, sent, arrived, dropped, Oks, Misses>>
      PROVE  ServiceInv' /\ [Service!Next]_Service!vars
  <2>1. Service!Waiting' = Service!Waiting
    BY <1>s DEF Service!Waiting
  <2>2. /\ At({"set_wait"})' <=> At({"set_wait"})
        /\ At({"set_idle"})' <=> At({"set_idle"})
        /\ At({"sat_nok"})' <=> At({"sat_nok"})
        /\ At(OpeningSteps)' <=> At(OpeningSteps)
    BY <1>s DEF At
  <2>3. /\ buf'.waiting => \/ buf'.msg \in Service!Waiting'
                           \/ \E t \in Threads : th'[t].nested /\ th'[t].at \in SentSteps
        /\ \A t \in Threads :
             th'[t].at \in InputSteps =>
               /\ th'[t].msg \in Service!Waiting'
               /\ buf'.waiting /\ ~th'[t].nested => buf'.msg < th'[t].msg
    BY <1>d, <1>s, <2>1 DEF ServiceInv
  <2>4. /\ At({"sat_nok"})' => p_state' = "wait_msg"
        /\ p_state' = "wait_msg" \/ At({"set_wait"})' =>
             /\ Oks'[g'] = IF At(OpeningSteps)' THEN 0 ELSE 1
             /\ At({"set_idle"})' \/ Misses'[g'] = 0
    BY <1>d, <1>s, <2>2 DEF ServiceInv
  <2>5. ServiceInv'
    BY <2>3, <2>4 DEF ServiceInv
  <2>6. UNCHANGED Service!vars
    BY <1>d, <1>s, <2>2 DEF CurrentSession, Service!vars
  <2> QED
    BY <2>5, <2>6
<1>1. ASSUME NEW t \in Threads, HandlerStep(t)
      PROVE  ServiceInv' /\ [Service!Next]_Service!vars
  BY <1>1, ServiceStep, MapsStep
<1>2. CASE InputCommand
  <2>1. /\ th'["block"] = [at |-> "input", msg |-> arrived + 1, nested |-> FALSE]
        /\ \A u \in Threads : u # "block" => th'[u] = th[u]
        /\ th["block"].at = "rest"
    BY <1>0, <1>2, EnterFacts DEF InputCommand, TakesMessage
  <2>2. arrived' = arrived + 1 /\ arrived' \in Cmds
    BY <1>0, <1>2, BoundsAssumption DEF InputCommand, Cmds
  <2>3. UNCHANGED <<p_state, buf, g, sent, replies, dropped>>
    BY <1>2 DEF InputCommand
  <2>4. ServiceInv' /\ \A u \in Threads : th[u].at \in Outside
    BY <1>0, <2>1, <2>2, <2>3, ServiceBegins
  <2>5. At({"set_wait"})' = At({"set_wait"})
    BY <2>1, <2>4 DEF At
  <2>6. \A c, d \in Service!Waiting : c = d
    <3>1. NothingLost /\ sent \in [Cmds -> Nat] /\ 1..arrived \subseteq Cmds
      BY <1>0, <1>d, BoundsAssumption DEF OrderlyInv, TypeOK, Ids, Cmds
    <3>2. \A c \in Service!Waiting : ~(sent[c] > 0) /\ c \notin dropped /\ c \in 1..arrived
      BY DEF Service!Waiting
    <3>3. \A c \in Service!Waiting : c = buf.msg
      BY <2>4, <3>1, <3>2 DEF NothingLost, Kept, InProgress
    <3> QED
      BY <3>3
  <2>7. CurrentSession' = CurrentSession /\ UNCHANGED <<dropped, sent, Oks, Misses>>
    BY <1>r, <2>3, <2>5 DEF CurrentSession
  <2>8. arrived < MaxCmd
    BY <1>2 DEF InputCommand
  <2>9. Service!Arrive
    BY <2>2, <2>6, <2>7, <2>8 DEF Service!Arrive
  <2> QED
    BY <1>d, <2>4, <2>9 DEF Service!Next, Service!Orderly
<1>3. CASE InputRefused
  <2>1. Oks' = Oks /\ Misses' = Misses
    <3>1. replies' = replies \/ Publish("tnc_nok")
      BY <1>3 DEF InputRefused
    <3>2. CASE replies' = replies
      BY <3>2 DEF Oks, Misses
    <3> QED
      BY <1>0, <3>1, <3>2, PublishFacts DEF ReplyKinds
  <2> QED
    BY <1>3, <1>s, <2>1 DEF InputRefused
<1>4. CASE RxTrigger
  BY <1>0, <1>4, <1>b DEF RxTrigger, TakesMessage
<1>5. CASE RxMessage
  BY <1>0, <1>5, <1>b DEF RxMessage, TakesMessage
<1>6. CASE TimerElapses
  BY <1>6, <1>r, <1>s DEF TimerElapses
<1>7. CASE RunCompletion
  <2>1. CASE Goto("timer", "timeout")
    BY <1>0, <1>7, <1>b, <2>1 DEF RunCompletion
  <2>2. CASE th' = th
    BY <1>7, <1>r, <1>s, <2>2 DEF RunCompletion
  <2> QED
    BY <1>7, <2>1, <2>2 DEF RunCompletion
<1>8. CASE Destroy
  <2>1. /\ th["block"].at = "rest" /\ th'["block"].at = "join" /\ th'["block"].msg = th["block"].msg
        /\ th'["block"].nested = th["block"].nested /\ th'["timer"] = th["timer"]
    BY <1>0, <1>8, GotoFacts DEF Destroy, Threads
  <2> QED
    BY <1>8, <1>r, <1>s, <2>1 DEF Destroy, Threads
<1>9. CASE Join
  <2>1. /\ th["block"].at = "join" /\ th'["block"].at = "gone" /\ th'["block"].msg = th["block"].msg
        /\ th'["block"].nested = th["block"].nested /\ th'["timer"] = th["timer"]
    BY <1>0, <1>9, GotoFacts DEF Join, Threads
  <2> QED
    BY <1>9, <1>r, <1>s, <2>1 DEF Join, Threads
<1>10. CASE UNCHANGED vars
  BY <1>10, <1>r, <1>s DEF vars
<1> QED
  BY <1>1, <1>2, <1>3, <1>4, <1>5, <1>6, <1>7, <1>8, <1>9, <1>10
  DEF Next, Receive, RunTimer, Destruct, Destroyed

\* Once handlers have overlapped, what was transmitted has arrived, and what is
\* confirmed or reported was transmitted.
LEMMA LooseNext ==
  ASSUME AllInv, HeaderInv, HeaderInv', [Next]_vars, overlap' # "never"
  PROVE  Service!Loose
<1>0. /\ TypeOK /\ ThreadInv /\ FreshInv /\ sent \in [Cmds -> Nat] /\ Cmds \subseteq Nat
      /\ "block" \in Threads /\ "timer" \in Threads /\ Service!Cmds = Cmds
      /\ buf \in [msg : Ids, waiting : BOOLEAN]
  BY BoundsAssumption DEF AllInv, TypeOK, Ids, Cmds, Threads, Service!Cmds
<1>1. CurrentSession' = 0 \/ CurrentSession' \in Service!Transmitted'
  <2>1. p_state' = "wait_msg" \/ At({"set_wait"})' => g' \in Cmds /\ sent'[g'] > 0
    BY DEF HeaderInv, At, OpeningSteps
  <2>2. p_state' = "wait_msg" \/ At({"set_wait"})' => g' \in Service!Transmitted'
    BY <1>0, <2>1 DEF Service!Transmitted
  <2> QED
    BY <2>2 DEF CurrentSession
<1>a. \A c \in Cmds : c <= arrived => c \in 1..arrived
  BY BoundsAssumption, <1>0 DEF Cmds, TypeOK, Ids
<1>2. CASE UNCHANGED <<arrived, dropped, sent, g, Oks, Misses>>
  BY <1>1, <1>2 DEF Service!Loose
<1>3. CASE InputCommand /\ UNCHANGED <<dropped, sent, g, Oks, Misses>>
  BY <1>1, <1>3 DEF Service!Loose, InputCommand
<1>4. ASSUME NEW t \in Threads, Hold(t), buf.waiting, dropped' = dropped \cup {buf.msg},
             UNCHANGED <<arrived, sent, g, Oks, Misses>>
      PROVE  Service!Loose
  <2>1. buf.msg \in 1..arrived
    BY <1>0, <1>4, <1>a DEF ThreadInv, FreshInv
  <2> QED
    BY <1>1, <1>4, <2>1 DEF Service!Loose
<1>5. ASSUME NEW t \in Threads, Open(t), UNCHANGED <<arrived, dropped, Oks, Misses>>
      PROVE  Service!Loose
  <2>1. th[t].msg \in 1..arrived
    BY <1>0, <1>5, <1>a DEF ThreadInv, FreshInv, Open, InputSteps
  <2>2. sent' = Service!More(sent, th[t].msg)
    BY <1>5 DEF Open, Service!More
  <2> QED
    BY <1>1, <1>5, <2>1, <2>2 DEF Service!Loose
<1>6. ASSUME NEW t \in Threads, AckOk(t), Oks' = [Oks EXCEPT ![g] = @ + 1],
             UNCHANGED <<arrived, dropped, sent, g, Misses>>
      PROVE  Service!Loose
  <2>1. g \in Service!Transmitted
    BY <1>0, <1>6 DEF HeaderInv, At, AckOk, OpeningSteps, Service!Transmitted
  <2>2. Oks' = Service!More(Oks, g)
    BY <1>6 DEF Service!More
  <2> QED
    BY <1>1, <1>6, <2>1, <2>2 DEF Service!Loose
<1>7. ASSUME NEW t \in Threads, SatNok(t), Misses' = [Misses EXCEPT ![g] = @ + 1],
             UNCHANGED <<arrived, dropped, sent, g, Oks>>
      PROVE  Service!Loose
  <2>1. g \in Service!Transmitted
    BY <1>0, <1>7 DEF HeaderInv, At, SatNok, Service!Transmitted
  <2>2. Misses' = Service!More(Misses, g)
    BY <1>7 DEF Service!More
  <2> QED
    BY <1>1, <1>7, <2>1, <2>2 DEF Service!Loose
<1> QED
  BY <1>0, <1>2, <1>3, <1>4, <1>5, <1>6, <1>7, ServiceFacts DEF ServiceData

LEMMA InitialService == Init => OrderlyInv /\ HeaderInv /\ ServiceInv /\ Service!Init
<1> SUFFICES ASSUME Init PROVE OrderlyInv /\ HeaderInv /\ ServiceInv /\ Service!Init
  OBVIOUS
<1>1. /\ p_state = "idle" /\ ~buf.waiting /\ arrived = 0 /\ dropped = {} /\ g = 0
      /\ sent = [c \in Cmds |-> 0] /\ \A t \in Threads : th[t].at = "rest"
      /\ overlap = "never" /\ 0 \notin Cmds
  BY BoundsAssumption DEF Init, Resting, Cmds
<1>2. Oks = [c \in Cmds |-> 0] /\ Misses = [c \in Cmds |-> 0]
  BY BoundsAssumption DEF Init, Oks, Misses, Cmds, Ids, ReplyKinds
<1>3. \A labels : "rest" \notin labels => ~At(labels)
  BY <1>1 DEF At
<1>4. HeaderInv /\ ServiceInv
  BY <1>1, <1>2, <1>3 DEF HeaderInv, ServiceInv, InputSteps, OpeningSteps
<1>5. OrderlyInv
  BY <1>1 DEF OrderlyInv, Stranded, NothingLost
<1>6. Service!Init
  BY <1>1, <1>2, <1>3 DEF Service!Init, Service!None, Service!Cmds, Cmds, CurrentSession
<1> QED
  BY <1>4, <1>5, <1>6

\* The TNC block serves telecommands as CommandService promises: until handlers
\* overlap, one session at a time, in order, each confirmed once, reported missed
\* at most once, and closed; and from then on whatever it promises then.
THEOREM ServesCommands == Spec => ImplementsService
<1>1. Init => OrderlyInv /\ HeaderInv /\ ServiceInv /\ Service!Init
  BY InitialService
<1>2. AllInv /\ OrderlyInv /\ HeaderInv /\ [Next]_vars => OrderlyInv' /\ HeaderInv'
  BY OrderlyNext, HeaderNext
<1>3. AllInv /\ OrderlyInv /\ HeaderInv /\ HeaderInv' /\ ServiceInv /\ [Next]_vars =>
        ServiceInv' /\ [Service!Next]_Service!vars
  <2>1. (overlap' # "never") => ServiceInv'
    BY DEF ServiceInv
  <2> QED
    BY <2>1, ServiceNext, LooseNext DEF Service!Next
<1> QED
  BY <1>1, <1>2, <1>3, LoneCorrect, PTL DEF Spec, ImplementsService, Service!Spec

==============================================================================
