----------------------------- MODULE TncB1Proofs ------------------------------
(***************************************************************************)
(* Type correctness and safety of TncB1 in all interleavings of its two    *)
(* threads: for any number of telecommands, any lengths of the parts of a  *)
(* frame, and wherever a timeout resets the receiver.                      *)
(***************************************************************************)
EXTENDS TncB1, AsioTimerProofs

Activities == [at : Labels, msg : Ids, nested : BOOLEAN]
Heads == {"cleared", "open", "echo"}
Headers == 0..SyncBits
Ctrls == 0..(CtrlBits - 1)
Fecs == 0..(FecBits - 1)
Datas == 0..DataBits
Receivers == [state : States, header : Headers, head : Heads,
              ctrl : Ctrls, fec : Fecs, data : Datas]

------------------------------------------------------------------------------
(* The parts of a frame                                                     *)

LEMMA Lengths ==
  /\ SyncBits \in Nat /\ SyncBits > 0 /\ CtrlBits \in Nat /\ CtrlBits > 0
  /\ FecBits \in Nat /\ FecBits > 0 /\ DataBits \in Nat /\ DataBits > 0
  /\ DataBlocks \in Nat /\ DataBlocks > 0 /\ BlockBits \in Nat /\ BlockBits > 0
  /\ SyncZeros \in Nat /\ SyncZeros < SyncBits /\ Preamble \in Nat
  /\ MarkerEnd = Preamble + SyncBits
  /\ HeadEnd = MarkerEnd + CtrlBits + FecBits
  /\ Cycle = HeadEnd + DataBits
  /\ MarkerEnd \in Nat /\ HeadEnd \in Nat /\ Cycle \in Nat
<1>1. /\ SyncBits \in Nat /\ SyncBits > 0 /\ CtrlBits \in Nat /\ CtrlBits > 0
      /\ FecBits \in Nat /\ FecBits > 0
      /\ DataBlocks \in Nat /\ DataBlocks > 0 /\ BlockBits \in Nat /\ BlockBits > 0
      /\ SyncZeros \in Nat /\ SyncZeros < SyncBits /\ Preamble \in Nat
  BY BitsAssumption
<1>2. DataBits \in Nat /\ DataBits > 0
  <2>1. \A a, b \in Nat : a > 0 /\ b > 0 => a * b \in Nat /\ a * b > 0
    OBVIOUS
  <2> QED
    BY <1>1, <2>1 DEF DataBits
<1> QED
  BY <1>1, <1>2 DEF MarkerEnd, HeadEnd, Cycle

\* A counter of a read function goes on, and back to 0 at the end.
LEMMA CountOf ==
  ASSUME NEW n \in Nat, n > 0, NEW k \in 0..(n - 1)
  PROVE  (k + 1) % n = IF k + 1 = n THEN 0 ELSE k + 1
<1>1. CASE k + 1 = n
  <2>1. n % n = 0
    OBVIOUS
  <2> QED
    BY <1>1, <2>1
<1>2. CASE k + 1 # n
  <2>1. k + 1 \in Nat /\ k + 1 < n
    BY <1>2
  <2> QED
    BY <1>2, <2>1
<1> QED
  BY <1>1, <1>2

\* What the read functions do to the receiver.
LEMMA CountFacts ==
  ASSUME rx \in Receivers
  PROVE  /\ Count("ctrl", CtrlBits)
              = [rx EXCEPT !.ctrl = IF Complete("ctrl", CtrlBits) THEN 0 ELSE @ + 1]
         /\ Count("fec", FecBits)
              = [rx EXCEPT !.fec = IF Complete("fec", FecBits) THEN 0 ELSE @ + 1]
<1>1. /\ (rx.ctrl + 1) % CtrlBits = IF rx.ctrl + 1 = CtrlBits THEN 0 ELSE rx.ctrl + 1
      /\ (rx.fec + 1) % FecBits = IF rx.fec + 1 = FecBits THEN 0 ELSE rx.fec + 1
  BY Lengths, CountOf DEF Receivers, Ctrls, Fecs
<1> QED
  BY <1>1 DEF Count, Complete, Receivers

\* The values the fields take.
LEMMA Ranges ==
  ASSUME rx \in Receivers
  PROVE  /\ rx.header \in Nat /\ rx.header <= SyncBits
         /\ rx.ctrl \in Nat /\ rx.ctrl < CtrlBits
         /\ rx.fec \in Nat /\ rx.fec < FecBits
         /\ rx.data \in Nat /\ rx.data <= DataBits
         /\ rx.state \in States /\ rx.head \in Heads
<1>1. /\ rx.header \in Headers /\ rx.ctrl \in Ctrls
      /\ rx.fec \in Fecs /\ rx.data \in Datas
      /\ rx.state \in States /\ rx.head \in Heads
  BY DEF Receivers
<1> QED
  BY <1>1, Lengths DEF Headers, Ctrls, Fecs, Datas

LEMMA InRanges ==
  ASSUME rx \in Receivers
  PROVE  /\ 0 \in Headers
         /\ rx.header < SyncBits => rx.header + 1 \in Headers
         /\ 0 \in Ctrls /\ 0 \in Fecs /\ 0 \in Datas
         /\ rx.ctrl + 1 # CtrlBits => rx.ctrl + 1 \in Ctrls
         /\ rx.fec + 1 # FecBits => rx.fec + 1 \in Fecs
         /\ rx.data < DataBits => rx.data + 1 \in Datas
         /\ "SEARCH" \in States /\ "RX_CTRL" \in States /\ "RX_CFEC" \in States
         /\ "RX_DATA" \in States
         /\ "cleared" \in Heads /\ "open" \in Heads /\ "echo" \in Heads
  BY Ranges, Lengths DEF Headers, Ctrls, Fecs, Datas, States, Heads

\* The two halves of reset_rx, for any receiver.
LEMMA ResetFacts ==
  ASSUME NEW r \in Receivers
  PROVE  /\ SearchAgain(r) \in Receivers
         /\ SearchAgain(r).state = "SEARCH" /\ SearchAgain(r).header = 0
         /\ SearchAgain(r).head = r.head /\ SearchAgain(r).ctrl = r.ctrl
         /\ SearchAgain(r).fec = r.fec /\ SearchAgain(r).data = r.data
         /\ HeadCleared(r) \in Receivers
         /\ HeadCleared(r).head = "cleared" /\ HeadCleared(r).state = r.state
         /\ HeadCleared(r).header = r.header /\ HeadCleared(r).ctrl = r.ctrl
         /\ HeadCleared(r).fec = r.fec /\ HeadCleared(r).data = r.data
<1>1. 0 \in Headers /\ "SEARCH" \in States /\ "cleared" \in Heads
  BY Lengths DEF Headers, States, Heads
<1> QED
  BY <1>1 DEF SearchAgain, HeadCleared, Receivers

------------------------------------------------------------------------------
(* One bit of general_work                                                  *)

LEMMA SearchFacts ==
  ASSUME rx \in Receivers, HeadInv, Search
  PROVE  /\ rx' \in Receivers /\ rx.state = "SEARCH"
         /\ IF MarkerFound THEN rx'.state = "RX_CTRL" /\ rx'.head = "open"
                           ELSE rx'.state = "SEARCH" /\ rx'.head = rx.head
         /\ rx'.header = IF rx.header < SyncBits THEN rx.header + 1 ELSE rx.header
         /\ rx'.ctrl = rx.ctrl /\ rx'.fec = rx.fec /\ rx'.data = rx.data
<1> DEFINE h == IF rx.header < SyncBits THEN rx.header + 1 ELSE rx.header
           r == [rx EXCEPT !.header = h]
<1>1. rx.state = "SEARCH"
  BY DEF Search, HeadInv, States
<1>2. h \in Headers /\ "RX_CTRL" \in States /\ "open" \in Heads
  <2>1. rx.header \in Headers
    BY DEF Receivers
  <2> QED
    BY <2>1, InRanges
<1>3. rx' = IF MarkerFound THEN [r EXCEPT !.state = "RX_CTRL", !.head = "open"] ELSE r
  BY DEF Search, Receivers
<1> HIDE DEF h
<1>4. /\ r \in Receivers /\ r.state = rx.state /\ r.header = h /\ r.head = rx.head
      /\ r.ctrl = rx.ctrl /\ r.fec = rx.fec /\ r.data = rx.data
  BY <1>2 DEF Receivers
<1> HIDE DEF r
<1>5. CASE MarkerFound
  <2>1. /\ rx' \in Receivers /\ rx'.state = "RX_CTRL" /\ rx'.head = "open"
        /\ rx'.header = r.header /\ rx'.ctrl = r.ctrl /\ rx'.fec = r.fec /\ rx'.data = r.data
    BY <1>2, <1>3, <1>4, <1>5 DEF Receivers
  <2> QED
    BY <1>1, <1>4, <1>5, <2>1 DEF h
<1>6. CASE ~MarkerFound
  BY <1>1, <1>3, <1>4, <1>6 DEF h
<1> QED
  BY <1>5, <1>6

LEMMA RxCtrlFacts ==
  ASSUME rx \in Receivers, RxCtrl
  PROVE  /\ rx' \in Receivers /\ rx'.header = rx.header /\ rx'.head = rx.head
         /\ rx'.fec = rx.fec /\ rx'.data = rx.data
         /\ IF rx.ctrl + 1 = CtrlBits THEN rx'.state = "RX_CFEC" /\ rx'.ctrl = 0
            ELSE rx'.state = rx.state /\ rx'.ctrl = rx.ctrl + 1
<1> DEFINE c == IF rx.ctrl + 1 = CtrlBits THEN 0 ELSE rx.ctrl + 1
           st == IF rx.ctrl + 1 = CtrlBits THEN "RX_CFEC" ELSE rx.state
<1>1. rx' = [rx EXCEPT !.state = st, !.ctrl = c]
  BY CountFacts DEF RxCtrl, Receivers, Complete
<1>2. c \in Ctrls /\ st \in States
  BY InRanges, Ranges
<1> HIDE DEF c, st
<1>3. /\ rx' \in Receivers /\ rx'.state = st /\ rx'.ctrl = c
      /\ rx'.header = rx.header /\ rx'.head = rx.head /\ rx'.fec = rx.fec /\ rx'.data = rx.data
  BY <1>1, <1>2 DEF Receivers
<1> QED
  BY <1>3 DEF c, st

\* The head is accepted where it ends, and rejected anywhere else, or if a reset
\* has cleared it.
LEMMA RxCfecFacts ==
  ASSUME rx \in Receivers, RxCfec
  PROVE  /\ rx' \in Receivers /\ rx'.ctrl = rx.ctrl /\ rx'.data = rx.data
         /\ rx'.fec = IF rx.fec + 1 = FecBits THEN 0 ELSE rx.fec + 1
         /\ \/ /\ rx.fec + 1 # FecBits
               /\ rx'.state = rx.state /\ rx'.head = rx.head /\ NextBit
            \/ /\ rx.fec + 1 = FecBits /\ pos = HeadEnd
               /\ rx'.state = "RX_DATA" /\ rx'.head = "echo" /\ NextBit
            \/ /\ rx.fec + 1 = FecBits /\ (pos # HeadEnd \/ rx.head = "cleared")
               /\ rx'.state = "SEARCH" /\ rx'.header = 0
               /\ \E back \in Backs : pos' = pos - back + 1
<1> DEFINE f == IF rx.fec + 1 = FecBits THEN 0 ELSE rx.fec + 1
           r == [rx EXCEPT !.fec = f]
<1>1. Count("fec", FecBits) = r
  BY CountFacts DEF Complete
<1>2. f \in Fecs /\ "RX_DATA" \in States /\ "echo" \in Heads
  BY InRanges
<1> HIDE DEF f
<1>3. /\ r \in Receivers /\ r.fec = f /\ r.state = rx.state /\ r.head = rx.head
      /\ r.ctrl = rx.ctrl /\ r.data = rx.data
  BY <1>2 DEF Receivers
<1> HIDE DEF r
<1>4. CASE rx.fec + 1 # FecBits /\ rx' = r /\ NextBit
  BY <1>3, <1>4 DEF f
<1>5. CASE /\ rx.fec + 1 = FecBits /\ pos = HeadEnd /\ NextBit
           /\ rx' = [r EXCEPT !.state = "RX_DATA", !.head = "echo"]
  <2>1. /\ rx' \in Receivers /\ rx'.state = "RX_DATA" /\ rx'.head = "echo"
        /\ rx'.fec = r.fec /\ rx'.ctrl = r.ctrl /\ rx'.data = r.data
    BY <1>2, <1>3, <1>5 DEF Receivers
  <2> QED
    BY <1>3, <1>5, <2>1 DEF f
<1>6. CASE /\ rx.fec + 1 = FecBits /\ (pos # HeadEnd \/ rx.head = "cleared")
           /\ rx' = HeadCleared(SearchAgain(r))
           /\ \E back \in Backs : pos' = pos - back + 1
  <2>1. /\ rx' \in Receivers /\ rx'.state = "SEARCH" /\ rx'.header = 0
        /\ rx'.fec = r.fec /\ rx'.ctrl = r.ctrl /\ rx'.data = r.data
    BY <1>3, <1>6, ResetFacts
  <2> QED
    BY <1>3, <1>6, <2>1 DEF f
<1> QED
  BY <1>1, <1>4, <1>5, <1>6 DEF RxCfec, Complete

LEMMA RxDataFacts ==
  ASSUME rx \in Receivers, RxData
  PROVE  /\ rx' \in Receivers /\ rx'.state = rx.state /\ rx'.header = rx.header
         /\ rx'.head = rx.head /\ rx'.ctrl = rx.ctrl /\ rx'.fec = rx.fec
         /\ rx'.data = IF DataComplete THEN 0
                       ELSE IF rx.data < DataBits THEN rx.data + 1 ELSE rx.data
<1> DEFINE d == IF DataComplete THEN 0
                ELSE IF rx.data < DataBits THEN rx.data + 1 ELSE rx.data
<1>1. rx' = [rx EXCEPT !.data = d]
  BY DEF RxData, CountData, Receivers
<1>2. d \in Datas
  <2>1. rx.data \in Datas
    BY DEF Receivers
  <2> QED
    BY <2>1, InRanges
<1> HIDE DEF d
<1>3. /\ rx' \in Receivers /\ rx'.data = d /\ rx'.state = rx.state
      /\ rx'.header = rx.header /\ rx'.head = rx.head /\ rx'.ctrl = rx.ctrl /\ rx'.fec = rx.fec
  BY <1>1, <1>2 DEF Receivers
<1> QED
  BY <1>3 DEF d

LEMMA CheckFacts ==
  ASSUME rx \in Receivers, CheckMessage
  PROVE  /\ rx' \in Receivers /\ rx'.ctrl = rx.ctrl /\ rx'.fec = rx.fec
         /\ rx'.data = rx.data
         /\ \/ Waste /\ EndBit /\ rx'.state = "SEARCH" /\ rx'.header = 0
            \/ /\ ~Waste /\ Goto("block", "reset_rx") /\ rx' = rx
               /\ missed' = IF pos = Cycle THEN 0 ELSE missed
<1>1. /\ SearchAgain(rx) \in Receivers /\ SearchAgain(rx).state = "SEARCH"
      /\ SearchAgain(rx).header = 0 /\ SearchAgain(rx).ctrl = rx.ctrl
      /\ SearchAgain(rx).fec = rx.fec /\ SearchAgain(rx).data = rx.data
  BY ResetFacts
<1>2. CASE Waste /\ EndBit /\ rx' = HeadCleared(SearchAgain(rx))
  BY <1>1, <1>2, ResetFacts
<1>3. CASE ~Waste /\ Goto("block", "reset_rx") /\ rx' = rx
           /\ missed' = IF pos = Cycle THEN 0 ELSE missed
  BY <1>3
<1> QED
  BY <1>2, <1>3 DEF CheckMessage

------------------------------------------------------------------------------
(* What the steps of a handler do                                           *)

LEMMA GotoFacts ==
  ASSUME th \in [Threads -> Activities], NEW t \in Threads, NEW l, Goto(t, l)
  PROVE  /\ th'[t].at = l /\ th'[t].msg = th[t].msg /\ th'[t].nested = th[t].nested
         /\ \A u \in Threads : u # t => th'[u] = th[u]
  BY DEF Goto, Activities

LEMMA EnterFacts ==
  ASSUME th \in [Threads -> Activities], NEW t \in Threads, NEW a, th' = [th EXCEPT ![t] = a]
  PROVE  /\ th'[t] = a
         /\ \A u \in Threads : u # t => th'[u] = th[u]
  OBVIOUS

LEMMA LeaveFacts ==
  ASSUME th \in [Threads -> Activities], NEW t \in Threads, Leave(t)
  PROVE  /\ th'[t] = Resting
         /\ \A u \in Threads : u # t => th'[u] = th[u]
         /\ tmr' = IF t = "timer" THEN Returned(tmr) ELSE tmr
  BY DEF Leave

\* handle_msg_in returns to set_idle or to its thread's loop.
LEMMA EndInputFacts ==
  ASSUME th \in [Threads -> Activities], NEW t \in Threads, EndInput(t)
  PROVE  /\ th[t].nested => /\ th'[t].at = "clear_buf" /\ th'[t].msg = th[t].msg
                            /\ th'[t].nested /\ tmr' = tmr
         /\ ~th[t].nested => /\ th'[t] = Resting
                             /\ tmr' = IF t = "timer" THEN Returned(tmr) ELSE tmr
         /\ \A u \in Threads : u # t => th'[u] = th[u]
<1>1. th[t].nested \in BOOLEAN
  BY DEF Activities
<1>2. CASE th[t].nested
  <2>1. Goto(t, "clear_buf") /\ tmr' = tmr
    BY <1>2 DEF EndInput
  <2> QED
    BY <1>2, <2>1, GotoFacts
<1>3. CASE ~th[t].nested
  BY <1>3, LeaveFacts DEF EndInput
<1> QED
  BY <1>2, <1>3

\* A thread goes on to a step, or its handler returns.
LEMMA GotoType ==
  ASSUME th \in [Threads -> Activities], NEW t \in Threads, NEW l \in Labels
  PROVE  /\ [th EXCEPT ![t].at = l] \in [Threads -> Activities]
         /\ \A m \in Ids, n \in BOOLEAN :
              [th EXCEPT ![t] = [at |-> l, msg |-> m, nested |-> n]] \in [Threads -> Activities]
  BY DEF Activities

LEMMA RestType ==
  ASSUME th \in [Threads -> Activities], NEW t \in Threads
  PROVE  [th EXCEPT ![t] = Resting] \in [Threads -> Activities]
  BY BoundsAssumption DEF Activities, Resting, Ids, Labels

LEMMA TmrType ==
  ASSUME tmr \in Timers(Handlers)
  PROVE  /\ \A d \in {"never", "finite"} : ExpiresFromNow(tmr, d) \in Timers(Handlers)
         /\ \A h \in {"timeout", "infinite"} :
              /\ AsyncWait(tmr, h) \in Timers(Handlers)
              /\ Returned(AsyncWait(tmr, h)) \in Timers(Handlers)
         /\ Elapse(tmr) \in Timers(Handlers)
         /\ Dispatchable(tmr) => /\ Dispatched(tmr) \in Timers(Handlers)
                                 /\ Returned(Dispatched(tmr)) \in Timers(Handlers)
         /\ Returned(tmr) \in Timers(Handlers)
<1>1. \E d \in Deadlines, h \in Handlers : TRUE
  BY DEF Deadlines, Handlers
<1> QED
  BY <1>1, TimersClosed DEF Deadlines, Handlers

\* The steps of a handler, and not those of a bit.
Inside == Labels \ ({"rest"} \cup BitSteps)

\* Where a step of a handler starts and where it can lead.
LEMMA StepFacts ==
  ASSUME th \in [Threads -> Activities], NEW t \in Threads, SessionStep(t)
  PROVE  /\ th[t].at \in Inside
         /\ th'[t].at \in Inside \cup {"rest"}
         /\ th'[t].at \notin {"sat_nok", "module_id"}
         /\ th'[t].at = "reset_rx" <=> SatNok(t)
         /\ th'[t].at = "clear_rx" <=> ResetRx(t)
         /\ th'[t].at = "moid_expires" => th[t].at = "module_id"
         /\ th'[t].at = "moid_wait" => th[t].at = "moid_expires"
         /\ \A u \in Threads : u # t => th'[u] = th[u]
<1> USE DEF Inside, Labels, BitSteps, States
<1>r. /\ th[t].at # "sat_nok" => ~SatNok(t)
      /\ th[t].at # "reset_rx" => ~ResetRx(t)
  BY DEF SatNok, ResetRx
<1>1. CASE ReadState(t)
  BY <1>1, <1>r, GotoFacts DEF ReadState
<1>2. CASE Hold(t)
  BY <1>2, <1>r, EndInputFacts DEF Hold, Resting
<1>3. CASE Open(t)
  BY <1>3, <1>r, GotoFacts DEF Open
<1>4. CASE RefuseType(t)
  BY <1>4, <1>r, EndInputFacts DEF RefuseType, Resting
<1>5. CASE AckOk(t)
  BY <1>5, <1>r, GotoFacts DEF AckOk
<1>6. CASE StartTimerExpires(t)
  BY <1>6, <1>r, GotoFacts DEF StartTimerExpires
<1>7. CASE StartTimerWait(t)
  BY <1>7, <1>r, GotoFacts DEF StartTimerWait
<1>8. CASE SetWaitMsg(t)
  BY <1>8, <1>r, EndInputFacts DEF SetWaitMsg, Resting
<1>9. CASE ResetRx(t)
  BY <1>9, <1>r, GotoFacts DEF ResetRx
<1>10. CASE ClearRx(t)
  BY <1>10, <1>r, GotoFacts DEF ClearRx
<1>11. CASE IdleTimerExpires(t)
  BY <1>11, <1>r, GotoFacts DEF IdleTimerExpires
<1>12. CASE IdleTimerWait(t)
  BY <1>12, <1>r, GotoFacts DEF IdleTimerWait
<1>13. CASE SetIdle(t)
  BY <1>13, <1>r, GotoFacts DEF SetIdle
<1>14. CASE CheckBuffer(t)
  <2>1. CASE th' = [th EXCEPT ![t] = [at |-> "input", msg |-> buf.msg, nested |-> TRUE]]
    BY <1>14, <1>r, <2>1, EnterFacts DEF CheckBuffer
  <2>2. CASE Leave(t)
    BY <1>14, <1>r, <2>2, LeaveFacts DEF CheckBuffer, Resting
  <2> QED
    BY <1>14, <2>1, <2>2 DEF CheckBuffer
<1>15. CASE ClearBuffer(t)
  BY <1>15, <1>r, LeaveFacts DEF ClearBuffer, Resting
<1>16. CASE SatNok(t)
  BY <1>16, <1>r, GotoFacts DEF SatNok
<1>17. CASE ModuleId(t)
  BY <1>17, <1>r, GotoFacts DEF ModuleId
<1>18. CASE ModuleIdReturns(t)
  BY <1>18, <1>r, EnterFacts DEF ModuleIdReturns, Resting
<1> QED
  BY <1>1, <1>2, <1>3, <1>4, <1>5, <1>6, <1>7, <1>8, <1>9, <1>10, <1>11, <1>12, <1>13,
     <1>14, <1>15, <1>16, <1>17, <1>18 DEF SessionStep

\* Where a bit starts and where it can lead.
LEMMA BitFacts ==
  ASSUME th \in [Threads -> Activities], ReceiveBit
  PROVE  /\ th["block"].at \in BitSteps
         /\ \/ Goto("block", "rest")
            \/ Goto("block", "check") /\ RxData /\ DataComplete
            \/ Goto("block", "reset_rx") /\ CheckMessage /\ ~Waste
         /\ th'["block"].at \in {"rest", "check", "reset_rx"}
         /\ th'["block"].msg = th["block"].msg /\ th'["block"].nested = th["block"].nested
         /\ th'["timer"] = th["timer"]
         /\ UNCHANGED <<session, tmr, announced>>
<1>1. /\ th["block"].at \in BitSteps
      /\ UNCHANGED <<session, tmr, announced>>
      /\ \/ Goto("block", "rest")
         \/ Goto("block", "check") /\ RxData /\ DataComplete
         \/ Goto("block", "reset_rx") /\ CheckMessage /\ ~Waste
  BY DEF ReceiveBit, Search, RxCtrl, RxCfec, RxData, CheckMessage, EndBit, BitSteps, States
<1>2. "block" \in Threads /\ "timer" \in Threads
  BY DEF Threads
<1> QED
  BY <1>1, <1>2, GotoFacts

\* The receiver is changed by bits and by reset_rx.
LEMMA ReceiverAlone ==
  ASSUME NEW t \in Threads, SessionStep(t), ~ResetRx(t), ~ClearRx(t)
  PROVE  UNCHANGED receiver /\ th[t].at \notin {"reset_rx", "clear_rx"}
  BY DEF SessionStep, ReadState, Hold, Open, RefuseType, AckOk, StartTimerExpires,
     StartTimerWait, SetWaitMsg, IdleTimerExpires, IdleTimerWait, SetIdle, CheckBuffer,
     ClearBuffer, SatNok, ModuleId, ModuleIdReturns

------------------------------------------------------------------------------
(* Type correctness                                                         *)

\* TypeOK in two parts.
SessionType ==
  /\ p_state \in {"idle", "wait_MSG"}
  /\ buf \in [msg : Ids, waiting : BOOLEAN]
  /\ g \in Ids
  /\ tmr \in Timers(Handlers)
  /\ th \in [Threads -> Activities]
  /\ arrived \in Ids
  /\ sent \in [Cmds -> Nat]
  /\ replies \in [Ids -> [ReplyKinds -> Nat]]
  /\ announced \in {"no", "first", "late"}
  /\ dropped \subseteq Ids
  /\ overlap \in {"never", "now", "before"}
  /\ torn \in BOOLEAN
ReceiverType == pos \in 1..Cycle /\ rx \in Receivers /\ missed \in 0..MaxMissed

LEMMA TypeParts ==
  /\ TypeOK <=> SessionType /\ ReceiverType
  /\ TypeOK' <=> SessionType' /\ ReceiverType'
  BY DEF TypeOK, SessionType, ReceiverType, Activities, Receivers, Headers, Heads,
         Ctrls, Fecs, Datas

LEMMA WatchType ==
  ASSUME SessionType, Watch \/ UNCHANGED <<overlap, torn>>
  PROVE  overlap' \in {"never", "now", "before"} /\ torn' \in BOOLEAN
  BY DEF SessionType, Watch

LEMMA EndInputType ==
  ASSUME SessionType, NEW t \in Threads, EndInput(t)
  PROVE  th' \in [Threads -> Activities] /\ tmr' \in Timers(Handlers)
<1>1. th \in [Threads -> Activities] /\ tmr \in Timers(Handlers) /\ "clear_buf" \in Labels
  BY DEF SessionType, Labels
<1>2. CASE th[t].nested
  BY <1>1, <1>2, GotoType DEF EndInput, Goto
<1>3. CASE ~th[t].nested
  BY <1>1, <1>3, RestType, TmrType DEF EndInput, Leave
<1> QED
  BY <1>2, <1>3

LEMMA PublishType ==
  ASSUME SessionType, NEW k \in ReplyKinds, Publish(k)
  PROVE  replies' \in [Ids -> [ReplyKinds -> Nat]]
<1>1. replies[g] \in [ReplyKinds -> Nat] /\ replies[g][k] + 1 \in Nat
  BY DEF SessionType
<1>2. [replies[g] EXCEPT ![k] = @ + 1] \in [ReplyKinds -> Nat]
  BY <1>1
<1> QED
  BY <1>2 DEF SessionType, Publish

LEMMA SessionTypeStep ==
  ASSUME SessionType, NEW t \in Threads, SessionStep(t), Watch
  PROVE  SessionType'
<1>w. overlap' \in {"never", "now", "before"} /\ torn' \in BOOLEAN
  BY WatchType
<1> USE DEF SessionType
<1>1. /\ th[t] \in Activities /\ th[t].msg \in Ids /\ buf.msg \in Ids
      /\ Cmds \subseteq Ids /\ th[t].at \in Labels
  BY DEF Activities, Cmds, Ids
<1>2. Labels \subseteq Labels /\ {"idle_expires", "idle_wait", "set_idle", "check_buf",
       "clear_buf", "input", "hold", "open", "nok", "ack", "start_expires", "start_wait",
       "set_wait", "sat_nok", "reset_rx", "clear_rx", "moid_expires", "moid_wait"} \subseteq Labels
  BY DEF Labels
<1>3. CASE ReadState(t)
  BY <1>w, <1>2, <1>3, GotoType DEF ReadState, Goto, session, receiver
<1>4. CASE Hold(t)
  <2>1. buf' \in [msg : Ids, waiting : BOOLEAN]
    BY <1>w, <1>1, <1>4 DEF Hold
  <2>2. dropped' \subseteq Ids
    BY <1>w, <1>4 DEF Hold
  <2> QED
    BY <1>w, <1>4, <2>1, <2>2, EndInputType DEF Hold
<1>5. CASE Open(t)
  <2>1. sent' \in [Cmds -> Nat]
    <3>1. CASE sent' = [sent EXCEPT ![th[t].msg] = @ + 1]
      <4>1. \A c \in Cmds : sent[c] + 1 \in Nat
        OBVIOUS
      <4> QED
        BY <3>1, <4>1
    <3> QED
      BY <1>w, <1>5, <3>1 DEF Open
  <2>2. Goto(t, "nok") \/ Goto(t, "ack")
    BY <1>w, <1>5 DEF Open
  <2>3. th' \in [Threads -> Activities]
    <3> HIDE DEF SessionType
    <3>1. th \in [Threads -> Activities] /\ "nok" \in Labels /\ "ack" \in Labels
      BY <1>w, <1>2 DEF SessionType
    <3> QED
      BY <2>2, <3>1, GotoType DEF Goto
  <2> QED
    BY <1>w, <1>1, <1>5, <2>1, <2>3 DEF Open
<1>6. CASE RefuseType(t)
  BY <1>w, <1>6, EndInputType, PublishType DEF RefuseType, ReplyKinds
<1>7. CASE AckOk(t)
  BY <1>w, <1>2, <1>7, GotoType, PublishType DEF AckOk, ReplyKinds, Goto
<1>8. CASE StartTimerExpires(t)
  BY <1>w, <1>2, <1>8, TmrType, GotoType DEF StartTimerExpires, Goto, session, receiver
<1>9. CASE StartTimerWait(t)
  BY <1>w, <1>2, <1>9, TmrType, GotoType DEF StartTimerWait, Goto, session, receiver
<1>10. CASE SetWaitMsg(t)
  BY <1>w, <1>10, EndInputType DEF SetWaitMsg
<1>11. CASE ResetRx(t)
  BY <1>w, <1>2, <1>11, GotoType DEF ResetRx, Goto, session
<1>20. CASE ClearRx(t)
  BY <1>w, <1>2, <1>20, GotoType DEF ClearRx, Goto, session
<1>12. CASE IdleTimerExpires(t)
  BY <1>w, <1>2, <1>12, TmrType, GotoType DEF IdleTimerExpires, Goto, session, receiver
<1>13. CASE IdleTimerWait(t)
  BY <1>w, <1>2, <1>13, TmrType, GotoType DEF IdleTimerWait, Goto, session, receiver
<1>14. CASE SetIdle(t)
  BY <1>w, <1>2, <1>14, GotoType DEF SetIdle, Goto
<1>15. CASE CheckBuffer(t)
  <2>1. CASE th' = [th EXCEPT ![t] = [at |-> "input", msg |-> buf.msg, nested |-> TRUE]]
             /\ tmr' = tmr
    <3>1. th' \in [Threads -> Activities]
      BY <1>w, <1>1, <1>2, <2>1, GotoType
    <3> QED
      BY <1>w, <1>15, <2>1, <3>1 DEF CheckBuffer, session, receiver
  <2>2. CASE Leave(t)
    BY <1>w, <1>15, <2>2, TmrType, RestType DEF CheckBuffer, Leave, session, receiver
  <2> QED
    BY <1>w, <1>15, <2>1, <2>2 DEF CheckBuffer
<1>16. CASE ClearBuffer(t)
  BY <1>w, <1>16, TmrType, RestType DEF ClearBuffer, Leave
<1>17. CASE SatNok(t)
  BY <1>w, <1>2, <1>17, GotoType, PublishType DEF SatNok, Goto, ReplyKinds
<1>18. CASE ModuleId(t)
  <2>1. announced' \in {"no", "first", "late"}
    BY <1>18 DEF ModuleId
  <2> QED
    BY <1>w, <1>2, <1>18, <2>1, GotoType DEF ModuleId, Goto, session, receiver
<1>19. CASE ModuleIdReturns(t)
  BY <1>w, <1>19, TmrType, RestType DEF ModuleIdReturns, session, receiver
<1> QED
  BY <1>w, <1>3, <1>4, <1>5, <1>6, <1>7, <1>8, <1>9, <1>10, <1>11, <1>12, <1>13, <1>14,
     <1>15, <1>16, <1>17, <1>18, <1>19, <1>20 DEF SessionStep

LEMMA SessionTypeNext ==
  ASSUME TypeOK, [Next]_vars
  PROVE  SessionType'
<1>1. /\ "block" \in Threads /\ "timer" \in Threads /\ SessionType
      /\ {"input", "rest", "check", "reset_rx", "sat_nok", "module_id"} \subseteq Labels
      /\ States \subseteq Labels
      /\ th \in [Threads -> Activities] /\ tmr \in Timers(Handlers) /\ rx.state \in States
  BY TypeParts, Ranges DEF SessionType, ReceiverType, Threads, Labels, BitSteps
<1>w. Watch \/ UNCHANGED <<overlap, torn>>
        => overlap' \in {"never", "now", "before"} /\ torn' \in BOOLEAN
  BY <1>1, WatchType
<1>2. ASSUME NEW t \in Threads, SessionStep(t), Watch
      PROVE  SessionType'
  BY <1>1, <1>2, SessionTypeStep
<1>3. CASE InputCommand /\ Watch
  <2>1. arrived' \in Ids
    BY <1>1, <1>3, BoundsAssumption DEF InputCommand, SessionType, Ids
  <2> QED
    BY <1>1, <1>3, <1>w, <2>1, GotoType DEF InputCommand, SessionType
<1>4. CASE InputRefused /\ Watch
  BY <1>1, <1>4, <1>w, PublishType DEF InputRefused, SessionType, ReplyKinds
<1>5. CASE GeneralWork /\ Watch
  BY <1>1, <1>5, <1>w, GotoType DEF GeneralWork, Goto, session, SessionType
<1>6. CASE ReceiveBit /\ Watch
  <2>1. th' \in [Threads -> Activities]
    BY <1>1, <1>6, BitFacts, GotoType DEF Goto
  <2>2. UNCHANGED <<session, tmr, announced>>
    BY <1>1, <1>6, BitFacts
  <2> QED
    BY <1>1, <1>6, <1>w, <2>1, <2>2 DEF session, SessionType
<1>7. CASE TimerElapses /\ Watch
  BY <1>1, <1>7, <1>w, TmrType DEF TimerElapses, session, receiver, SessionType
<1>8. CASE RunCompletion /\ Watch
  <2>1. \/ tmr' = Dispatched(tmr) /\ (Goto("timer", "sat_nok") \/ Goto("timer", "module_id"))
        \/ tmr' = Returned(Dispatched(tmr)) /\ th' = th
    BY <1>8 DEF RunCompletion
  <2>2. tmr' \in Timers(Handlers)
    BY <1>1, <1>8, <2>1, TmrType DEF RunCompletion
  <2>3. th' \in [Threads -> Activities]
    BY <1>1, <2>1, GotoType DEF Goto
  <2> QED
    BY <1>1, <1>8, <1>w, <2>2, <2>3 DEF RunCompletion, session, receiver, SessionType
<1>9. CASE UNCHANGED vars
  BY <1>1, <1>9 DEF vars, session, receiver, SessionType
<1> QED
  BY <1>2, <1>3, <1>4, <1>5, <1>6, <1>7, <1>8, <1>9
  DEF Next, HandlerStep, Receive, RunTimer, Exhausted

------------------------------------------------------------------------------
(* The receiver                                                             *)

LEMMA NextBitFacts ==
  ASSUME pos \in 1..Cycle, NextBit
  PROVE  /\ pos' \in 1..Cycle
         /\ pos < Cycle => pos' = pos + 1
         /\ pos = Cycle => pos' = 1
  BY Lengths DEF NextBit

\* A rejected head sends the receiver back some bits, but not out of the frame.
LEMMA BackFacts ==
  ASSUME pos \in 1..Cycle, pos > MarkerEnd, NEW back \in Backs, pos' = pos - back + 1
  PROVE  pos' \in 1..Cycle
<1>1. back \in Int /\ 1 <= back /\ back <= MarkerEnd
  BY BitsAssumption, Lengths
<1> QED
  BY <1>1, Lengths

\* What the end of a case does to the count of missed frames.
MissedOne == missed' = IF pos = Cycle /\ missed < MaxMissed THEN missed + 1 ELSE missed

LEMMA MissedType ==
  ASSUME missed \in 0..MaxMissed, MissedOne
  PROVE  /\ missed' \in 0..MaxMissed
         /\ missed' <= missed + 1
         /\ pos # Cycle => missed' = missed
  BY BoundsAssumption DEF MissedOne

\* HeadInv, for a receiver in state st with counters c and f at bit p, and a
\* block thread about to take step b.
HeadAt(b, st, p, c, f) ==
  /\ b \in States => st \in {b, "SEARCH"}
  /\ b = "check" => st \in {"RX_DATA", "SEARCH"}
  /\ "RX_CTRL" \in {b, st} => MarkerEnd < p /\ p <= MarkerEnd + 1 + c
  /\ "RX_CFEC" \in {b, st} => MarkerEnd < p /\ p <= MarkerEnd + CtrlBits + 1 + f /\ c = 0

LEMMA HeadOf ==
  /\ HeadInv <=> HeadAt(th["block"].at, rx.state, pos, rx.ctrl, rx.fec)
  /\ HeadInv' <=> HeadAt(th'["block"].at, rx'.state, pos', rx'.ctrl, rx'.fec)
  BY DEF HeadInv, HeadAt

LEMMA BitReceiver ==
  ASSUME TypeOK, HeadInv, ReceiveBit
  PROVE  ReceiverType' /\ HeadInv'
<1>0. /\ pos \in 1..Cycle /\ rx \in Receivers /\ missed \in 0..MaxMissed
      /\ th \in [Threads -> Activities]
  BY TypeParts DEF ReceiverType, SessionType
<1>1. /\ rx.ctrl \in Nat /\ rx.ctrl < CtrlBits /\ rx.fec \in Nat /\ rx.fec < FecBits
      /\ rx.state \in States
  BY <1>0, Ranges
<1>2. th'["block"].at \notin States /\ (th'["block"].at = "check" => RxData)
  <2>1. th'["block"].at \in {"rest", "check", "reset_rx"}
    BY <1>0, BitFacts
  <2>2. "block" \in Threads
    BY DEF Threads
  <2>3. Goto("block", "rest") \/ Goto("block", "reset_rx") => th'["block"].at # "check"
    BY <1>0, <2>2, GotoFacts
  <2> QED
    BY <1>0, <2>1, <2>3, BitFacts DEF States
<1>m. EndBit => missed' \in 0..MaxMissed
  BY <1>0, MissedType DEF EndBit, MissedOne
<1> SUFFICES /\ pos' \in 1..Cycle /\ rx' \in Receivers /\ missed' \in 0..MaxMissed
             /\ th'["block"].at = "check" => rx'.state \in {"RX_DATA", "SEARCH"}
             /\ rx'.state = "RX_CTRL" => MarkerEnd < pos' /\ pos' <= MarkerEnd + 1 + rx'.ctrl
             /\ rx'.state = "RX_CFEC" =>
                  MarkerEnd < pos' /\ pos' <= MarkerEnd + CtrlBits + 1 + rx'.fec /\ rx'.ctrl = 0
  BY <1>2, HeadOf DEF HeadAt, ReceiverType, States
<1>3. CASE Search
  <2>1. pos' \in 1..Cycle /\ missed' \in 0..MaxMissed
    BY <1>0, <1>3, <1>m, NextBitFacts DEF Search
  <2>2. MarkerFound => pos' = MarkerEnd + 1
    BY <1>0, <1>3, NextBitFacts, Lengths DEF MarkerFound, Search
  <2>3. ~RxData
    BY <1>3 DEF Search, RxData
  <2> QED
    BY <1>0, <1>1, <1>2, <1>3, <2>1, <2>2, <2>3, SearchFacts, Lengths
<1>4. CASE RxCtrl
  <2>1. /\ MarkerEnd < pos /\ pos <= MarkerEnd + 1 + rx.ctrl
        /\ rx.state \in {"RX_CTRL", "SEARCH"} /\ ~RxData /\ NextBit
    BY <1>4 DEF HeadInv, RxCtrl, RxData, States
  <2>2. pos' = pos + 1 /\ pos' \in 1..Cycle /\ missed' \in 0..MaxMissed
    BY <1>0, <1>1, <1>4, <1>m, <2>1, NextBitFacts, Lengths DEF RxCtrl
  <2>3. /\ MarkerEnd < pos' /\ pos' <= MarkerEnd + 1 + (rx.ctrl + 1)
        /\ rx.ctrl + 1 = CtrlBits => pos' <= MarkerEnd + CtrlBits + 1 + rx.fec
    BY <1>0, <1>1, <2>1, <2>2, Lengths
  <2>4. CASE rx.ctrl + 1 = CtrlBits
    BY <1>0, <1>2, <1>4, <2>1, <2>2, <2>3, <2>4, RxCtrlFacts
  <2>5. CASE rx.ctrl + 1 # CtrlBits
    BY <1>0, <1>2, <1>4, <2>1, <2>2, <2>3, <2>5, RxCtrlFacts
  <2> QED
    BY <2>4, <2>5
<1>5. CASE RxCfec
  <2>1. /\ MarkerEnd < pos /\ pos <= MarkerEnd + CtrlBits + 1 + rx.fec /\ rx.ctrl = 0
        /\ rx.state \in {"RX_CFEC", "SEARCH"} /\ ~RxData
    BY <1>5 DEF HeadInv, RxCfec, RxData, States
  <2>2. NextBit => pos' = pos + 1 /\ pos' \in 1..Cycle
    BY <1>0, <1>1, <2>1, NextBitFacts, Lengths
  <2>3. NextBit => MarkerEnd < pos' /\ pos' <= MarkerEnd + CtrlBits + 1 + (rx.fec + 1)
    BY <1>0, <1>1, <2>1, <2>2, Lengths
  <2>4. missed' \in 0..MaxMissed
    BY <1>5, <1>m DEF RxCfec
  <2>5. CASE rx.fec + 1 # FecBits /\ rx'.state = rx.state /\ NextBit
    BY <1>0, <1>2, <1>5, <2>1, <2>2, <2>3, <2>4, <2>5, RxCfecFacts
  <2>6. CASE rx'.state = "RX_DATA" /\ NextBit
    BY <1>0, <1>2, <1>5, <2>2, <2>4, <2>6, RxCfecFacts
  <2>7. CASE rx'.state = "SEARCH" /\ \E back \in Backs : pos' = pos - back + 1
    <3>1. pos' \in 1..Cycle
      BY <1>0, <2>1, <2>7, BackFacts
    <3> QED
      BY <1>0, <1>2, <1>5, <2>4, <2>7, <3>1, RxCfecFacts
  <2> QED
    BY <1>0, <1>5, <2>5, <2>6, <2>7, RxCfecFacts
<1>6. CASE RxData
  <2>1. rx.state \in {"RX_DATA", "SEARCH"}
    BY <1>6 DEF HeadInv, RxData, States
  <2>2. pos' \in 1..Cycle /\ missed' \in 0..MaxMissed
    BY <1>0, <1>6, <1>m, NextBitFacts DEF RxData
  <2> QED
    BY <1>0, <1>6, <2>1, <2>2, RxDataFacts
<1>7. CASE CheckMessage
  <2>1. rx.state \in {"RX_DATA", "SEARCH"} /\ ~RxData
    BY <1>7 DEF HeadInv, CheckMessage, RxData
  <2>2. pos' \in 1..Cycle
    BY <1>0, <1>7, NextBitFacts DEF CheckMessage
  <2>3. missed' \in 0..MaxMissed
    BY <1>0, <1>7, <1>m, CheckFacts, BoundsAssumption
  <2> QED
    BY <1>0, <1>2, <1>7, <2>1, <2>2, <2>3, CheckFacts
<1> QED
  BY <1>3, <1>4, <1>5, <1>6, <1>7 DEF ReceiveBit

\* What neither a bit nor reset_rx does leaves the receiver alone.
LEMMA OtherSteps ==
  ASSUME TypeOK, [Next]_vars, ~ReceiveBit, \A t \in Threads : ~ResetRx(t) /\ ~ClearRx(t)
  PROVE  UNCHANGED receiver
<1>1. ASSUME NEW t \in Threads, SessionStep(t)
      PROVE  UNCHANGED receiver
  BY <1>1, ReceiverAlone
<1> QED
  BY <1>1 DEF Next, HandlerStep, Receive, RunTimer, Exhausted, InputCommand, InputRefused,
     GeneralWork, TimerElapses, RunCompletion, vars

LEMMA ReceiverNext ==
  ASSUME TypeOK, HeadInv, [Next]_vars
  PROVE  ReceiverType' /\ HeadInv'
<1>0. /\ pos \in 1..Cycle /\ rx \in Receivers /\ missed \in 0..MaxMissed
      /\ th \in [Threads -> Activities] /\ "block" \in Threads /\ "timer" \in Threads
  BY TypeParts DEF ReceiverType, SessionType, Threads
<1>1. ASSUME NEW t \in Threads, SessionStep(t)
      PROVE  ReceiverType' /\ HeadInv'
  <2>1. /\ ReceiverType' /\ pos' = pos /\ rx'.ctrl = rx.ctrl /\ rx'.fec = rx.fec
        /\ rx'.state \in {rx.state, "SEARCH"}
    <3>1. CASE ResetRx(t)
      BY <1>0, <3>1, ResetFacts, BoundsAssumption DEF ResetRx, ReceiverType
    <3>2. CASE ClearRx(t)
      BY <1>0, <3>2, ResetFacts DEF ClearRx, ReceiverType
    <3>3. CASE ~ResetRx(t) /\ ~ClearRx(t)
      BY <1>0, <1>1, <3>3, ReceiverAlone DEF receiver, ReceiverType
    <3> QED
      BY <3>1, <3>2, <3>3
  <2>2. th'["block"].at \in {th["block"].at} \cup Inside \cup {"rest"}
    BY <1>0, <1>1, StepFacts
  <2> QED
    BY <2>1, <2>2, HeadOf DEF HeadAt, Inside, BitSteps, States
<1>2. CASE ReceiveBit
  BY <1>2, BitReceiver
<1>3. CASE GeneralWork
  <2>1. th'["block"].at = rx.state /\ UNCHANGED receiver /\ rx.state \in States
    BY <1>0, <1>3, GotoFacts, Ranges DEF GeneralWork
  <2> QED
    BY <1>0, <2>1, HeadOf DEF HeadAt, receiver, ReceiverType, States
<1>4. CASE InputCommand
  <2>1. th'["block"].at = "input" /\ UNCHANGED receiver
    BY <1>0, <1>4, EnterFacts DEF InputCommand
  <2> QED
    BY <1>0, <2>1, HeadOf DEF HeadAt, receiver, ReceiverType, States
<1>5. CASE InputRefused \/ TimerElapses \/ RunCompletion \/ UNCHANGED vars
  <2>1. UNCHANGED receiver /\ th'["block"] = th["block"]
    <3>1. CASE RunCompletion
      <4>1. th' = th \/ Goto("timer", "sat_nok") \/ Goto("timer", "module_id")
        BY <3>1 DEF RunCompletion
      <4> QED
        BY <1>0, <3>1, <4>1, GotoFacts DEF RunCompletion
    <3>2. CASE InputRefused \/ TimerElapses \/ UNCHANGED vars
      BY <3>2 DEF InputRefused, TimerElapses, vars
    <3> QED
      BY <1>5, <3>1, <3>2
  <2> QED
    BY <1>0, <2>1, HeadOf DEF HeadAt, receiver, ReceiverType
<1> QED
  BY <1>1, <1>2, <1>3, <1>4, <1>5 DEF Next, HandlerStep, Receive, RunTimer, Exhausted

LEMMA TypeInit ==
  ASSUME Init
  PROVE  TypeOK /\ HeadInv
<1>1. SessionType
  <2>1. tmr \in Timers(Handlers)
    <3>1. "finite" \in Deadlines /\ "module_id" \in Handlers
      BY DEF Deadlines, Handlers
    <3> QED
      BY <3>1 DEF Init, NewTimer, Timers
  <2>2. th \in [Threads -> Activities]
    BY BoundsAssumption DEF Init, Activities, Resting, Ids, Labels
  <2>3. /\ arrived \in Ids /\ g \in Ids /\ buf \in [msg : Ids, waiting : BOOLEAN]
        /\ replies \in [Ids -> [ReplyKinds -> Nat]]
    BY BoundsAssumption DEF Init, Ids
  <2> QED
    BY <2>1, <2>2, <2>3 DEF Init, SessionType
<1>2. ReceiverType
  <2>1. /\ 0 \in Headers /\ 0 \in Ctrls /\ 0 \in Fecs /\ 0 \in Datas
        /\ "SEARCH" \in States /\ "cleared" \in Heads
    BY Lengths DEF Headers, Ctrls, Fecs, Datas, States, Heads
  <2>2. rx \in Receivers
    BY <2>1 DEF Init, Receivers
  <2> QED
    BY <2>2, Lengths, BoundsAssumption DEF Init, ReceiverType
<1>3. HeadInv
  <2>1. th["block"].at = "rest" /\ rx.state = "SEARCH"
    BY DEF Init, Resting, Threads
  <2> QED
    BY <2>1 DEF HeadInv, States
<1> QED
  BY <1>1, <1>2, <1>3, TypeParts

LEMMA TypeInvariant == Spec => [](TypeOK /\ HeadInv)
<1>1. Init => TypeOK /\ HeadInv
  BY TypeInit
<1>2. TypeOK /\ HeadInv /\ [Next]_vars => (TypeOK /\ HeadInv)'
  <2>1. SUFFICES ASSUME TypeOK, HeadInv, [Next]_vars
                 PROVE  TypeOK' /\ HeadInv'
    OBVIOUS
  <2> QED
    BY <2>1, SessionTypeNext, ReceiverNext, TypeParts
<1> QED
  BY <1>1, <1>2, PTL DEF Spec

\* No message, bit, timeout or interleaving of the two threads brings a variable
\* of tnc_b1_impl out of its range; above all no counter of its read functions but
\* block_c, which may pass its limit.
THEOREM TypeCorrect == Spec => []TypeOK
  BY TypeInvariant, PTL

------------------------------------------------------------------------------
(* Where the threads are                                                    *)

HeldSteps == InputSteps \cup {"nok", "ack"} \cup RepliedSteps

\* What ThreadInv says of a thread t whose activity is a.
ThreadAt(t, a, s) ==
  /\ t = "block" => a.at \notin {"sat_nok", "module_id", "moid_expires", "moid_wait"}
  /\ t = "timer" => a.at \notin BitSteps
  /\ a.nested => a.at \in HeldSteps
  /\ a.at = "clear_buf" => a.nested
  /\ a.at \in HeldSteps => a.msg \in Cmds
  /\ a.at = "nok" => a.msg \in UnknownCmds
  /\ a.at \in {"ack"} \cup TimerSteps => s[a.msg] > 0

LEMMA ThreadOf ==
  ThreadInv <=> /\ \A t \in Threads : ThreadAt(t, th[t], sent)
                /\ buf.waiting => buf.msg \in Cmds
  BY DEF ThreadInv, ThreadAt, Threads, HeldSteps

\* No transmission is forgotten.
LEMMA SentGrows ==
  ASSUME SessionType, NEW t \in Threads, SessionStep(t), NEW c \in Cmds
  PROVE  /\ sent[c] \in Nat /\ sent'[c] \in Nat /\ sent[c] <= sent'[c]
         /\ Open(t) /\ th[t].msg = c /\ c \notin UnknownCmds => sent'[c] = sent[c] + 1
         /\ sent'[c] # sent[c] => Open(t) /\ th[t].msg = c /\ c \notin UnknownCmds
<1>0. sent \in [Cmds -> Nat]
  BY DEF SessionType
<1>1. CASE Open(t)
  BY <1>0, <1>1 DEF Open
<1>2. CASE ~Open(t)
  <2>1. sent' = sent
    BY <1>2 DEF SessionStep, ReadState, Hold, RefuseType, AckOk, StartTimerExpires,
                StartTimerWait, SetWaitMsg, ResetRx, ClearRx, IdleTimerExpires, IdleTimerWait,
                SetIdle, CheckBuffer, ClearBuffer, SatNok, ModuleId, ModuleIdReturns, session
  <2> QED
    BY <1>0, <1>2, <2>1
<1> QED
  BY <1>1, <1>2

LEMMA ThreadStep ==
  ASSUME SessionType, ThreadInv, NEW t \in Threads, SessionStep(t)
  PROVE  ThreadInv'
<1> USE DEF ThreadAt, HeldSteps, InputSteps, RepliedSteps, TimerSteps, BitSteps, States
<1>0. /\ buf \in [msg : Ids, waiting : BOOLEAN] /\ th \in [Threads -> Activities]
      /\ \A c \in Cmds : sent[c] > 0 => sent'[c] > 0
  BY SentGrows DEF SessionType
<1>a. \A u \in Threads : u # t => th'[u] = th[u]
  BY <1>0, StepFacts
<1>b. ThreadAt(t, th[t], sent) /\ (buf.waiting => buf.msg \in Cmds)
  BY ThreadOf
<1> SUFFICES ThreadAt(t, th'[t], sent') /\ (buf'.waiting => buf'.msg \in Cmds)
  <2>1. ASSUME ThreadAt(t, th'[t], sent'), buf'.waiting => buf'.msg \in Cmds
        PROVE  ThreadInv'
    <3>1. \A u \in Threads : u # t => ThreadAt(u, th'[u], sent')
      BY <1>0, <1>a, ThreadOf
    <3>2. \A u \in Threads : ThreadAt(u, th'[u], sent')
      BY <2>1, <3>1
    <3> QED
      BY <2>1, <3>2 DEF ThreadInv, Threads
  <2> QED
    BY <2>1
<1>e. ASSUME th'[t] = Resting PROVE ThreadAt(t, th'[t], sent')
  BY <1>e DEF Resting
<1>1. CASE ReadState(t)
  BY <1>0, <1>1, <1>b, GotoFacts DEF ReadState, session
<1>2. CASE Hold(t)
  <2>1. buf'.msg \in Cmds
    BY <1>0, <1>2, <1>b DEF Hold
  <2>2. CASE th[t].nested
    BY <1>0, <1>2, <1>b, <2>1, <2>2, EndInputFacts DEF Hold
  <2>3. CASE ~th[t].nested
    BY <1>0, <1>2, <1>e, <2>1, <2>3, EndInputFacts DEF Hold
  <2> QED
    BY <2>2, <2>3
<1>3. CASE Open(t)
  <2>1. th[t].msg \in Cmds /\ th[t].at = "open"
    BY <1>3, <1>b DEF Open
  <2>2. th[t].msg \notin UnknownCmds => sent'[th[t].msg] > 0
    BY <1>3, <2>1, SentGrows
  <2> QED
    BY <1>0, <1>3, <1>b, <2>1, <2>2, GotoFacts DEF Open
<1>4. CASE RefuseType(t)
  <2>1. CASE th[t].nested
    BY <1>0, <1>4, <1>b, <2>1, EndInputFacts DEF RefuseType
  <2>2. CASE ~th[t].nested
    BY <1>0, <1>4, <1>b, <1>e, <2>2, EndInputFacts DEF RefuseType
  <2> QED
    BY <2>1, <2>2
<1>5. CASE AckOk(t)
  BY <1>0, <1>5, <1>b, GotoFacts DEF AckOk
<1>6. CASE StartTimerExpires(t)
  BY <1>0, <1>6, <1>b, GotoFacts DEF StartTimerExpires, session
<1>7. CASE StartTimerWait(t)
  BY <1>0, <1>7, <1>b, GotoFacts DEF StartTimerWait, session
<1>8. CASE SetWaitMsg(t)
  <2>1. CASE th[t].nested
    BY <1>0, <1>8, <1>b, <2>1, EndInputFacts DEF SetWaitMsg
  <2>2. CASE ~th[t].nested
    BY <1>0, <1>8, <1>b, <1>e, <2>2, EndInputFacts DEF SetWaitMsg
  <2> QED
    BY <2>1, <2>2
<1>9. CASE ResetRx(t)
  BY <1>0, <1>9, <1>b, GotoFacts DEF ResetRx, session
<1>10. CASE ClearRx(t)
  BY <1>0, <1>10, <1>b, GotoFacts DEF ClearRx, session
<1>11. CASE IdleTimerExpires(t)
  BY <1>0, <1>11, <1>b, GotoFacts DEF IdleTimerExpires, session
<1>12. CASE IdleTimerWait(t)
  BY <1>0, <1>12, <1>b, GotoFacts DEF IdleTimerWait, session
<1>13. CASE SetIdle(t)
  BY <1>0, <1>13, <1>b, GotoFacts DEF SetIdle
<1>14. CASE CheckBuffer(t)
  <2>1. CASE /\ th' = [th EXCEPT ![t] = [at |-> "input", msg |-> buf.msg, nested |-> TRUE]]
             /\ buf.waiting
    <3>1. th'[t] = [at |-> "input", msg |-> buf.msg, nested |-> TRUE]
      BY <1>0, <2>1, EnterFacts
    <3> QED
      BY <1>14, <1>b, <2>1, <3>1 DEF CheckBuffer, session
  <2>2. CASE Leave(t)
    BY <1>0, <1>14, <1>b, <1>e, <2>2, LeaveFacts DEF CheckBuffer, session
  <2> QED
    BY <1>14, <2>1, <2>2 DEF CheckBuffer
<1>15. CASE ClearBuffer(t)
  BY <1>0, <1>15, <1>e, LeaveFacts DEF ClearBuffer
<1>16. CASE SatNok(t)
  BY <1>0, <1>16, <1>b, GotoFacts DEF SatNok
<1>17. CASE ModuleId(t)
  BY <1>0, <1>17, <1>b, GotoFacts DEF ModuleId, session
<1>18. CASE ModuleIdReturns(t)
  BY <1>0, <1>18, <1>b, <1>e, EnterFacts DEF ModuleIdReturns, session
<1> QED
  BY <1>1, <1>2, <1>3, <1>4, <1>5, <1>6, <1>7, <1>8, <1>9, <1>10, <1>11, <1>12, <1>13,
     <1>14, <1>15, <1>16, <1>17, <1>18 DEF SessionStep

LEMMA ThreadNext ==
  ASSUME TypeOK, ThreadInv, [Next]_vars
  PROVE  ThreadInv'
<1> USE DEF ThreadAt, HeldSteps, InputSteps, RepliedSteps, TimerSteps, BitSteps, States
<1>0. /\ "block" \in Threads /\ "timer" \in Threads /\ SessionType
      /\ th \in [Threads -> Activities] /\ rx.state \in States
  BY TypeParts, Ranges DEF SessionType, ReceiverType, Threads
<1>1. ASSUME NEW t \in Threads, SessionStep(t)
      PROVE  ThreadInv'
  BY <1>0, <1>1, ThreadStep
<1>2. CASE InputCommand
  <2>1. th'["block"] = [at |-> "input", msg |-> arrived + 1, nested |-> FALSE]
    BY <1>0, <1>2, EnterFacts DEF InputCommand
  <2>2. arrived + 1 \in Cmds
    BY <1>0, <1>2, BoundsAssumption DEF InputCommand, SessionType, Ids, Cmds
  <2>3. th'["timer"] = th["timer"] /\ UNCHANGED <<buf, sent>>
    BY <1>0, <1>2, EnterFacts DEF InputCommand
  <2> QED
    BY <2>1, <2>2, <2>3 DEF Threads, ThreadInv
<1>3. CASE InputRefused
  BY <1>3 DEF InputRefused, ThreadInv
\* The other steps take a thread that holds no message from one step to another.
<1>b. ASSUME NEW t \in Threads, NEW l, Goto(t, l), UNCHANGED <<buf, sent>>,
             th[t].at \in BitSteps \cup {"rest"},
             \/ t = "block" /\ l \in BitSteps \cup {"rest", "reset_rx"}
             \/ t = "timer" /\ l \in {"sat_nok", "module_id"}
      PROVE  ThreadInv'
  <2>1. /\ th'[t].at = l /\ th'[t].nested = th[t].nested
        /\ \A u \in Threads : u # t => th'[u] = th[u]
    BY <1>0, <1>b, GotoFacts
  <2>2. ThreadAt(t, th'[t], sent')
    BY <1>b, <2>1, ThreadOf
  <2>3. \A u \in Threads : u # t => ThreadAt(u, th'[u], sent')
    BY <1>b, <2>1, ThreadOf
  <2>4. \A u \in Threads : ThreadAt(u, th'[u], sent')
    BY <2>2, <2>3
  <2>5. buf'.waiting => buf'.msg \in Cmds
    BY <1>b, ThreadOf
  <2> QED
    BY <2>4, <2>5 DEF ThreadInv, Threads
<1>4. CASE GeneralWork
  BY <1>0, <1>4, <1>b DEF GeneralWork, TakesMessage, session
<1>5. CASE ReceiveBit
  BY <1>0, <1>5, <1>b, BitFacts DEF session
<1>6. CASE TimerElapses
  BY <1>6 DEF TimerElapses, session, ThreadInv
<1>7. CASE RunCompletion
  <2>1. th' = th \/ Goto("timer", "sat_nok") \/ Goto("timer", "module_id")
    BY <1>7 DEF RunCompletion
  <2>2. th' = th => ThreadInv'
    BY <1>7 DEF RunCompletion, session, ThreadInv
  <2> QED
    BY <1>0, <1>7, <1>b, <2>1, <2>2 DEF RunCompletion, session
<1>8. CASE UNCHANGED vars
  BY <1>8 DEF vars, session, ThreadInv
<1> QED
  BY <1>1, <1>2, <1>3, <1>4, <1>5, <1>6, <1>7, <1>8
  DEF Next, HandlerStep, Receive, RunTimer, Exhausted

LEMMA ThreadsCorrect == Spec => [](TypeOK /\ HeadInv /\ ThreadInv)
<1>1. Init => ThreadInv
  <2>1. ASSUME Init PROVE ThreadInv
    BY <2>1 DEF Init, ThreadInv, Resting, Threads, InputSteps, RepliedSteps, TimerSteps,
                BitSteps, States
  <2> QED
    BY <2>1
<1> QED
  BY <1>1, TypeInvariant, ThreadNext, PTL DEF Spec

------------------------------------------------------------------------------
(* A receiver that no reset has torn                                        *)

\* DataInv, for a receiver in state st with h bits in header and counters c, f, d at
\* bit p, and a block thread about to take step b.
DataAt(b, st, h, c, f, d, p) ==
  /\ st = "RX_DATA" =>
       /\ c = 0 /\ f = 0
       /\ b \in {"reset_rx", "clear_rx"} => d = 0 /\ (p = 1 \/ p > HeadEnd)
       /\ b = "check" => d = 0 /\ HeadEnd < p
       /\ b \notin {"reset_rx", "clear_rx", "check"} => HeadEnd < p /\ p <= HeadEnd + 1 + d
  /\ b \in {"reset_rx", "clear_rx"} => st = "RX_DATA" \/ (st = "SEARCH" /\ h = 0)

LEMMA DataOf ==
  /\ DataInv <=> DataAt(th["block"].at, rx.state, rx.header, rx.ctrl, rx.fec, rx.data, pos)
  /\ DataInv' <=> DataAt(th'["block"].at, rx'.state, rx'.header, rx'.ctrl, rx'.fec, rx'.data, pos')
  BY DEF DataInv, DataAt, Published

\* What the proofs of the five steps of a bit begin with.
BitBegins ==
  /\ TypeOK /\ HeadInv /\ StepInv /\ DataInv
  /\ pos \in 1..Cycle /\ rx \in Receivers /\ missed \in 0..MaxMissed
  /\ th \in [Threads -> Activities]

\* A bit that ends leaves no trace in the threads.
LEMMA BitEnds ==
  ASSUME th \in [Threads -> Activities], NEW l, Goto("block", l), l \in {"rest", "reset_rx"},
         StepInv, rx' \in Receivers, rx'.data < DataBits, th["block"].at \in BitSteps,
         rx'.state \in {"RX_CTRL", "RX_CFEC"} => rx'.head = "open",
         rx'.state = "RX_DATA" => rx'.head = "echo"
  PROVE  StepInv' /\ th'["block"].at = l
<1>1. "block" \in Threads /\ "timer" \in Threads
  BY DEF Threads
<1>2. th'["block"].at = l /\ th'["timer"] = th["timer"]
  BY <1>1, GotoFacts
<1>3. th["timer"].at # "clear_rx"
  BY DEF StepInv
<1> QED
  BY <1>2, <1>3 DEF StepInv, BitSteps, States, At, Threads

\* The search begun in the preamble, or after a marker was missed, in time for
\* the next one.
LEMMA SearchLosses ==
  ASSUME BitBegins, Search
  PROVE  StepInv' /\ DataInv' /\ missed' + Losses' <= missed + Losses
<1>0. /\ pos \in 1..Cycle /\ rx \in Receivers /\ missed \in Nat /\ rx.state = "SEARCH"
      /\ NextBit /\ MissedOne /\ HeadInv /\ Goto("block", "rest")
      /\ th \in [Threads -> Activities] /\ rx.data < DataBits
      /\ th["block"].at \in BitSteps
  BY BoundsAssumption, SearchFacts
     DEF BitBegins, Search, EndBit, MissedOne, StepInv, BitSteps, States
<1>1. /\ rx.header \in Nat /\ rx.header <= SyncBits /\ rx.ctrl \in Nat /\ rx.fec \in Nat
  BY <1>0, Ranges
<1>2. Losses = One(~WillFind(rx.header)) + One(rx.ctrl # 0 \/ rx.fec # 0) + One(rx.data # 0)
  BY <1>0 DEF Losses
<1>s. StepInv' /\ th'["block"].at = "rest"
  BY <1>0, SearchFacts, BitEnds DEF BitBegins
<1>d. DataInv'
  BY <1>0, <1>s, DataOf, SearchFacts DEF DataAt
<1>3. CASE MarkerFound
  <2>1. pos' = MarkerEnd + 1 /\ missed' = missed
    BY <1>0, <1>3, NextBitFacts, Lengths DEF MarkerFound, MissedOne
  <2>2. Losses' = One(rx'.ctrl # pos' - MarkerEnd - 1 \/ rx'.fec # 0) + One(rx'.data # 0)
    BY <1>0, <1>3, SearchFacts DEF Losses
  <2>3. Losses' = One(rx.ctrl # 0 \/ rx.fec # 0) + One(rx.data # 0)
    BY <1>0, <2>1, <2>2, SearchFacts, Lengths DEF One
  <2> QED
    BY <1>0, <1>2, <1>s, <1>d, <2>1, <2>3 DEF One
<1>4. CASE ~MarkerFound
  <2>1. Losses' = One(~WillFind(rx.header)') + One(rx.ctrl # 0 \/ rx.fec # 0) + One(rx.data # 0)
    BY <1>0, <1>4, SearchFacts DEF Losses
  <2>2. CASE pos = Cycle
    <3>1. pos' = 1 /\ missed' <= missed + 1
      BY <1>0, <2>2, NextBitFacts DEF MissedOne
    <3>2. ~WillFind(rx.header)
      BY <2>2, Lengths DEF WillFind
    <3>3. WillFind(rx.header)'
      <4>1. rx'.header \in Nat
        BY <1>0, <1>1, SearchFacts, Ranges
      <4> QED
        BY <3>1, <4>1, Lengths DEF WillFind
    <3>4. missed' \in Nat
      BY <1>0 DEF MissedOne
    <3> DEFINE rest == One(rx.ctrl # 0 \/ rx.fec # 0) + One(rx.data # 0)
    <3>5. Losses = 1 + rest /\ Losses' = rest /\ rest \in Nat
      BY <1>2, <2>1, <3>2, <3>3 DEF One
    <3> HIDE DEF rest
    <3>6. \A a, b \in Nat : a <= b + 1 => a + rest <= b + (1 + rest)
      BY <3>5
    <3> QED
      BY <1>0, <1>s, <1>d, <3>1, <3>4, <3>5, <3>6
  <2>3. CASE pos # Cycle
    <3>1. pos' = pos + 1 /\ missed' = missed
      BY <1>0, <2>3, NextBitFacts, Lengths DEF MissedOne
    <3>2. WillFind(rx.header) => WillFind(rx.header)'
      <4>1. SUFFICES ASSUME WillFind(rx.header) PROVE WillFind(rx.header)'
        OBVIOUS
      <4>2. pos < MarkerEnd
        BY <1>0, <1>1, <1>4, <4>1, Lengths DEF WillFind, MarkerFound
      <4>3. rx'.header = IF rx.header < SyncBits THEN rx.header + 1 ELSE rx.header
        BY <1>0, SearchFacts
      <4> QED
        BY <1>0, <1>1, <3>1, <4>1, <4>2, <4>3, Lengths DEF WillFind
    <3> QED
      BY <1>0, <1>2, <1>s, <1>d, <2>1, <3>1, <3>2 DEF One
  <2> QED
    BY <2>2, <2>3
<1> QED
  BY <1>3, <1>4

LEMMA RxCtrlLosses ==
  ASSUME BitBegins, RxCtrl
  PROVE  StepInv' /\ DataInv' /\ missed' + Losses' <= missed + Losses
<1>0. /\ pos \in 1..Cycle /\ rx \in Receivers /\ missed \in Nat /\ rx.state = "RX_CTRL"
      /\ NextBit /\ MissedOne /\ HeadInv /\ Goto("block", "rest")
      /\ th \in [Threads -> Activities] /\ rx.data < DataBits /\ rx.head = "open"
      /\ th["block"].at \in BitSteps
  BY BoundsAssumption DEF BitBegins, RxCtrl, EndBit, MissedOne, StepInv, BitSteps, States
<1>1. /\ rx.ctrl \in Nat /\ rx.ctrl < CtrlBits /\ rx.fec \in Nat
      /\ MarkerEnd < pos /\ pos <= MarkerEnd + 1 + rx.ctrl
  BY <1>0, Ranges DEF HeadInv
<1>2. pos' = pos + 1 /\ missed' = missed
  BY <1>0, <1>1, NextBitFacts, Lengths DEF MissedOne
<1>3. Losses = One(rx.ctrl # pos - MarkerEnd - 1 \/ rx.fec # 0) + One(rx.data # 0)
  BY <1>0 DEF Losses
<1>s. StepInv' /\ th'["block"].at = "rest"
  BY <1>0, RxCtrlFacts, BitEnds DEF BitBegins
<1>d. DataInv'
  BY <1>0, <1>s, DataOf, RxCtrlFacts DEF DataAt
<1>4. CASE rx.ctrl + 1 # CtrlBits
  <2>1. Losses' = One(rx'.ctrl # pos' - MarkerEnd - 1 \/ rx'.fec # 0) + One(rx'.data # 0)
    BY <1>0, <1>4, RxCtrlFacts DEF Losses
  <2>2. rx'.ctrl # pos' - MarkerEnd - 1 <=> rx.ctrl # pos - MarkerEnd - 1
    BY <1>0, <1>1, <1>2, <1>4, RxCtrlFacts, Lengths
  <2>3. Losses' = Losses
    BY <1>0, <1>3, <2>1, <2>2, RxCtrlFacts DEF One
  <2> QED
    BY <1>0, <1>2, <1>3, <1>s, <1>d, <2>3 DEF One
<1>5. CASE rx.ctrl + 1 = CtrlBits
  <2>1. Losses' = One(rx'.fec # pos' - MarkerEnd - CtrlBits - 1) + One(rx'.data # 0)
    BY <1>0, <1>5, RxCtrlFacts DEF Losses
  <2>2. rx.fec # pos' - MarkerEnd - CtrlBits - 1
          => rx.ctrl # pos - MarkerEnd - 1 \/ rx.fec # 0
    BY <1>0, <1>1, <1>2, <1>5, Lengths
  <2> QED
    BY <1>0, <1>2, <1>3, <1>s, <1>d, <2>1, <2>2, RxCtrlFacts DEF One
<1> QED
  BY <1>4, <1>5

\* A rejected head was read out of step.
LEMMA RxCfecLosses ==
  ASSUME BitBegins, RxCfec
  PROVE  StepInv' /\ DataInv' /\ missed' + Losses' <= missed + Losses
<1>0. /\ pos \in 1..Cycle /\ rx \in Receivers /\ missed \in Nat /\ rx.state = "RX_CFEC"
      /\ MissedOne /\ HeadInv /\ Goto("block", "rest")
      /\ th \in [Threads -> Activities] /\ rx.data < DataBits /\ rx.head = "open"
      /\ th["block"].at \in BitSteps
  BY BoundsAssumption DEF BitBegins, RxCfec, EndBit, MissedOne, StepInv, BitSteps, States
<1>1. /\ rx.fec \in Nat /\ rx.fec < FecBits /\ rx.ctrl = 0 /\ rx.data \in Nat
      /\ MarkerEnd < pos /\ pos <= MarkerEnd + CtrlBits + 1 + rx.fec
  BY <1>0, Ranges DEF HeadInv
<1>2. (NextBit => pos' = pos + 1) /\ missed' = missed
  BY <1>0, <1>1, NextBitFacts, Lengths DEF MissedOne
<1>3. Losses = One(rx.fec # pos - MarkerEnd - CtrlBits - 1) + One(rx.data # 0)
  BY <1>0 DEF Losses
<1>r. rx' \in Receivers /\ rx'.data = rx.data /\ rx'.ctrl = rx.ctrl
  BY <1>0, RxCfecFacts
<1>4. CASE /\ rx.fec + 1 # FecBits /\ rx'.fec = rx.fec + 1
           /\ rx'.state = rx.state /\ rx'.head = rx.head /\ NextBit
  <2>s. StepInv' /\ th'["block"].at = "rest"
    BY <1>0, <1>4, <1>r, BitEnds DEF BitBegins
  <2>d. DataInv'
    BY <1>0, <1>4, <2>s, DataOf DEF DataAt
  <2>1. Losses' = One(rx'.fec # pos' - MarkerEnd - CtrlBits - 1) + One(rx'.data # 0)
    BY <1>0, <1>4 DEF Losses
  <2>2. rx'.fec # pos' - MarkerEnd - CtrlBits - 1 <=> rx.fec # pos - MarkerEnd - CtrlBits - 1
    BY <1>0, <1>1, <1>2, <1>4, Lengths
  <2> QED
    BY <1>0, <1>2, <1>3, <1>r, <2>s, <2>d, <2>1, <2>2 DEF One
<1>5. CASE /\ rx.fec + 1 = FecBits /\ rx'.fec = 0
           /\ pos = HeadEnd /\ rx'.state = "RX_DATA" /\ rx'.head = "echo" /\ NextBit
  <2>s. StepInv' /\ th'["block"].at = "rest"
    BY <1>0, <1>5, <1>r, BitEnds DEF BitBegins
  <2>d. DataInv'
    BY <1>0, <1>1, <1>2, <1>5, <1>r, <2>s, DataOf, Lengths DEF DataAt
  <2>1. Losses' = One(rx'.data # pos' - HeadEnd - 1)
    BY <1>0, <1>5, <2>s DEF Losses, Published
  <2>2. rx.data # pos' - HeadEnd - 1 => rx.data # 0
    BY <1>2, <1>5, Lengths
  <2> QED
    BY <1>0, <1>2, <1>3, <1>r, <2>s, <2>d, <2>1, <2>2 DEF One
<1>6. CASE /\ rx.fec + 1 = FecBits /\ rx'.fec = 0
           /\ pos # HeadEnd /\ rx'.state = "SEARCH"
  <2>s. StepInv' /\ th'["block"].at = "rest"
    BY <1>0, <1>6, <1>r, BitEnds DEF BitBegins
  <2>d. DataInv'
    BY <1>0, <1>6, <2>s, DataOf DEF DataAt
  <2>1. Losses' = One(~WillFind(rx.header)') + One(rx'.ctrl # 0 \/ rx'.fec # 0) + One(rx'.data # 0)
    BY <1>6 DEF Losses
  <2>3. rx.fec # pos - MarkerEnd - CtrlBits - 1
    BY <1>0, <1>1, <1>6, Lengths
  <2> QED
    BY <1>0, <1>1, <1>2, <1>3, <1>6, <1>r, <2>s, <2>d, <2>1, <2>3 DEF One
<1> QED
  BY <1>0, <1>4, <1>5, <1>6, RxCfecFacts

\* Data read in step end with the frame, all blocks of it read.
LEMMA RxDataLosses ==
  ASSUME BitBegins, RxData
  PROVE  StepInv' /\ DataInv' /\ missed' + Losses' <= missed + Losses
<1>0. /\ pos \in 1..Cycle /\ rx \in Receivers /\ missed \in Nat /\ rx.state = "RX_DATA"
      /\ th["block"].at = "RX_DATA" /\ th \in [Threads -> Activities] /\ "block" \in Threads
      /\ rx.data < DataBits /\ rx.head = "echo" /\ th["timer"].at # "clear_rx"
      /\ th["block"].at \in BitSteps
  BY BoundsAssumption DEF BitBegins, RxData, StepInv, BitSteps, States, Threads
<1>1. /\ rx.data \in Nat /\ rx.data < DataBits /\ rx.ctrl = 0 /\ rx.fec = 0
      /\ HeadEnd < pos /\ pos <= HeadEnd + 1 + rx.data
  BY <1>0, Ranges, DataOf DEF BitBegins, DataAt
<1>2. Losses = One(rx.data # pos - HeadEnd - 1)
  BY <1>0 DEF Losses, Published
<1>3. DataComplete <=> rx.data + 1 = DataBits
  BY <1>0 DEF DataComplete, Complete
<1>r. /\ rx' \in Receivers /\ rx'.state = "RX_DATA" /\ rx'.head = "echo"
      /\ rx'.ctrl = 0 /\ rx'.fec = 0
      /\ rx'.data = IF rx.data + 1 = DataBits THEN 0 ELSE rx.data + 1
  BY <1>0, <1>1, <1>3, RxDataFacts
<1>l. rx'.data \in Nat /\ rx'.data < DataBits
  BY <1>1, <1>r, Lengths
<1>4. CASE rx.data + 1 # DataBits /\ EndBit /\ NextBit
  <2>1. pos # Cycle
    BY <1>0, <1>1, <1>4, Lengths
  <2>2. pos' = pos + 1 /\ missed' = missed
    BY <1>0, <1>4, <2>1, NextBitFacts, Lengths DEF EndBit
  <2>s. StepInv' /\ th'["block"].at = "rest"
    BY <1>0, <1>4, <1>l, <1>r, BitEnds DEF EndBit, BitBegins
  <2>d. DataInv'
    BY <1>0, <1>1, <1>4, <1>r, <2>2, <2>s, DataOf, Lengths DEF DataAt
  <2>3. Losses' = One(rx'.data # pos' - HeadEnd - 1)
    BY <1>r, <2>s DEF Losses, Published
  <2>4. rx'.data # pos' - HeadEnd - 1 <=> rx.data # pos - HeadEnd - 1
    BY <1>0, <1>1, <1>4, <1>r, <2>2, Lengths
  <2> QED
    BY <1>0, <1>2, <2>2, <2>s, <2>d, <2>3, <2>4 DEF One
<1>5. CASE /\ rx.data + 1 = DataBits /\ Goto("block", "check")
           /\ UNCHANGED <<pos, missed>>
  <2>1. th'["block"].at = "check" /\ th'["timer"] = th["timer"]
    BY <1>0, <1>5, GotoFacts DEF Threads
  <2>s. StepInv'
    BY <1>0, <1>l, <1>r, <2>1 DEF StepInv, BitSteps, States, At, Threads
  <2>d. DataInv'
    BY <1>1, <1>5, <1>r, <2>1, DataOf DEF DataAt
  <2>2. Losses' = One(pos # Cycle)
    BY <1>5, <1>r, <2>1 DEF Losses, Published
  <2>3. pos # Cycle => rx.data # pos - HeadEnd - 1
    BY <1>0, <1>5, Lengths
  <2> QED
    BY <1>0, <1>2, <1>5, <2>s, <2>d, <2>2, <2>3 DEF One
<1> QED
  BY <1>3, <1>4, <1>5 DEF RxData

LEMMA CheckLosses ==
  ASSUME BitBegins, CheckMessage
  PROVE  StepInv' /\ DataInv' /\ missed' + Losses' <= missed + Losses
<1>0. /\ pos \in 1..Cycle /\ rx \in Receivers /\ missed \in Nat /\ rx.state = "RX_DATA"
      /\ th["block"].at = "check" /\ th \in [Threads -> Activities] /\ "block" \in Threads
      /\ rx.data < DataBits /\ rx.head = "echo" /\ NextBit
      /\ th["block"].at \in BitSteps
  BY BoundsAssumption DEF BitBegins, CheckMessage, StepInv, BitSteps, States, Threads
<1>1. rx.data = 0 /\ rx.ctrl = 0 /\ rx.fec = 0 /\ HeadEnd < pos
  BY <1>0, DataOf DEF BitBegins, DataAt
<1>2. Losses = One(pos # Cycle)
  BY <1>0 DEF Losses, Published
<1>3. IF pos = Cycle THEN pos' = 1 ELSE pos' = pos + 1
  BY <1>0, NextBitFacts, Lengths
<1>r. rx' \in Receivers /\ rx'.ctrl = 0 /\ rx'.fec = 0 /\ rx'.data = 0
  BY <1>0, <1>1, CheckFacts
<1>4. CASE Waste /\ EndBit /\ rx'.state = "SEARCH" /\ rx'.header = 0
  <2>1. pos # Cycle
    <3>1. SUFFICES ASSUME pos = Cycle PROVE FALSE
      OBVIOUS
    <3>2. Cycle - pos = 0 /\ 0 % BlockBits = 0
      BY <3>1, Lengths
    <3>3. Aligned
      BY <3>2 DEF Aligned
    <3> QED
      BY <1>4, <3>3, Lengths DEF errorcount, Waste
  <2>2. missed' = missed
    BY <1>4, <2>1 DEF EndBit
  <2>s. StepInv' /\ th'["block"].at = "rest"
    BY <1>0, <1>4, <1>r, Lengths, BitEnds DEF EndBit, BitBegins
  <2>d. DataInv'
    BY <1>4, <2>s, DataOf DEF DataAt
  <2>3. Losses' = One(~WillFind(rx.header)') + One(rx'.ctrl # 0 \/ rx'.fec # 0) + One(rx'.data # 0)
    BY <1>4 DEF Losses
  <2> QED
    BY <1>0, <1>2, <1>r, <2>1, <2>2, <2>s, <2>d, <2>3 DEF One
<1>5. CASE /\ Goto("block", "reset_rx") /\ rx' = rx
           /\ missed' = IF pos = Cycle THEN 0 ELSE missed
  <2>s. StepInv' /\ th'["block"].at = "reset_rx"
    BY <1>0, <1>5, <1>r, BitEnds DEF BitBegins
  <2>d. DataInv'
    BY <1>0, <1>1, <1>3, <1>5, <2>s, DataOf, Lengths DEF DataAt
  <2>1. Losses' = One(pos' # 1)
    BY <1>0, <1>5, <2>s DEF Losses, Published
  <2> QED
    BY <1>0, <1>2, <1>3, <1>5, <2>s, <2>d, <2>1, Lengths DEF One
<1> QED
  BY <1>0, <1>4, <1>5, CheckFacts

LEMMA LossBounds ==
  ASSUME rx.state \in States
  PROVE  Losses \in 0..3
<1>1. CASE rx.state = "SEARCH"
  BY <1>1 DEF Losses, One
<1>2. CASE rx.state = "RX_CTRL"
  BY <1>2 DEF Losses, One
<1>3. CASE rx.state = "RX_CFEC"
  BY <1>3 DEF Losses, One
<1>4. CASE rx.state = "RX_DATA"
  BY <1>4 DEF Losses, One
<1> QED
  BY <1>1, <1>2, <1>3, <1>4 DEF States

\* Begun before a marker the search finds it, whatever is in header.
LEMMA FoundFromStart ==
  ASSUME pos \in 1..Cycle, pos <= Preamble + 1
  PROVE  WillFind(0)
  BY Lengths DEF WillFind

\* reset_rx in the middle of a frame loses at most that frame and two others, and
\* one in the preamble, or of the block thread itself, none.
LEMMA ResetRxLosses ==
  ASSUME TypeOK, HeadInv, ThreadInv, StepInv, DataInv, NEW t \in Threads, ResetRx(t)
  PROVE  \/ missed' = 0 /\ Losses' \in 0..3
         \/ missed' + Losses' <= missed + Losses
<1>0. /\ pos \in 1..Cycle /\ rx \in Receivers /\ missed \in Nat /\ pos' = pos
      /\ rx.state \in States /\ th["timer"].at # "check"
  BY TypeParts, Ranges, BoundsAssumption DEF ReceiverType, ResetRx, ThreadInv, BitSteps
<1>r. /\ rx'.state = "SEARCH" /\ rx'.header = 0 /\ rx'.ctrl = rx.ctrl /\ rx'.fec = rx.fec
      /\ rx'.data = rx.data
  BY <1>0, ResetFacts DEF ResetRx
<1>1. Losses' = One(~WillFind(0)) + One(rx.ctrl # 0 \/ rx.fec # 0) + One(rx.data # 0)
  <2>1. Losses' = One(~WillFind(rx.header)') + One(rx'.ctrl # 0 \/ rx'.fec # 0) + One(rx'.data # 0)
    BY <1>r DEF Losses
  <2>2. WillFind(rx.header)' <=> WillFind(0)
    BY <1>0, <1>r DEF WillFind
  <2> QED
    BY <1>r, <2>1, <2>2 DEF One
<1>2. CASE t = "timer" /\ InFrame
  <2>1. missed' = 0
    BY <1>2 DEF ResetRx
  <2> QED
    BY <1>1, <2>1 DEF One
<1>3. CASE ~(t = "timer" /\ InFrame)
  <2>1. missed' = missed
    BY <1>3 DEF ResetRx
  <2>2. Published \/ pos <= Preamble + 1
    BY <1>0, <1>3, Lengths DEF Threads, Published, InFrame, ResetRx
  <2>3. CASE rx.state = "SEARCH"
    <3>1. Losses = One(~WillFind(rx.header)) + One(rx.ctrl # 0 \/ rx.fec # 0) + One(rx.data # 0)
      BY <2>3 DEF Losses
    <3>2. WillFind(0) \/ rx.header = 0
      BY <1>0, <2>2, <2>3, FoundFromStart, DataOf DEF DataAt, Published
    <3> QED
      BY <1>0, <1>1, <2>1, <3>1, <3>2 DEF One
  <2>4. CASE rx.state # "SEARCH"
    <3>1. Published /\ rx.state = "RX_DATA"
      <4>1. rx.state \in {"RX_CTRL", "RX_CFEC", "RX_DATA"}
        BY <1>0, <2>4 DEF States
      <4>2. ~Published => pos > MarkerEnd
        BY <1>0, <2>4, <4>1, Lengths, DataOf DEF HeadInv, DataAt, Published
      <4>3. Published
        BY <1>0, <2>2, <4>2, Lengths
      <4> QED
        BY <2>4, <4>3, DataOf DEF DataAt, Published
    <3>2. rx.ctrl = 0 /\ rx.fec = 0 /\ rx.data = 0
      BY <3>1, DataOf DEF DataAt, Published
    <3>3. Losses = One(pos # 1)
      BY <3>1 DEF Losses, Published
    <3>4. pos = 1 => WillFind(0)
      BY <1>0, Lengths, FoundFromStart
    <3> QED
      BY <1>0, <1>1, <2>1, <3>2, <3>3, <3>4 DEF One
  <2> QED
    BY <2>3, <2>4
<1> QED
  BY <1>2, <1>3

\* Steps that leave the receiver alone and the block thread where the receiver does
\* not notice it.
LEMMA AloneLosses ==
  ASSUME StepInv, DataInv, UNCHANGED receiver,
         th'["block"].at \in BitSteps => th'["timer"].at # "clear_rx",
         At({"clear_rx"})' => At({"clear_rx"}),
         \/ th'["block"].at = th["block"].at
         \/ /\ th["block"].at \notin {"reset_rx", "clear_rx", "check"}
            /\ th'["block"].at \in {rx.state} \cup (Labels \ (BitSteps \cup {"reset_rx", "clear_rx"}))
            /\ rx.state \in States
  PROVE  StepInv' /\ DataInv' /\ missed' + Losses' = missed + Losses
<1>1. rx' = rx /\ pos' = pos /\ missed' = missed
  BY DEF receiver
<1>2. StepInv'
  BY <1>1 DEF StepInv, States, BitSteps
<1>3. DataInv'
  BY <1>1, DataOf DEF DataAt, States, BitSteps
<1>4. /\ Published' <=> Published
      /\ th'["block"].at = "check" <=> th["block"].at = "check"
  BY DEF Published, States, BitSteps
<1>5. Losses' = Losses
  BY <1>1, <1>4 DEF Losses, WillFind
<1> QED
  BY <1>1, <1>2, <1>3, <1>5

LEMMA LossNext ==
  ASSUME TypeOK, HeadInv, ThreadInv, LossInv, [Next]_vars
  PROVE  LossInv'
<1> SUFFICES ASSUME ~torn' PROVE StepInv' /\ DataInv' /\ missed' + Losses' <= 3
  BY DEF LossInv
<1>0. /\ SessionType /\ pos \in 1..Cycle /\ rx \in Receivers /\ missed \in 0..MaxMissed
      /\ missed \in Nat
      /\ th \in [Threads -> Activities] /\ "block" \in Threads /\ "timer" \in Threads
      /\ rx.state \in States
  BY TypeParts, Ranges, BoundsAssumption DEF ReceiverType, SessionType, Threads
<1>1. ~torn
  BY DEF Next, HandlerStep, Receive, RunTimer, Exhausted, Watch, vars
<1>2. StepInv /\ DataInv /\ missed + Losses <= 3 /\ Losses \in 0..3
  BY <1>0, <1>1, LossBounds DEF LossInv
<1>3. th'["block"].at \in BitSteps => th'["timer"].at # "clear_rx"
  <2>1. CASE Watch
    BY <2>1 DEF Watch
  <2>2. CASE UNCHANGED vars
    BY <1>2, <2>2 DEF vars, StepInv
  <2> QED
    BY <2>1, <2>2 DEF Next, HandlerStep, Receive, RunTimer, Exhausted
<1>4. missed' \in Nat /\ Losses' \in 0..3
  <2>1. rx' \in Receivers /\ missed' \in Nat
    BY ReceiverNext, BoundsAssumption DEF ReceiverType
  <2>2. rx'.state \in States
    BY <2>1 DEF Receivers
  <2>3. CASE rx'.state = "SEARCH"
    BY <2>1, <2>3 DEF Losses, One
  <2>4. CASE rx'.state = "RX_CTRL"
    BY <2>1, <2>4 DEF Losses, One
  <2>5. CASE rx'.state = "RX_CFEC"
    BY <2>1, <2>5 DEF Losses, One
  <2>6. CASE rx'.state = "RX_DATA"
    BY <2>1, <2>6 DEF Losses, One
  <2> QED
    BY <2>1, <2>2, <2>3, <2>4, <2>5, <2>6 DEF States
<1>5. ASSUME missed' + Losses' <= missed + Losses PROVE missed' + Losses' <= 3
  <2>1. \A a, c \in Nat, b, d \in 0..3 : a + b <= 3 /\ c + d <= a + b => c + d <= 3
    OBVIOUS
  <2> QED
    BY <1>0, <1>2, <1>4, <1>5, <2>1, Zenon
<1>6. ASSUME missed' + Losses' = missed + Losses PROVE missed' + Losses' <= 3
  <2>1. \A a, c \in Nat, b, d \in 0..3 : a + b <= 3 /\ c + d = a + b => c + d <= 3
    OBVIOUS
  <2> QED
    BY <1>0, <1>2, <1>4, <1>6, <2>1, Zenon
<1>7. CASE ReceiveBit
  <2>1. BitBegins
    BY <1>0, <1>2 DEF BitBegins
  <2>2. StepInv' /\ DataInv' /\ missed' + Losses' <= missed + Losses
    BY <1>7, <2>1, SearchLosses, RxCtrlLosses, RxCfecLosses, RxDataLosses, CheckLosses
    DEF ReceiveBit
  <2> QED
    BY <1>5, <2>2
<1>8. ASSUME NEW t \in Threads, ResetRx(t)
      PROVE  StepInv' /\ DataInv' /\ missed' + Losses' <= 3
  <2>1. /\ rx' \in Receivers /\ rx'.state = "SEARCH" /\ rx'.header = 0 /\ rx'.data = rx.data
        /\ rx'.data < DataBits
    BY <1>0, <1>2, <1>8, ResetFacts DEF ResetRx, StepInv
  <2>2. th'["block"].at \notin BitSteps
    <3>1. th'[t].at = "clear_rx" /\ \A u \in Threads : u # t => th'[u] = th[u]
      BY <1>0, <1>8, GotoFacts DEF ResetRx
    <3>2. CASE t = "block"
      BY <3>1, <3>2 DEF BitSteps, States
    <3>3. CASE t = "timer"
      BY <1>3, <3>1, <3>3
    <3> QED
      BY <3>2, <3>3 DEF Threads
  <2>3. StepInv'
    BY <2>1, <2>2 DEF StepInv, BitSteps, States
  <2>4. DataInv'
    BY <2>1, DataOf DEF DataAt
  <2>5. missed' + Losses' <= 3
    <3>1. CASE missed' = 0 /\ Losses' \in 0..3
      <4>1. \A k \in 0..3 : 0 + k <= 3
        OBVIOUS
      <4> QED
        BY <3>1, <4>1
    <3>2. CASE missed' + Losses' <= missed + Losses
      BY <1>5, <3>2
    <3> QED
      BY <1>2, <1>8, <3>1, <3>2, ResetRxLosses
  <2> QED
    BY <2>3, <2>4, <2>5
<1>9. ASSUME NEW t \in Threads, ClearRx(t)
      PROVE  StepInv' /\ DataInv' /\ missed' + Losses' <= 3
  <2>1. rx.state = "SEARCH"
    BY <1>2, <1>9 DEF StepInv, At, ClearRx
  <2>2. /\ rx' \in Receivers /\ rx'.state = "SEARCH" /\ rx'.header = rx.header
        /\ rx'.data = rx.data /\ rx'.ctrl = rx.ctrl /\ rx'.fec = rx.fec /\ rx'.data < DataBits
        /\ pos' = pos /\ missed' = missed
    BY <1>0, <1>2, <1>9, <2>1, ResetFacts DEF ClearRx, StepInv
  <2>3. /\ th'[t].at = "idle_expires" /\ \A u \in Threads : u # t => th'[u] = th[u]
        /\ th[t].at = "clear_rx"
    BY <1>0, <1>9, GotoFacts DEF ClearRx
  <2>4. /\ th'["block"].at \in BitSteps =>
             th["block"].at = th'["block"].at
        /\ th'["block"].at \in {"reset_rx", "clear_rx"} =>
             th["block"].at = th'["block"].at
    BY <1>0, <2>3 DEF BitSteps, States
  <2>5. StepInv'
    BY <1>2, <1>3, <2>1, <2>2, <2>4 DEF StepInv, BitSteps, States
  <2>6. DataInv'
    BY <1>2, <2>1, <2>2, <2>4, DataOf DEF DataAt
  <2>7. Losses' = Losses
    <3>1. Losses = One(~WillFind(rx.header)) + One(rx.ctrl # 0 \/ rx.fec # 0) + One(rx.data # 0)
      BY <2>1 DEF Losses
    <3>2. Losses' = One(~WillFind(rx.header)') + One(rx'.ctrl # 0 \/ rx'.fec # 0) + One(rx'.data # 0)
      BY <2>2 DEF Losses
    <3>3. WillFind(rx.header)' <=> WillFind(rx.header)
      BY <2>2 DEF WillFind
    <3> QED
      BY <2>2, <3>1, <3>2, <3>3 DEF One
  <2> QED
    BY <1>2, <2>2, <2>5, <2>6, <2>7
<1>10. CASE ~ReceiveBit /\ \A t \in Threads : ~ResetRx(t) /\ ~ClearRx(t)
  <2>1. UNCHANGED receiver
    BY <1>10, OtherSteps
  <2> DEFINE Unnoticed ==
        \/ th'["block"].at = th["block"].at
        \/ /\ th["block"].at \notin {"reset_rx", "clear_rx", "check"}
           /\ th'["block"].at \in {rx.state} \cup
                (Labels \ (BitSteps \cup {"reset_rx", "clear_rx"}))
  <2>2. (At({"clear_rx"})' => At({"clear_rx"})) /\ Unnoticed
    <3>1. ASSUME NEW t \in Threads, SessionStep(t)
          PROVE  (At({"clear_rx"})' => At({"clear_rx"})) /\ Unnoticed
      <4>1. /\ th'[t].at # "clear_rx"
            /\ \A u \in Threads : u # t => th'[u] = th[u]
            /\ th[t].at \in Inside /\ th'[t].at \in Inside \cup {"rest"}
            /\ th'[t].at = "reset_rx" <=> SatNok(t)
            /\ th[t].at \notin {"reset_rx", "clear_rx"}
        BY <1>0, <1>10, <3>1, StepFacts, ReceiverAlone
      <4>2. At({"clear_rx"})' => At({"clear_rx"})
        BY <4>1 DEF At
      <4>3. CASE t = "block"
        <5>1. ~SatNok(t)
          BY <4>3 DEF ThreadInv, SatNok
        <5> QED
          BY <4>1, <4>2, <4>3, <5>1 DEF Inside, BitSteps, States, Labels
      <4>4. CASE t = "timer"
        BY <1>0, <4>1, <4>2, <4>4
      <4> QED
        BY <4>3, <4>4 DEF Threads
    <3>2. CASE GeneralWork
      <4>1. /\ th'["block"].at = rx.state /\ th'["timer"] = th["timer"]
            /\ th["block"].at = "rest"
        BY <1>0, <3>2, GotoFacts DEF GeneralWork, TakesMessage
      <4> QED
        BY <1>0, <4>1 DEF At, Threads, States
    <3>3. CASE InputCommand
      <4>1. /\ th'["block"].at = "input" /\ th'["timer"] = th["timer"]
            /\ th["block"].at = "rest"
        BY <1>0, <3>3, EnterFacts DEF InputCommand, TakesMessage
      <4> QED
        BY <4>1 DEF At, Threads, BitSteps, States, Labels
    <3>4. CASE RunCompletion
      <4>1. th' = th \/ Goto("timer", "sat_nok") \/ Goto("timer", "module_id")
        BY <3>4 DEF RunCompletion
      <4>2. /\ th'["block"] = th["block"]
            /\ th'["timer"].at = "clear_rx" => th["timer"].at = "clear_rx"
        BY <1>0, <4>1, GotoFacts
      <4> QED
        BY <4>2 DEF At, Threads
    <3>5. CASE InputRefused \/ TimerElapses \/ UNCHANGED vars
      <4>1. th' = th
        BY <3>5 DEF InputRefused, TimerElapses, vars
      <4> QED
        BY <4>1 DEF At
    <3> QED
      BY <1>10, <3>1, <3>2, <3>3, <3>4, <3>5 DEF Next, HandlerStep, Receive, RunTimer, Exhausted
  <2>3. StepInv' /\ DataInv' /\ missed' + Losses' = missed + Losses
    BY <1>0, <1>2, <1>3, <2>1, <2>2, AloneLosses
  <2> QED
    BY <1>6, <2>3
<1> QED
  BY <1>7, <1>8, <1>9, <1>10

\* However long the parts of a frame, and wherever in it a timeout resets the
\* receiver of tnc_b1_impl, whose read functions keep their counters: at most three
\* frames in a row are not published and block_c stays below its limit, unless a
\* reset fell into a bit (frame_composer.cc:267).
THEOREM InStepAgain == Spec => []BackInStep
<1>1. Init => LossInv
  <2> SUFFICES ASSUME Init PROVE LossInv
    OBVIOUS
  <2>1. TypeOK
    BY TypeInit
  <2>2. rx \in Receivers /\ pos \in 1..Cycle
    BY <2>1, TypeParts DEF ReceiverType
  <2>3. /\ \A t \in Threads : th[t].at = "rest"
        /\ rx.state = "SEARCH" /\ rx.header = 0 /\ rx.ctrl = 0 /\ rx.fec = 0 /\ rx.data = 0
        /\ pos = 1 /\ missed = 0
    BY DEF Init, Resting
  <2>4. WillFind(rx.header)
    BY <2>2, <2>3, FoundFromStart, Lengths
  <2>5. Losses = 0
    BY <2>3, <2>4 DEF Losses, One
  <2>6. StepInv /\ DataInv
    BY <2>3, Lengths, DataOf DEF StepInv, DataAt, At, Threads, BitSteps, States
  <2> QED
    BY <2>3, <2>5, <2>6 DEF LossInv
<1>2. TypeOK /\ LossInv => BackInStep
  <2>1. SUFFICES ASSUME TypeOK, LossInv, ~torn
                 PROVE  missed <= 3 /\ rx.data < DataBits
    BY DEF BackInStep
  <2>2. rx.state \in States /\ missed \in Nat
    BY <2>1, TypeParts, Ranges, BoundsAssumption DEF ReceiverType
  <2>3. Losses \in 0..3 /\ missed + Losses <= 3 /\ StepInv
    BY <2>1, <2>2, LossBounds DEF LossInv
  <2> QED
    BY <2>2, <2>3 DEF StepInv
<1>3. TypeOK /\ HeadInv /\ ThreadInv /\ LossInv /\ [Next]_vars => LossInv'
  BY LossNext
<1> QED
  BY <1>1, <1>2, <1>3, ThreadsCorrect, PTL DEF Spec

------------------------------------------------------------------------------
(* When io_service::run runs out of work                                    *)

Between == {"idle_wait", "start_wait"}

Renewal(tm) == Queued(tm, "timeout", TRUE) \/ \E ok \in BOOLEAN : Queued(tm, "module_id", ok)

\* WorkInv for the threads being about to take the steps b and r.
WorkAt(b, r, tm) ==
  /\ tm.waits = <<>> => b \in Between \/ r \in Renewing \cup Idling \/ Renewal(tm)
  /\ tm.waits # <<>> /\ tm.due = "finite" =>
       \/ Awaited(tm, "timeout") \/ Awaited(tm, "module_id")
       \/ b = "start_wait" \/ r \in Renewing
       \/ Renewal(tm)
  /\ b = "idle_wait" /\ tm.expiry = "finite" =>
       Awaited(tm, "timeout") \/ r \in Renewing \/ Renewal(tm)
  /\ r \in Idling /\ tm.expiry = "finite" => Awaited(tm, "timeout") \/ b = "start_wait"

LEMMA WorkOf ==
  /\ WorkInv <=> WorkAt(th["block"].at, th["timer"].at, tmr)
  /\ WorkInv' <=> WorkAt(th'["block"].at, th'["timer"].at, tmr')
  BY DEF WorkInv, WorkAt, BetweenCalls, Between, RenewalQueued, Renewal

\* A handler that returns, or a completion that is not handled, leaves work.
LEMMA WorkReturned ==
  ASSUME NEW tm \in Timers(Handlers), NEW b, NEW r, WorkAt(b, r, tm),
         r \notin Renewing \cup Idling
  PROVE  /\ WorkAt(b, "rest", Returned(tm))
         /\ Returned(tm).stopped => tm.stopped \/ b \in Between
<1>1. /\ Returned(tm).waits = tm.waits /\ Returned(tm).due = tm.due
      /\ Returned(tm).expiry = tm.expiry /\ Returned(tm).ready = tm.ready
      /\ Returned(tm).stopped <=> tm.stopped \/ (tm.waits = <<>> /\ tm.ready = <<>>)
  BY ReturnedFacts
<1>2. Renewal(tm) => tm.ready # <<>>
  BY QueuedNonempty DEF Renewal
<1>3. (Renewal(Returned(tm)) <=> Renewal(tm)) /\ \A h : Awaited(Returned(tm), h) <=> Awaited(tm, h)
  BY <1>1 DEF Renewal, Queued, Awaited
<1>4. "rest" \notin Renewing \cup Idling
  BY DEF Renewing, Idling
<1> QED
  BY <1>1, <1>2, <1>3, <1>4 DEF WorkAt

\* The two halves of start_timer and idle_timer.
LEMMA HalvesFacts ==
  ASSUME tmr \in Timers(Handlers)
  PROVE  /\ \A d \in {"never", "finite"} :
              LET e == ExpiresFromNow(tmr, d)
              IN  /\ e.waits = <<>> /\ e.expiry = d /\ e.stopped = tmr.stopped
                  /\ Renewal(tmr) => Renewal(e)
         /\ \A h \in {"timeout", "infinite"} :
              LET a == AsyncWait(tmr, h)
              IN  /\ a.waits # <<>> /\ a.expiry = tmr.expiry /\ a.stopped = tmr.stopped
                  /\ a.due = IF tmr.waits = <<>> THEN tmr.expiry ELSE tmr.due
                  /\ Awaited(a, h)
                  /\ Awaited(tmr, "timeout") => Awaited(a, "timeout")
                  /\ Awaited(tmr, "module_id") => Awaited(a, "module_id")
                  /\ Renewal(tmr) => Renewal(a)
<1>0. /\ "timeout" \in Handlers /\ "module_id" \in Handlers /\ "infinite" \in Handlers
      /\ TRUE \in BOOLEAN
  BY DEF Handlers
<1>1. ASSUME NEW d \in {"never", "finite"}
      PROVE  LET e == ExpiresFromNow(tmr, d)
             IN  /\ e.waits = <<>> /\ e.expiry = d /\ e.stopped = tmr.stopped
                 /\ Renewal(tmr) => Renewal(e)
  <2>1. d \in Deadlines
    BY DEF Deadlines
  <2> QED
    BY <1>0, <2>1, ExpiresFacts DEF Renewal
<1>2. ASSUME NEW h \in {"timeout", "infinite"}
      PROVE  LET a == AsyncWait(tmr, h)
             IN  /\ a.waits # <<>> /\ a.expiry = tmr.expiry /\ a.stopped = tmr.stopped
                 /\ a.due = IF tmr.waits = <<>> THEN tmr.expiry ELSE tmr.due
                 /\ Awaited(a, h)
                 /\ Awaited(tmr, "timeout") => Awaited(a, "timeout")
                 /\ Awaited(tmr, "module_id") => Awaited(a, "module_id")
                 /\ Renewal(tmr) => Renewal(a)
  <2> DEFINE a == AsyncWait(tmr, h)
  <2>1. h \in Handlers
    BY DEF Handlers
  <2>2. /\ a.ready = tmr.ready /\ a.waits # <<>> /\ a.stopped = tmr.stopped
        /\ tmr.waits = <<>> => a.due = tmr.expiry
    BY <2>1, AsyncWaitFacts
  <2>3. /\ a.expiry = tmr.expiry /\ Awaited(a, h)
        /\ tmr.waits # <<>> => a.due = tmr.due
        /\ \A k \in Handlers : Awaited(tmr, k) => Awaited(a, k)
    BY <2>1, AwaitedFacts
  <2>4. Renewal(tmr) => Renewal(a)
    BY <2>2 DEF Renewal, Queued
  <2> HIDE DEF a
  <2>5. /\ a.waits # <<>> /\ a.expiry = tmr.expiry /\ a.stopped = tmr.stopped
        /\ a.due = IF tmr.waits = <<>> THEN tmr.expiry ELSE tmr.due
        /\ Awaited(a, h)
        /\ Awaited(tmr, "timeout") => Awaited(a, "timeout")
        /\ Awaited(tmr, "module_id") => Awaited(a, "module_id")
        /\ Renewal(tmr) => Renewal(a)
    BY <1>0, <2>2, <2>3, <2>4
  <2> QED
    BY <2>5 DEF a
<1> QED
  BY <1>1, <1>2

\* What a handler step of either thread does to the timer.
LEMMA WorkStep ==
  ASSUME SessionType, ThreadInv, WorkInv, NEW t \in Threads, SessionStep(t)
  PROVE  /\ WorkInv'
         /\ ~tmr.stopped /\ tmr'.stopped => BetweenCalls("block")
<1> DEFINE b == th["block"].at
           r == th["timer"].at
<1>0. /\ tmr \in Timers(Handlers) /\ th \in [Threads -> Activities]
      /\ {"timeout", "infinite"} \subseteq Handlers
  BY DEF SessionType, Handlers
<1>a. \A u \in Threads : u # t => th'[u] = th[u]
  BY <1>0, StepFacts
<1>b. WorkAt(b, r, tmr) /\ b \notin {"sat_nok", "module_id", "moid_expires", "moid_wait"}
  BY WorkOf DEF ThreadInv
<1>t. /\ "block" \in Threads /\ "timer" \in Threads
      /\ t = "block" \/ t = "timer"
  BY DEF Threads
<1> SUFFICES /\ WorkAt(b', r', tmr')
             /\ tmr'.stopped => tmr.stopped \/ b \in Between
  BY WorkOf DEF BetweenCalls, Between
\* A step that does not touch the timer.
<1>d. ASSUME tmr' = tmr, th'[t].at \notin Between \cup {"moid_wait"},
             th[t].at \notin Between \cup {"moid_wait"},
             th[t].at \in Renewing => th'[t].at \in Renewing
      PROVE  /\ WorkAt(b', r', tmr')
             /\ tmr'.stopped => tmr.stopped \/ b \in Between
  BY <1>a, <1>b, <1>d, <1>t DEF WorkAt, Between, Renewing, Idling
\* The handler returns.
<1>e. ASSUME th'[t] = Resting, tmr' = IF t = "timer" THEN Returned(tmr) ELSE tmr,
             th[t].at \notin Renewing \cup Idling \cup Between
      PROVE  /\ WorkAt(b', r', tmr')
             /\ tmr'.stopped => tmr.stopped \/ b \in Between
  <2>1. CASE t = "timer"
    <3>1. b' = b /\ r' = "rest" /\ tmr' = Returned(tmr) /\ r \notin Renewing \cup Idling
      BY <1>a, <1>e, <1>t, <2>1 DEF Resting
    <3> QED
      BY <1>0, <1>b, <3>1, WorkReturned
  <2>2. CASE t = "block"
    <3>1. b' = "rest" /\ r' = r /\ tmr' = tmr /\ b \notin Between
      BY <1>a, <1>e, <1>t, <2>2 DEF Resting
    <3> QED
      BY <1>b, <3>1 DEF WorkAt, Between
  <2> QED
    BY <1>t, <2>1, <2>2
<1>z. Awaited(tmr, "timeout") => tmr.waits # <<>>
  BY <1>0, AwaitedFacts
<1>1. CASE ReadState(t)
  BY <1>0, <1>1, <1>d, GotoFacts DEF ReadState, Between, Renewing
<1>2. CASE Hold(t)
  <2>1. CASE th[t].nested
    BY <1>0, <1>2, <1>d, <2>1, EndInputFacts DEF Hold, Between, Renewing
  <2>2. CASE ~th[t].nested
    BY <1>0, <1>2, <1>e, <2>2, EndInputFacts DEF Hold, Between, Renewing, Idling
  <2> QED
    BY <2>1, <2>2
<1>3. CASE Open(t)
  <2>1. /\ tmr' = tmr /\ th[t].at = "open" /\ (Goto(t, "nok") \/ Goto(t, "ack"))
    BY <1>3 DEF Open
  <2>2. th'[t].at \in {"nok", "ack"}
    BY <1>0, <2>1, GotoFacts
  <2> QED
    BY <1>d, <2>1, <2>2 DEF Between, Renewing
<1>4. CASE RefuseType(t)
  <2>1. CASE th[t].nested
    BY <1>0, <1>4, <1>d, <2>1, EndInputFacts DEF RefuseType, Between, Renewing
  <2>2. CASE ~th[t].nested
    BY <1>0, <1>4, <1>e, <2>2, EndInputFacts DEF RefuseType, Between, Renewing, Idling
  <2> QED
    BY <2>1, <2>2
<1>5. CASE AckOk(t)
  BY <1>0, <1>5, <1>d, GotoFacts DEF AckOk, Between, Renewing
<1>6. CASE StartTimerExpires(t)
  <2>1. /\ th'[t].at = "start_wait" /\ th[t].at = "start_expires"
        /\ tmr' = ExpiresFromNow(tmr, "finite")
    BY <1>0, <1>6, GotoFacts DEF StartTimerExpires
  <2>2. /\ tmr'.waits = <<>> /\ tmr'.expiry = "finite" /\ tmr'.stopped = tmr.stopped
        /\ Renewal(tmr) => Renewal(tmr')
    BY <1>0, <2>1, HalvesFacts
  <2> QED
    BY <1>a, <1>b, <1>t, <2>1, <2>2 DEF WorkAt, Between, Renewing, Idling
<1>7. CASE StartTimerWait(t)
  <2>1. th[t].at = "start_wait" /\ th'[t].at = "set_wait" /\ tmr' = AsyncWait(tmr, "timeout")
    BY <1>0, <1>7, GotoFacts DEF StartTimerWait
  <2>2. tmr'.waits # <<>> /\ Awaited(tmr', "timeout") /\ tmr'.stopped = tmr.stopped
    BY <1>0, <2>1, HalvesFacts
  <2> QED
    BY <2>1, <2>2 DEF WorkAt
<1>8. CASE SetWaitMsg(t)
  <2>1. CASE th[t].nested
    BY <1>0, <1>8, <1>d, <2>1, EndInputFacts DEF SetWaitMsg, Between, Renewing
  <2>2. CASE ~th[t].nested
    BY <1>0, <1>8, <1>e, <2>2, EndInputFacts DEF SetWaitMsg, Between, Renewing, Idling
  <2> QED
    BY <2>1, <2>2
<1>9. CASE ResetRx(t)
  BY <1>0, <1>9, <1>d, GotoFacts DEF ResetRx, Between, Renewing
<1>10. CASE ClearRx(t)
  BY <1>0, <1>10, <1>d, GotoFacts DEF ClearRx, Between, Renewing
<1>11. CASE IdleTimerExpires(t)
  <2>1. /\ th'[t].at \in {"idle_wait", "moid_wait"} /\ th[t].at \in {"idle_expires", "moid_expires"}
        /\ th'[t].at = "moid_wait" => th[t].at = "moid_expires"
        /\ tmr' = ExpiresFromNow(tmr, "never")
    BY <1>0, <1>11, GotoFacts DEF IdleTimerExpires
  <2>2. /\ tmr'.waits = <<>> /\ tmr'.expiry = "never" /\ tmr'.stopped = tmr.stopped
        /\ Renewal(tmr) => Renewal(tmr')
    BY <1>0, <2>1, HalvesFacts
  <2> QED
    BY <1>a, <1>b, <1>t, <2>1, <2>2 DEF WorkAt, Between, Renewing, Idling
<1>12. CASE IdleTimerWait(t)
  <2>1. /\ th[t].at = "idle_wait" /\ th'[t].at = "set_idle"
        /\ tmr' = AsyncWait(tmr, "infinite")
    BY <1>0, <1>12, GotoFacts DEF IdleTimerWait
  <2>2. /\ tmr'.waits # <<>> /\ tmr'.expiry = tmr.expiry /\ tmr'.stopped = tmr.stopped
        /\ tmr'.due = IF tmr.waits = <<>> THEN tmr.expiry ELSE tmr.due
        /\ Awaited(tmr, "timeout") => Awaited(tmr', "timeout")
        /\ Awaited(tmr, "module_id") => Awaited(tmr', "module_id")
        /\ Renewal(tmr) => Renewal(tmr')
    BY <1>0, <2>1, HalvesFacts
  <2>3. CASE t = "block"
    <3>1. r' = r /\ b' = "set_idle" /\ b = "idle_wait"
      BY <1>a, <1>t, <2>1, <2>3
    <3> QED
      BY <1>b, <1>z, <2>2, <3>1 DEF WorkAt, Between, Renewing
  <2>4. CASE t = "timer"
    <3>1. b' = b /\ r' = "set_idle" /\ r = "idle_wait"
      BY <1>a, <1>b, <1>t, <2>1, <2>4
    <3> QED
      BY <1>b, <1>z, <2>2, <3>1 DEF WorkAt, Between, Renewing, Idling
  <2> QED
    BY <1>t, <2>3, <2>4
<1>13. CASE SetIdle(t)
  BY <1>0, <1>13, <1>d, GotoFacts DEF SetIdle, Between, Renewing
<1>14. CASE CheckBuffer(t)
  <2>1. CASE /\ th' = [th EXCEPT ![t] = [at |-> "input", msg |-> buf.msg, nested |-> TRUE]]
             /\ tmr' = tmr
    <3>1. th'[t] = [at |-> "input", msg |-> buf.msg, nested |-> TRUE]
      BY <1>0, <2>1, EnterFacts
    <3>2. th'[t].at = "input" /\ th[t].at = "check_buf"
      BY <1>14, <3>1 DEF CheckBuffer
    <3> QED
      BY <1>d, <2>1, <3>2 DEF Between, Renewing
  <2>2. CASE Leave(t)
    BY <1>0, <1>14, <1>e, <2>2, LeaveFacts DEF CheckBuffer, Between, Renewing, Idling
  <2> QED
    BY <1>14, <2>1, <2>2 DEF CheckBuffer
<1>15. CASE ClearBuffer(t)
  BY <1>0, <1>15, <1>e, LeaveFacts DEF ClearBuffer, Between, Renewing, Idling
<1>16. CASE SatNok(t)
  BY <1>0, <1>16, <1>d, GotoFacts DEF SatNok, Between, Renewing
<1>17. CASE ModuleId(t)
  BY <1>0, <1>17, <1>d, GotoFacts DEF ModuleId, Between, Renewing
<1>18. CASE ModuleIdReturns(t)
  <2>1. /\ t = "timer" /\ r = "moid_wait"
        /\ tmr' = Returned(AsyncWait(tmr, "infinite")) /\ th'["timer"] = Resting
        /\ b' = b
    BY <1>0, <1>18, <1>a, <1>b, <1>t, EnterFacts DEF ModuleIdReturns
  <2> DEFINE a == AsyncWait(tmr, "infinite")
  <2>2. /\ a.waits # <<>> /\ a.expiry = tmr.expiry /\ a.stopped = tmr.stopped
        /\ a.due = IF tmr.waits = <<>> THEN tmr.expiry ELSE tmr.due
        /\ Awaited(tmr, "timeout") => Awaited(a, "timeout")
        /\ Awaited(tmr, "module_id") => Awaited(a, "module_id")
        /\ Renewal(tmr) => Renewal(a)
    BY <1>0, HalvesFacts
  <2>3. a \in Timers(Handlers)
    BY <1>0, TmrType
  <2> HIDE DEF a
  <2>4. WorkAt(b, "rest", a)
    BY <1>b, <1>z, <2>1, <2>2 DEF WorkAt, Renewing, Idling
  <2>5. WorkAt(b, "rest", Returned(a)) /\ (Returned(a).stopped => a.stopped \/ b \in Between)
    BY <2>3, <2>4, WorkReturned DEF Renewing, Idling
  <2> QED
    BY <2>1, <2>2, <2>5 DEF a, Resting
<1> QED
  BY <1>1, <1>2, <1>3, <1>4, <1>5, <1>6, <1>7, <1>8, <1>9, <1>10, <1>11, <1>12, <1>13,
     <1>14, <1>15, <1>16, <1>17, <1>18 DEF SessionStep

LEMMA WorkNext ==
  ASSUME TypeOK, ThreadInv, WorkInv, [Next]_vars
  PROVE  /\ WorkInv'
         /\ ~tmr.stopped /\ tmr'.stopped => BetweenCalls("block")
<1>0. /\ "block" \in Threads /\ "timer" \in Threads /\ tmr \in Timers(Handlers)
      /\ {"timeout", "module_id"} \subseteq Handlers /\ SessionType
      /\ th \in [Threads -> Activities] /\ rx.state \in States
  BY TypeParts, Ranges DEF Threads, SessionType, ReceiverType, Handlers
<1>b. WorkAt(th["block"].at, th["timer"].at, tmr)
  BY WorkOf
\* A step outside the handlers that leaves the timer alone.
<1>d. ASSUME tmr' = tmr, th'["timer"] = th["timer"],
             th["block"].at \notin Between \/ th'["block"].at = th["block"].at,
             th'["block"].at \in Between => th'["block"].at = th["block"].at
      PROVE  /\ WorkInv'
             /\ ~tmr.stopped /\ tmr'.stopped => BetweenCalls("block")
  BY <1>b, <1>d, WorkOf DEF WorkAt, Between
<1>1. CASE \E t \in Threads : SessionStep(t)
  BY <1>0, <1>1, WorkStep
<1>2. CASE InputCommand
  <2>1. /\ th'["block"] = [at |-> "input", msg |-> arrived + 1, nested |-> FALSE]
        /\ th'["timer"] = th["timer"]
    BY <1>0, <1>2, EnterFacts DEF InputCommand
  <2>2. th'["block"].at = "input" /\ th["block"].at = "rest" /\ tmr' = tmr
    BY <1>2, <2>1 DEF InputCommand, TakesMessage
  <2> QED
    BY <1>d, <2>1, <2>2 DEF Between
<1>3. CASE InputRefused
  BY <1>3, <1>d DEF InputRefused
<1>4. CASE GeneralWork
  <2>1. /\ th'["block"].at = rx.state /\ th'["timer"] = th["timer"] /\ th["block"].at = "rest"
        /\ tmr' = tmr
    BY <1>0, <1>4, GotoFacts DEF GeneralWork, TakesMessage
  <2> QED
    BY <1>0, <1>d, <2>1 DEF Between, States
<1>5. CASE ReceiveBit
  <2>1. /\ th'["block"].at \in {"rest", "check", "reset_rx"} /\ th'["timer"] = th["timer"]
        /\ th["block"].at \in BitSteps /\ tmr' = tmr
    BY <1>0, <1>5, BitFacts
  <2> QED
    BY <1>d, <2>1 DEF Between, BitSteps, States
\* Among the waits that elapse is one whose handler begins another.
<1>6. CASE TimerElapses
  <2>1. /\ tmr.waits # <<>> /\ tmr.due = "finite" /\ tmr' = Elapse(tmr) /\ th' = th
        /\ th["timer"].at = "rest"
    BY <1>6 DEF TimerElapses, Elapsable
  <2>2. /\ tmr'.waits = <<>> /\ tmr'.expiry = tmr.expiry /\ tmr'.stopped = tmr.stopped
        /\ \A h \in Handlers, ok \in BOOLEAN : Queued(tmr, h, ok) => Queued(tmr', h, ok)
    BY <1>0, <2>1, ElapseFacts
  <2>3. /\ Awaited(tmr, "timeout") => Queued(tmr', "timeout", TRUE)
        /\ Awaited(tmr, "module_id") => Queued(tmr', "module_id", TRUE)
    BY <1>0, <2>1, AwaitedFacts
  <2>4. /\ Renewal(tmr) \/ Awaited(tmr, "timeout") \/ Awaited(tmr, "module_id") => Renewal(tmr')
    BY <1>0, <2>2, <2>3 DEF Renewal
  <2> QED
    BY <1>b, <2>1, <2>2, <2>4, WorkOf DEF WorkAt, Between, Renewing, Idling
<1>7. CASE RunCompletion
  <2> DEFINE c == Head(tmr.ready)
             d == Dispatched(tmr)
  <2>2. Dispatchable(tmr) /\ ~tmr.stopped /\ th["timer"].at = "rest"
    BY <1>7 DEF RunCompletion, Dispatchable
  <2>3. /\ d \in Timers(Handlers) /\ d.expiry = tmr.expiry
        /\ d.waits = tmr.waits /\ d.due = tmr.due /\ d.stopped = tmr.stopped
        /\ \A h \in Handlers, ok \in BOOLEAN :
             Queued(tmr, h, ok) => Queued(d, h, ok) \/ c = [handler |-> h, ok |-> ok]
    BY <1>0, <2>2, DispatchedFacts, TimersClosed DEF Deadlines
  <2>a. \A h : Awaited(d, h) <=> Awaited(tmr, h)
    BY <2>3 DEF Awaited
  <2>4. CASE (c.handler = "timeout" /\ c.ok) \/ c.handler = "module_id"
    <3>1. tmr' = d /\ (Goto("timer", "sat_nok") \/ Goto("timer", "module_id"))
      BY <1>7, <2>4 DEF RunCompletion
    <3>2. th'["timer"].at \in {"sat_nok", "module_id"} /\ th'["block"] = th["block"]
      BY <1>0, <3>1, GotoFacts
    <3> HIDE DEF c, d
    <3> QED
      BY <1>b, <2>2, <2>3, <2>a, <3>1, <3>2, WorkOf DEF WorkAt, Renewing, Idling
  <2>5. CASE ~((c.handler = "timeout" /\ c.ok) \/ c.handler = "module_id")
    <3>1. tmr' = Returned(d) /\ th' = th
      BY <1>7, <2>5 DEF RunCompletion
    <3>2. /\ c # [handler |-> "timeout", ok |-> TRUE]
          /\ \A ok \in BOOLEAN : c # [handler |-> "module_id", ok |-> ok]
      BY <2>5
    <3> HIDE DEF c, d
    <3>3. Renewal(tmr) => Renewal(d)
      BY <1>0, <2>3, <3>2 DEF Renewal
    <3>4. WorkAt(th["block"].at, "rest", d)
      BY <1>b, <2>2, <2>3, <2>a, <3>3 DEF WorkAt, Renewing, Idling
    <3>5. WorkAt(th["block"].at, "rest", Returned(d)) /\ (Returned(d).stopped => th["block"].at \in Between)
      BY <2>2, <2>3, <3>4, WorkReturned DEF Renewing, Idling
    <3> QED
      BY <2>2, <3>1, <3>5, WorkOf DEF BetweenCalls, Between
  <2> QED
    BY <2>4, <2>5
<1>8. CASE UNCHANGED vars
  BY <1>8, <1>d DEF vars
<1> QED
  BY <1>1, <1>2, <1>3, <1>4, <1>5, <1>6, <1>7, <1>8
  DEF Next, HandlerStep, Receive, RunTimer, Exhausted

\* In every interleaving io_service::run has a wait or a completion in hand whenever
\* a handler of it returns, but for the moment in which the block thread is between
\* the two calls of start_timer or idle_timer (tnc_b1_impl.h:65-70).
THEOREM TimerThreadLost == Spec => RunsOutBetweenCalls
<1>1. Init => WorkInv
  <2> SUFFICES ASSUME Init PROVE WorkInv
    OBVIOUS
  <2>1. /\ th["block"].at = "rest" /\ th["timer"].at = "rest"
        /\ tmr.waits = <<"module_id">> /\ tmr.waits[1] = "module_id" /\ 1 \in DOMAIN tmr.waits
    BY DEF Init, Resting, Threads, NewTimer
  <2>2. Awaited(tmr, "module_id") /\ tmr.waits # <<>>
    BY <2>1 DEF Awaited
  <2> QED
    BY <2>1, <2>2, WorkOf DEF WorkAt, Idling, Between
<1>2. TypeOK /\ ThreadInv /\ WorkInv /\ [Next]_vars =>
        /\ WorkInv'
        /\ [~tmr.stopped /\ tmr'.stopped => BetweenCalls("block")]_vars
  BY WorkNext
<1> QED
  BY <1>1, <1>2, ThreadsCorrect, PTL DEF Spec, RunsOutBetweenCalls


------------------------------------------------------------------------------
(* Which commands are held where                                            *)

LEMMA PublishFacts ==
  ASSUME SessionType, NEW k \in ReplyKinds, Publish(k)
  PROVE  \A c \in Ids, j \in ReplyKinds :
           replies'[c][j] = IF c = g /\ j = k THEN replies[c][j] + 1 ELSE replies[c][j]
  BY DEF Publish, SessionType

\* What a handler step of thread t does to messages, headers and replies.
LEMMA StepData ==
  ASSUME SessionType, NEW t \in Threads, SessionStep(t)
  PROVE  /\ arrived' = arrived
         /\ th'[t].msg \in {th[t].msg, 0} \/ (CheckBuffer(t) /\ th'[t].msg = buf.msg)
         /\ ~Hold(t) /\ ~ClearBuffer(t) => buf' = buf
         /\ ~Hold(t) => dropped' = dropped /\ buf'.msg = buf.msg
         /\ ~Open(t) => g' = g
         /\ ~AckOk(t) => \A c \in Ids : replies'[c]["tnc_ok"] = replies[c]["tnc_ok"]
         /\ th'[t].at \in InputSteps /\ ~th'[t].nested =>
              ReadState(t) /\ ~th[t].nested /\ th'[t].msg = th[t].msg
         /\ th'[t].at \in HeldSteps /\ ~th'[t].nested =>
              th[t].at \in HeldSteps /\ ~th[t].nested
         /\ th[t].nested /\ ~ClearBuffer(t) /\ th[t].at \in HeldSteps => th'[t].nested
<1> USE DEF HeldSteps, InputSteps, RepliedSteps, TimerSteps
<1>0. buf \in [msg : Ids, waiting : BOOLEAN] /\ th \in [Threads -> Activities]
  BY DEF SessionType
<1>p. \A k \in {"tnc_nok", "sat_nok"} : Publish(k) =>
        \A c \in Ids : replies'[c]["tnc_ok"] = replies[c]["tnc_ok"]
  BY PublishFacts DEF ReplyKinds
<1>1. CASE ReadState(t)
  BY <1>0, <1>1, GotoFacts DEF ReadState, session
<1>2. CASE Hold(t)
  <2>1. CASE th[t].nested
    BY <1>0, <1>2, <2>1, EndInputFacts DEF Hold, ClearBuffer
  <2>2. CASE ~th[t].nested
    BY <1>0, <1>2, <2>2, EndInputFacts DEF Hold, Resting
  <2> QED
    BY <2>1, <2>2
<1>3. CASE Open(t)
  BY <1>0, <1>3, GotoFacts DEF Open
<1>4. CASE RefuseType(t)
  <2>1. CASE th[t].nested
    BY <1>0, <1>4, <1>p, <2>1, EndInputFacts DEF RefuseType
  <2>2. CASE ~th[t].nested
    BY <1>0, <1>4, <1>p, <2>2, EndInputFacts DEF RefuseType, Resting
  <2> QED
    BY <2>1, <2>2
<1>5. CASE AckOk(t)
  BY <1>0, <1>5, GotoFacts DEF AckOk
<1>6. CASE StartTimerExpires(t)
  BY <1>0, <1>6, GotoFacts DEF StartTimerExpires, session
<1>7. CASE StartTimerWait(t)
  BY <1>0, <1>7, GotoFacts DEF StartTimerWait, session
<1>8. CASE SetWaitMsg(t)
  <2>1. CASE th[t].nested
    BY <1>0, <1>8, <2>1, EndInputFacts DEF SetWaitMsg
  <2>2. CASE ~th[t].nested
    BY <1>0, <1>8, <2>2, EndInputFacts DEF SetWaitMsg, Resting
  <2> QED
    BY <2>1, <2>2
<1>9. CASE ResetRx(t)
  BY <1>0, <1>9, GotoFacts DEF ResetRx, session
<1>10. CASE ClearRx(t)
  BY <1>0, <1>10, GotoFacts DEF ClearRx, session
<1>11. CASE IdleTimerExpires(t)
  BY <1>0, <1>11, GotoFacts DEF IdleTimerExpires, session
<1>12. CASE IdleTimerWait(t)
  BY <1>0, <1>12, GotoFacts DEF IdleTimerWait, session
<1>13. CASE SetIdle(t)
  BY <1>0, <1>13, GotoFacts DEF SetIdle
<1>14. CASE CheckBuffer(t)
  <2>0. UNCHANGED session /\ th[t].at = "check_buf"
    BY <1>14 DEF CheckBuffer
  <2>1. CASE th' = [th EXCEPT ![t] = [at |-> "input", msg |-> buf.msg, nested |-> TRUE]]
    <3>1. th'[t] = [at |-> "input", msg |-> buf.msg, nested |-> TRUE]
      BY <1>0, <2>1, EnterFacts
    <3> QED
      BY <1>14, <2>0, <3>1 DEF session
  <2>2. CASE Leave(t)
    BY <1>0, <1>14, <2>0, <2>2, LeaveFacts DEF Resting, session
  <2> QED
    BY <1>14, <2>1, <2>2 DEF CheckBuffer
<1>15. CASE ClearBuffer(t)
  BY <1>0, <1>15, LeaveFacts DEF ClearBuffer, Resting
<1>16. CASE SatNok(t)
  BY <1>0, <1>16, <1>p, GotoFacts DEF SatNok
<1>17. CASE ModuleId(t)
  BY <1>0, <1>17, GotoFacts DEF ModuleId, session
<1>18. CASE ModuleIdReturns(t)
  BY <1>0, <1>18, EnterFacts DEF ModuleIdReturns, Resting, session
<1> QED
  BY <1>1, <1>2, <1>3, <1>4, <1>5, <1>6, <1>7, <1>8, <1>9, <1>10, <1>11, <1>12, <1>13,
     <1>14, <1>15, <1>16, <1>17, <1>18 DEF SessionStep

\* What NewInv says of a command, its transmissions, and the header h of replies.
Unsent(c, s, h, r) ==
  /\ c \in UnknownCmds => s[c] = 0
  /\ c \notin UnknownCmds /\ s[c] = 0 => h # c /\ r[c]["tnc_ok"] = 0

LEMMA UnsentStep ==
  ASSUME SessionType, ThreadInv, NewInv, NEW t \in Threads, SessionStep(t), NEW c \in Cmds
  PROVE  Unsent(c, sent', g', replies')
<1>0. /\ Unsent(c, sent, g, replies) /\ c \in Ids /\ sent[c] \in Nat /\ sent'[c] \in Nat
      /\ sent[c] <= sent'[c]
  BY SentGrows DEF NewInv, Unsent, Cmds, Ids
<1>1. c \in UnknownCmds => sent'[c] = 0
  BY <1>0, SentGrows DEF Unsent
<1>2. ASSUME c \notin UnknownCmds, sent'[c] = 0
      PROVE  g' # c /\ replies'[c]["tnc_ok"] = 0
  <2>1. sent[c] = 0 /\ g # c /\ replies[c]["tnc_ok"] = 0
    BY <1>0, <1>2 DEF Unsent
  <2>2. g' # c
    <3>1. CASE Open(t)
      <4>1. th[t].msg # c
        BY <1>0, <1>2, <2>1, <3>1, SentGrows
      <4> QED
        BY <3>1, <4>1 DEF Open
    <3>2. CASE ~Open(t)
      BY <2>1, <3>2, StepData
    <3> QED
      BY <3>1, <3>2
  <2>3. replies'[c]["tnc_ok"] = 0
    <3>1. CASE AckOk(t)
      BY <1>0, <2>1, <3>1, PublishFacts DEF AckOk, ReplyKinds
    <3>2. CASE ~AckOk(t)
      BY <1>0, <2>1, <3>2, StepData
    <3> QED
      BY <3>1, <3>2
  <2> QED
    BY <2>2, <2>3
<1> QED
  BY <1>1, <1>2 DEF Unsent

\* What NewInv says of where commands are.
Placed ==
  /\ \A t \in Threads : th[t].msg <= arrived
  /\ buf.msg <= arrived /\ g <= arrived
  /\ \A c \in Cmds : c > arrived => sent[c] = 0 /\ c \notin dropped
  /\ th["timer"].at \in HeldSteps => th["timer"].nested
  /\ New => /\ th["block"].msg = arrived /\ sent[arrived] = 0
            /\ buf.msg # arrived /\ th["timer"].msg # arrived

LEMMA NewOf ==
  /\ NewInv <=> Placed /\ \A c \in Cmds : Unsent(c, sent, g, replies)
  /\ NewInv' <=> Placed' /\ \A c \in Cmds : Unsent(c, sent', g', replies')
<1> USE DEF HeldSteps, NewInv, Placed, Unsent
<1>1. NewInv => Placed /\ \A c \in Cmds : Unsent(c, sent, g, replies)
  OBVIOUS
<1>2. Placed /\ (\A c \in Cmds : Unsent(c, sent, g, replies)) => NewInv
  OBVIOUS
<1>3. NewInv' => Placed' /\ \A c \in Cmds : Unsent(c, sent', g', replies')
  OBVIOUS
<1>4. Placed' /\ (\A c \in Cmds : Unsent(c, sent', g', replies')) => NewInv'
  OBVIOUS
<1> QED
  BY <1>1, <1>2, <1>3, <1>4

LEMMA PlacedStep ==
  ASSUME SessionType, ThreadInv, NewInv, NEW t \in Threads, SessionStep(t)
  PROVE  Placed'
<1>0. /\ "block" \in Threads /\ "timer" \in Threads /\ arrived \in Nat /\ g \in Nat
      /\ t = "block" \/ t = "timer"
      /\ buf \in [msg : Ids, waiting : BOOLEAN] /\ Ids \subseteq Nat
      /\ th \in [Threads -> Activities]
      /\ \A u \in Threads : th[u].msg \in Nat
  BY BoundsAssumption DEF Threads, SessionType, Ids, Activities
<1>p. Placed
  BY NewOf
<1>a. /\ \A u \in Threads : u # t => th'[u] = th[u]
      /\ arrived' = arrived
  BY <1>0, StepFacts, StepData
<1>g. g' <= arrived
  BY <1>0, <1>p, StepData DEF Open, Placed
<1>t. th'["timer"].at \in HeldSteps => th'["timer"].nested
  <2>1. CASE t = "block"
    BY <1>0, <1>a, <1>p, <2>1 DEF Placed
  <2>2. CASE t = "timer"
    BY <1>p, <2>2, StepData DEF Placed
  <2> QED
    BY <1>0, <2>1, <2>2
<1>m. \A u \in Threads : th'[u].msg <= arrived
  <2>1. th'[t].msg <= arrived
    BY <1>0, <1>p, StepData DEF Placed
  <2> QED
    BY <1>a, <1>p, <2>1 DEF Placed
<1>s. ASSUME NEW c \in Cmds, c > arrived PROVE sent'[c] = 0
  <2>1. th[t].msg # c /\ sent[c] = 0
    BY <1>0, <1>p, <1>s DEF Placed, Cmds
  <2> QED
    BY <2>1, SentGrows
\* A command that was not held yet stays the last one.
<1>n. ASSUME New'
      PROVE  /\ New /\ th'["block"].msg = arrived /\ sent'[arrived] = 0
             /\ buf.msg # arrived /\ th'["timer"].msg # arrived
             /\ arrived # 0
  <2>1. /\ New /\ th'["block"].msg = th["block"].msg
        /\ t = "block" => ReadState(t)
    <3>1. CASE t = "block"
      BY <1>n, <3>1, StepData DEF New, ReadState, InputSteps
    <3>2. CASE t = "timer"
      BY <1>0, <1>a, <1>n, <3>2 DEF New
    <3> QED
      BY <1>0, <3>1, <3>2
  <2>2. /\ th["block"].msg = arrived /\ sent[arrived] = 0
        /\ buf.msg # arrived /\ th["timer"].msg # arrived
    BY <1>p, <2>1 DEF Placed
  <2>3. arrived \in Cmds /\ arrived # 0
    <3>1. th["block"].msg \in Cmds
      BY <1>0, <2>1 DEF ThreadInv, New
    <3> QED
      BY <2>2, <3>1 DEF Cmds
  <2>4. sent'[arrived] = 0
    <3>1. CASE t = "block"
      BY <2>1, <2>2, <3>1 DEF ReadState, session
    <3>2. CASE t = "timer"
      BY <2>2, <2>3, <3>2, SentGrows
    <3> QED
      BY <1>0, <3>1, <3>2
  <2>5. th'["timer"].msg # arrived
    <3>1. CASE t = "block"
      BY <1>0, <1>a, <2>2, <3>1
    <3>2. CASE t = "timer"
      BY <2>2, <2>3, <3>2, StepData
    <3> QED
      BY <1>0, <3>1, <3>2
  <2> QED
    BY <2>1, <2>2, <2>3, <2>4, <2>5
<1>h. CASE Hold(t)
  <2>1. /\ buf' = [msg |-> th[t].msg, waiting |-> TRUE] /\ th[t].at = "hold"
        /\ dropped' = dropped \/ dropped' = dropped \cup {buf.msg}
    BY <1>h DEF Hold
  <2>2. buf'.msg <= arrived
    BY <1>0, <1>p, <2>1 DEF Placed
  <2>3. \A c \in Cmds : c > arrived => c \notin dropped'
    BY <1>0, <1>p, <2>1 DEF Placed, Cmds
  <2>4. th'[t].at \notin InputSteps
    BY <1>0, <1>h, EndInputFacts DEF Hold, InputSteps, Resting
  <2>5. New' => t = "timer"
    BY <1>0, <2>4 DEF New
  <2>6. New' => buf'.msg # arrived
    <3> SUFFICES ASSUME New' PROVE buf'.msg # arrived
      OBVIOUS
    <3>1. New /\ t = "timer"
      BY <1>n, <2>5
    <3> QED
      BY <1>p, <2>1, <3>1 DEF Placed
  <2> QED
    BY <1>a, <1>g, <1>m, <1>n, <1>s, <1>t, <2>2, <2>3, <2>6 DEF Placed
<1>o. CASE ~Hold(t)
  <2>1. dropped' = dropped /\ buf'.msg = buf.msg
    BY <1>o, StepData
  <2>2. buf.msg <= arrived /\ \A c \in Cmds : c > arrived => c \notin dropped
    BY <1>p DEF Placed
  <2> QED
    BY <1>a, <1>g, <1>m, <1>n, <1>s, <1>t, <2>1, <2>2 DEF Placed
<1> QED
  BY <1>h, <1>o

LEMMA NewStep ==
  ASSUME SessionType, ThreadInv, NewInv, NEW t \in Threads, SessionStep(t)
  PROVE  NewInv'
  BY PlacedStep, UnsentStep, NewOf

LEMMA ResendStep ==
  ASSUME SessionType, ThreadInv, NewInv, ResendInv, NEW t \in Threads, SessionStep(t)
  PROVE  ResendInv'
<1>0. /\ "block" \in Threads /\ "timer" \in Threads /\ sent \in [Cmds -> Nat]
      /\ t = "block" \/ t = "timer"
      /\ buf \in [msg : Ids, waiting : BOOLEAN] /\ th \in [Threads -> Activities]
  BY DEF Threads, SessionType
<1>a. \A u \in Threads : u # t => th'[u] = th[u]
  BY <1>0, StepFacts
<1>s. ASSUME th[t].at \in InputSteps, ~th[t].nested
      PROVE  th[t].msg = arrived /\ sent[arrived] = 0 /\ buf.msg # arrived
  BY <1>0, <1>s DEF NewInv, New
<1>1. CASE Hold(t)
  <2>1. /\ buf' = [msg |-> th[t].msg, waiting |-> TRUE] /\ th[t].at = "hold" /\ sent' = sent
    BY <1>1 DEF Hold
  <2>2. CASE th[t].nested
    BY <1>0, <1>1, <2>2, EndInputFacts DEF Hold, ResendInv
  <2>3. CASE ~th[t].nested
    BY <1>0, <1>s, <2>1, <2>3 DEF InputSteps, ResendInv
  <2> QED
    BY <2>2, <2>3
<1>2. CASE ClearBuffer(t)
  BY <1>0, <1>2 DEF ClearBuffer, ResendInv
<1>3. CASE ~Hold(t) /\ ~ClearBuffer(t)
  <2> SUFFICES ASSUME buf.waiting, sent'[buf.msg] > 0
               PROVE  \E u \in Threads : th'[u].nested
    BY <1>3, StepData DEF ResendInv
  <2>1. buf.msg \in Cmds
    BY DEF ThreadInv
  <2>2. \A u \in Threads : th[u].nested => th'[u].nested
    BY <1>3, <1>a, StepData DEF ThreadInv, HeldSteps
  <2>3. CASE sent[buf.msg] > 0
    BY <2>2, <2>3 DEF ResendInv
  <2>4. CASE ~(sent[buf.msg] > 0)
    <3>1. Open(t) /\ th[t].msg = buf.msg
      BY <2>1, <2>4, SentGrows
    <3>2. th[t].nested
      BY <1>s, <3>1 DEF Open, InputSteps
    <3> QED
      BY <2>2, <3>2
  <2> QED
    BY <2>3, <2>4
<1> QED
  BY <1>1, <1>2, <1>3

\* NewInv and ResendInv, for every step.
LEMMA HeldNext ==
  ASSUME TypeOK, ThreadInv, NewInv, ResendInv, [Next]_vars
  PROVE  NewInv' /\ ResendInv'
<1>0. /\ "block" \in Threads /\ "timer" \in Threads /\ arrived \in Nat /\ g \in Nat
      /\ buf \in [msg : Ids, waiting : BOOLEAN] /\ Ids \subseteq Nat
      /\ th \in [Threads -> Activities] /\ rx.state \in States
      /\ \A u \in Threads : th[u].msg \in Nat
  BY BoundsAssumption, TypeParts, Ranges
  DEF Threads, SessionType, ReceiverType, Ids, Activities
<1>t. SessionType
  BY TypeParts
<1>p. Placed /\ \A c \in Cmds : Unsent(c, sent, g, replies)
  BY NewOf
<1>1. ASSUME NEW t \in Threads, SessionStep(t)
      PROVE  NewInv' /\ ResendInv'
  BY <1>1, <1>t, NewStep, ResendStep
<1>2. CASE InputCommand
  <2>1. /\ th'["block"] = [at |-> "input", msg |-> arrived + 1, nested |-> FALSE]
        /\ th'["timer"] = th["timer"]
    BY <1>0, <1>2, EnterFacts DEF InputCommand
  <2>2. /\ arrived' = arrived + 1 /\ UNCHANGED <<buf, sent, dropped, g, replies>>
        /\ arrived + 1 \in Cmds /\ th["block"].at = "rest"
    BY <1>0, <1>2, BoundsAssumption DEF InputCommand, TakesMessage, Cmds
  <2>3. sent[arrived + 1] = 0 /\ buf.msg # arrived + 1 /\ th["timer"].msg # arrived + 1
    <3>1. sent[arrived + 1] = 0
      BY <1>0, <1>p, <2>2 DEF Placed
    <3>2. buf.msg <= arrived /\ th["timer"].msg <= arrived /\ buf.msg \in Nat /\ th["timer"].msg \in Nat
      BY <1>0, <1>p DEF Placed
    <3> QED
      BY <1>0, <3>1, <3>2
  <2>4. \A u \in Threads : th'[u].msg <= arrived'
    <3>1. th'["block"].msg = arrived + 1 /\ th'["timer"].msg = th["timer"].msg
      BY <2>1
    <3>2. th["timer"].msg <= arrived /\ th["timer"].msg \in Nat
      BY <1>0, <1>p DEF Placed
    <3>3. th["timer"].msg <= arrived + 1
      BY <1>0, <3>2
    <3>4. th'["block"].msg <= arrived' /\ th'["timer"].msg <= arrived'
      BY <1>0, <2>2, <3>1, <3>3
    <3> QED
      BY <3>4 DEF Threads
  <2>5. Placed'
    <3>1. buf'.msg <= arrived' /\ g' <= arrived'
      <4>1. buf.msg \in Nat /\ buf.msg <= arrived /\ g <= arrived
        BY <1>0, <1>p DEF Placed
      <4> QED
        BY <1>0, <2>2, <4>1
    <3>2. \A c \in Cmds : c > arrived' => c > arrived
      BY <1>0, <2>2 DEF Cmds
    <3>3. \A c \in Cmds : c > arrived' => sent'[c] = 0 /\ c \notin dropped'
      BY <1>p, <2>2, <3>2 DEF Placed
    <3>4. /\ th'["block"].msg = arrived' /\ sent'[arrived'] = 0
          /\ buf'.msg # arrived' /\ th'["timer"].msg # arrived'
      BY <2>1, <2>2, <2>3
    <3>5. th'["timer"].at \in HeldSteps => th'["timer"].nested
      BY <1>p, <2>1 DEF Placed
    <3> QED
      BY <2>4, <3>1, <3>3, <3>4, <3>5 DEF Placed
  <2>6. NewInv'
    BY <1>p, <2>2, <2>5, NewOf
  <2>7. ResendInv'
    <3>1. ~th["block"].nested
      BY <1>0, <2>2 DEF ThreadInv, InputSteps, RepliedSteps, TimerSteps
    <3> QED
      BY <2>1, <2>2, <3>1 DEF ResendInv, Threads
  <2> QED
    BY <2>6, <2>7
\* The other steps leave the commands alone and begin no handler with one.
<1>b. ASSUME NEW t \in Threads, NEW l, Goto(t, l),
             UNCHANGED <<buf, sent, arrived, dropped, g, replies>>,
             l \notin HeldSteps, th[t].at \notin HeldSteps
      PROVE  NewInv' /\ ResendInv'
  <2>1. /\ th'[t].at = l /\ th'[t].msg = th[t].msg /\ th'[t].nested = th[t].nested
        /\ \A u \in Threads : u # t => th'[u] = th[u]
    BY <1>0, <1>b, GotoFacts
  <2>2. Placed'
    BY <1>b, <1>p, <2>1 DEF Placed, New, HeldSteps, Threads
  <2>3. ResendInv'
    BY <1>b, <2>1 DEF ResendInv
  <2> QED
    BY <1>b, <1>p, <2>2, <2>3, NewOf
<1>s. ASSUME UNCHANGED <<th, buf, sent, arrived, dropped, g>>,
             \A c \in Cmds : replies'[c]["tnc_ok"] = replies[c]["tnc_ok"]
      PROVE  NewInv' /\ ResendInv'
  BY <1>s DEF NewInv, New, ResendInv
<1> USE DEF HeldSteps, InputSteps, RepliedSteps, TimerSteps
<1>3. CASE InputRefused
  <2>1. \A c \in Cmds : replies'[c]["tnc_ok"] = replies[c]["tnc_ok"]
    BY <1>3, <1>t, PublishFacts DEF InputRefused, ReplyKinds, Cmds, Ids
  <2> QED
    BY <1>3, <1>s, <2>1 DEF InputRefused
<1>4. CASE GeneralWork
  BY <1>0, <1>4, <1>b DEF GeneralWork, TakesMessage, session, States
<1>5. CASE ReceiveBit
  <2>1. \E l \in {"rest", "check", "reset_rx"} : Goto("block", l)
    BY <1>0, <1>5, BitFacts
  <2>2. UNCHANGED <<buf, sent, arrived, dropped, g, replies>> /\ th["block"].at \notin HeldSteps
    BY <1>0, <1>5, BitFacts DEF session, BitSteps, States
  <2> QED
    BY <1>0, <1>b, <2>1, <2>2
<1>6. CASE TimerElapses
  BY <1>6, <1>s DEF TimerElapses, session
<1>7. CASE RunCompletion
  <2>1. th' = th \/ \E l \in {"sat_nok", "module_id"} : Goto("timer", l)
    BY <1>7 DEF RunCompletion
  <2>2. UNCHANGED <<buf, sent, arrived, dropped, g, replies>> /\ th["timer"].at = "rest"
    BY <1>7 DEF RunCompletion, session
  <2> QED
    BY <1>0, <1>b, <1>s, <2>1, <2>2
<1>8. CASE UNCHANGED vars
  BY <1>8, <1>s DEF vars, session
<1> QED
  BY <1>1, <1>2, <1>3, <1>4, <1>5, <1>6, <1>7, <1>8
  DEF Next, HandlerStep, Receive, RunTimer, Exhausted

LEMMA HeldCorrect == Spec => [](TypeOK /\ ThreadInv /\ NewInv /\ ResendInv)
<1>1. ASSUME Init PROVE NewInv /\ ResendInv
  <2>1. /\ th = [t \in Threads |-> Resting] /\ buf = [msg |-> 0, waiting |-> FALSE]
        /\ arrived = 0 /\ g = 0 /\ sent = [c \in Cmds |-> 0] /\ dropped = {}
        /\ \A c \in Cmds : replies[c]["tnc_ok"] = 0 /\ c # 0
        /\ "block" \in Threads /\ "timer" \in Threads
    BY <1>1 DEF Init, Threads, Cmds, Ids, ReplyKinds
  <2> QED
    BY <2>1 DEF NewInv, New, ResendInv, Resting, InputSteps, RepliedSteps, TimerSteps
<1> QED
  BY <1>1, ThreadsCorrect, HeldNext, PTL DEF Spec

------------------------------------------------------------------------------
(* A handler that runs alone                                                *)

Pending(tm) ==
  \/ tm.waits # <<>> /\ Head(tm.waits) = "timeout" /\ tm.due = "finite"
  \/ Queued(tm, "timeout", TRUE)

\* What does not cancel the wait in progress, or only completes it, loses no
\* deadline of handle_timeout.
LEMMA PendingKept ==
  ASSUME tmr \in Timers(Handlers)
  PROVE  /\ TimeoutPending <=> Pending(tmr)
         /\ TimeoutPending' <=> Pending(tmr')
         /\ Pending(tmr) => Pending(Returned(tmr))
         /\ Pending(tmr) => Pending(Returned(AsyncWait(tmr, "infinite")))
         /\ Pending(tmr) /\ tmr.waits # <<>> => Pending(Elapse(tmr))
         /\ /\ Pending(tmr) /\ Dispatchable(tmr)
            /\ ~(Head(tmr.ready).handler = "timeout" /\ Head(tmr.ready).ok)
            => Pending(Dispatched(tmr)) /\ Pending(Returned(Dispatched(tmr)))
<1>h. "timeout" \in Handlers /\ "infinite" \in Handlers /\ "never" \in Deadlines
  BY DEF Handlers, Deadlines
<1>0. (TimeoutPending <=> Pending(tmr)) /\ (TimeoutPending' <=> Pending(tmr'))
  BY DEF TimeoutPending, Pending
<1>1. ASSUME NEW tm \in Timers(Handlers) PROVE Pending(tm) => Pending(Returned(tm))
  <2>1. /\ Returned(tm).waits = tm.waits /\ Returned(tm).due = tm.due
        /\ Returned(tm).ready = tm.ready
    BY ReturnedFacts
  <2> QED
    BY <2>1 DEF Pending, Queued
<1>3. Pending(tmr) => Pending(AsyncWait(tmr, "infinite"))
  <2> DEFINE a == AsyncWait(tmr, "infinite")
  <2>1. /\ a.waits = Append(tmr.waits, "infinite") /\ a.ready = tmr.ready
        /\ tmr.waits # <<>> => a.due = tmr.due
    BY DEF AsyncWait, Timers
  <2>2. tmr.waits \in Seq(Handlers)
    BY DEF Timers
  <2>3. tmr.waits # <<>> => Head(a.waits) = Head(tmr.waits) /\ a.waits # <<>>
    BY <1>h, <2>1, <2>2, AppendProperties
  <2> QED
    BY <2>1, <2>3 DEF Pending, Queued
<1>i. AsyncWait(tmr, "infinite") \in Timers(Handlers)
  BY TmrType
<1>4. Pending(tmr) /\ tmr.waits # <<>> => Pending(Elapse(tmr))
  BY <1>h, ElapseFacts DEF Pending
<1>5. ASSUME Pending(tmr), Dispatchable(tmr),
             ~(Head(tmr.ready).handler = "timeout" /\ Head(tmr.ready).ok)
      PROVE  Pending(Dispatched(tmr)) /\ Pending(Returned(Dispatched(tmr)))
  <2> DEFINE d == Dispatched(tmr)
  <2>1. /\ d \in Timers(Handlers) /\ d.waits = tmr.waits /\ d.due = tmr.due
        /\ Queued(tmr, "timeout", TRUE) =>
             Queued(d, "timeout", TRUE) \/ Head(tmr.ready) = [handler |-> "timeout", ok |-> TRUE]
    BY <1>5, <1>h, DispatchedFacts, TimersClosed
  <2>2. Head(tmr.ready) # [handler |-> "timeout", ok |-> TRUE]
    BY <1>5
  <2>3. Pending(d)
    BY <1>5, <2>1, <2>2 DEF Pending
  <2> QED
    BY <1>1, <2>1, <2>3
<1> QED
  BY <1>0, <1>1, <1>3, <1>i, <1>4, <1>5

\* Watch notices every overlap, and when it ends.
LEMMA WatchFacts ==
  ASSUME [Next]_vars, ~Together', LoneInv
  PROVE  /\ Exclusive'
         /\ Together => Quiescent'
<1>1. Watch \/ UNCHANGED vars
  BY DEF Next, HandlerStep, Receive, RunTimer, Exhausted
<1>2. CASE UNCHANGED vars
  BY <1>2 DEF vars, Together, LoneInv, Exclusive, InHandler, Quiescent
<1>3. CASE Watch
  BY <1>3 DEF Watch, Together, Exclusive, InHandler, Quiescent, Threads
<1> QED
  BY <1>1, <1>2, <1>3

\* In a lone handler the other thread is outside.
LEMMA AloneFacts ==
  ASSUME SessionType, ThreadInv, Exclusive,
         NEW t \in Threads, SessionStep(t), NEW u \in Threads, u # t
  PROVE  /\ th[u].at \in {"rest"} \cup BitSteps /\ th'[u] = th[u]
         /\ ~th[u].nested
<1>1. InHandler(t) /\ th'[u] = th[u]
  BY StepFacts DEF InHandler, Inside, SessionType
<1>2. ~InHandler(u)
  BY <1>1 DEF Exclusive, Threads
<1>3. th[u].at \in {"rest"} \cup BitSteps
  BY <1>2 DEF InHandler
<1> QED
  BY <1>1, <1>3 DEF ThreadInv, InputSteps, RepliedSteps, TimerSteps, BitSteps, States

\* A reply published for another command, or to refuse one, unsays no answer.
LEMMA AnsweredPublish ==
  ASSUME SessionType, NEW k \in ReplyKinds, Publish(k), sent' = sent,
         NEW c \in Cmds, Answered(c), k = "tnc_ok" /\ g = c => c \in UnknownCmds
  PROVE  Answered(c)'
<1>1. /\ c \in Ids /\ {"tnc_ok", "tnc_nok"} \subseteq ReplyKinds
      /\ \A j \in ReplyKinds : replies[c][j] \in Nat
  BY DEF SessionType, Cmds, Ids, ReplyKinds
<1>2. \A j \in {"tnc_ok", "tnc_nok"} :
        replies'[c][j] = IF c = g /\ j = k THEN replies[c][j] + 1 ELSE replies[c][j]
  BY <1>1, PublishFacts
<1>3. replies[c]["tnc_nok"] > 0 => replies'[c]["tnc_nok"] > 0
  BY <1>1, <1>2
<1>4. c \notin UnknownCmds => replies'[c]["tnc_ok"] = replies[c]["tnc_ok"]
  BY <1>2
<1> QED
  BY <1>3, <1>4 DEF Answered

\* A handler that does not transmit the command again keeps its answer.
LEMMA AnsweredKept ==
  ASSUME SessionType, NEW t \in Threads, SessionStep(t), NEW c \in Cmds, Answered(c),
         Open(t) /\ th[t].msg = c => c \in UnknownCmds,
         AckOk(t) /\ g = c => c \in UnknownCmds
  PROVE  Answered(c)'
<1>1. CASE Open(t)
  <2>1. sent'[c] = sent[c] /\ replies' = replies
    BY <1>1, SentGrows DEF Open
  <2> QED
    BY <2>1 DEF Answered
<1>2. CASE AckOk(t)
  <2>1. Publish("tnc_ok") /\ sent' = sent
    BY <1>2 DEF AckOk
  <2> QED
    BY <1>2, <2>1, AnsweredPublish DEF ReplyKinds
<1>3. CASE RefuseType(t)
  <2>1. Publish("tnc_nok") /\ sent' = sent
    BY <1>3 DEF RefuseType
  <2> QED
    BY <2>1, AnsweredPublish DEF ReplyKinds
<1>4. CASE SatNok(t)
  <2>1. Publish("sat_nok") /\ sent' = sent
    BY <1>4 DEF SatNok
  <2> QED
    BY <2>1, AnsweredPublish DEF ReplyKinds
<1>5. CASE ~Open(t) /\ ~AckOk(t) /\ ~RefuseType(t) /\ ~SatNok(t)
  <2>1. UNCHANGED <<sent, replies>>
    BY <1>5 DEF SessionStep, ReadState, Hold, StartTimerExpires, StartTimerWait, SetWaitMsg,
       ResetRx, ClearRx, IdleTimerExpires, IdleTimerWait, SetIdle, CheckBuffer, ClearBuffer,
       ModuleId, ModuleIdReturns, session
  <2> QED
    BY <2>1 DEF Answered
<1> QED
  BY <1>1, <1>2, <1>3, <1>4, <1>5

\* What the steps that answer a command do if they run alone.
LEMMA LoneAnswers ==
  ASSUME SessionType, ThreadInv, NewInv, NEW t \in Threads, LoneAt(t), SessionStep(t)
  PROVE  /\ Open(t) => /\ sent[th[t].msg] = 0 /\ g' = th[t].msg
                       /\ th'[t].at = "ack" => sent'[th[t].msg] = 1
                                              /\ replies'[th[t].msg]["tnc_ok"] = 0
         /\ AckOk(t) \/ RefuseType(t) =>
              g = th[t].msg /\ \A c \in Cmds : c = th[t].msg => Answered(c)'
         /\ AckOk(t) => replies[th[t].msg]["tnc_ok"] = 0 /\ th[t].msg \notin UnknownCmds
<1> USE DEF HeldSteps, InputSteps, RepliedSteps, TimerSteps
<1>0. /\ th \in [Threads -> Activities] /\ (t = "block" \/ t = "timer")
      /\ sent \in [Cmds -> Nat]
      /\ th[t].at \in HeldSteps => th[t].msg \in Cmds
      /\ \A c \in Cmds : /\ c \in UnknownCmds => sent[c] = 0
                         /\ c \notin UnknownCmds /\ sent[c] = 0 => replies[c]["tnc_ok"] = 0
  BY DEF SessionType, ThreadInv, NewInv, Threads
<1>f. th \in [Threads -> Activities]
  BY DEF SessionType
<1>1. CASE Open(t)
  <2>1. th[t].at = "open" /\ th[t].msg \in Cmds
    BY <1>0, <1>1 DEF Open
  <2>2. sent[th[t].msg] = 0
    <3>1. CASE th[t].nested
      BY <2>1, <3>1 DEF LoneAt
    <3>2. CASE ~th[t].nested
      BY <1>0, <2>1, <3>2 DEF NewInv, New
    <3> QED
      BY <3>1, <3>2
  <2>3. th'[t].at = "ack" => th[t].msg \notin UnknownCmds
    <3> SUFFICES ASSUME th[t].msg \in UnknownCmds PROVE th'[t].at # "ack"
      OBVIOUS
    <3>1. Goto(t, "nok")
      BY <1>1 DEF Open
    <3>2. th'[t].at = "nok"
      BY <1>f, <3>1, GotoFacts
    <3> QED
      BY <3>2
  <2>4. th[t].msg \notin UnknownCmds => sent'[th[t].msg] = 1
    BY <1>1, <2>1, <2>2, SentGrows
  <2>5. ~AckOk(t) /\ ~RefuseType(t)
    BY <2>1 DEF AckOk, RefuseType
  <2>6. g' = th[t].msg /\ replies' = replies
    BY <1>1 DEF Open
  <2>7. th[t].msg \notin UnknownCmds => replies[th[t].msg]["tnc_ok"] = 0
    BY <1>0, <2>1, <2>2
  <2> QED
    BY <2>2, <2>3, <2>4, <2>5, <2>6, <2>7
<1>2. CASE AckOk(t)
  <2>1. /\ th[t].at = "ack" /\ th[t].msg \in Cmds /\ g = th[t].msg
        /\ sent[th[t].msg] = 1 /\ replies[th[t].msg]["tnc_ok"] = 0
    BY <1>0, <1>2 DEF AckOk, LoneAt
  <2>2. th[t].msg \notin UnknownCmds
    BY <1>0, <2>1
  <2>3. Publish("tnc_ok") /\ sent' = sent
    BY <1>2 DEF AckOk
  <2>4. replies'[th[t].msg]["tnc_ok"] = 1
    BY <2>1, <2>3, PublishFacts DEF ReplyKinds, Cmds, Ids
  <2>5. ASSUME NEW c \in Cmds, c = th[t].msg PROVE Answered(c)'
    BY <2>1, <2>2, <2>3, <2>4, <2>5 DEF Answered
  <2> QED
    BY <2>1, <2>2, <2>5 DEF Open, RefuseType
<1>3. CASE RefuseType(t)
  <2>1. /\ th[t].at = "nok" /\ th[t].msg \in Cmds /\ g = th[t].msg
        /\ th[t].msg \in UnknownCmds /\ sent[th[t].msg] = 0
    BY <1>0, <1>3 DEF RefuseType, LoneAt, ThreadInv
  <2>2. Publish("tnc_nok") /\ sent' = sent
    BY <1>3 DEF RefuseType
  <2>3. replies[th[t].msg]["tnc_nok"] \in Nat
    BY <2>1 DEF SessionType, ReplyKinds, Cmds, Ids
  <2>4. replies'[th[t].msg]["tnc_nok"] > 0
    BY <2>1, <2>2, <2>3, PublishFacts DEF ReplyKinds, Cmds, Ids
  <2>5. ASSUME NEW c \in Cmds, c = th[t].msg PROVE Answered(c)'
    BY <2>1, <2>2, <2>4, <2>5 DEF Answered
  <2> QED
    BY <2>1, <2>5 DEF Open, AckOk
<1> QED
  BY <1>1, <1>2, <1>3

LEMMA LoneStep ==
  ASSUME SessionType, ThreadInv, NewInv, ResendInv, Exclusive,
         NEW t \in Threads, LoneAt(t), SessionStep(t)
  PROVE  LoneAt(t)'
<1> USE DEF InputSteps, RepliedSteps, TimerSteps
<1>0. /\ sent \in [Cmds -> Nat] /\ p_state \in {"idle", "wait_MSG"}
      /\ buf \in [msg : Ids, waiting : BOOLEAN] /\ tmr \in Timers(Handlers)
      /\ th \in [Threads -> Activities] /\ "finite" \in Deadlines
  BY DEF SessionType, Deadlines
<1>i. /\ th[t].at \in InputSteps \cup {"nok", "ack"} \cup RepliedSteps => th[t].msg \in Cmds
      /\ th[t].nested => th[t].at \in InputSteps \cup {"nok", "ack"} \cup RepliedSteps
      /\ th[t].at = "clear_buf" => th[t].nested
  BY DEF ThreadInv
<1>e. ASSUME th'[t] = Resting PROVE LoneAt(t)'
  BY <1>e DEF Resting, LoneAt
\* A step that transmits and answers nothing.
<1>k. ASSUME NEW c \in Cmds, Answered(c), ~Open(t), ~AckOk(t) PROVE Answered(c)'
  BY <1>k, AnsweredKept
\* A step of a handler that holds no command.
<1>n. ASSUME th'[t].at \notin InputSteps \cup {"nok", "ack", "check_buf"} \cup RepliedSteps, ~th'[t].nested
      PROVE  LoneAt(t)'
  BY <1>n DEF LoneAt
<1>1. CASE ReadState(t)
  BY <1>0, <1>1, GotoFacts DEF ReadState, session, LoneAt
<1>2. CASE Hold(t)
  <2>1. ~th[t].nested
    BY <1>2 DEF Hold, LoneAt
  <2> QED
    BY <1>0, <1>2, <1>e, <2>1, EndInputFacts DEF Hold
<1>3. CASE Open(t)
  <2>1. /\ th'[t].at \in {"nok", "ack"} /\ th'[t].msg = th[t].msg /\ th'[t].nested = th[t].nested
        /\ buf' = buf /\ p_state' = p_state
    BY <1>0, <1>3, GotoFacts DEF Open
  <2>2. p_state = "idle" /\ (th[t].nested => buf.waiting /\ th[t].msg = buf.msg)
    BY <1>3 DEF Open, LoneAt
  <2>3. /\ g' = th[t].msg
        /\ th'[t].at = "ack" => sent'[th[t].msg] = 1 /\ replies'[th[t].msg]["tnc_ok"] = 0
    BY <1>3, LoneAnswers
  <2> QED
    BY <2>1, <2>2, <2>3 DEF LoneAt
<1>4. CASE RefuseType(t)
  <2>1. CASE th[t].nested
    <3>1. /\ th'[t].at = "clear_buf" /\ th'[t].msg = th[t].msg /\ th'[t].nested
          /\ buf' = buf /\ th[t].at = "nok"
      BY <1>0, <1>4, <2>1, EndInputFacts DEF RefuseType
    <3>2. \A c \in Cmds : c = th'[t].msg => Answered(c)'
      BY <1>4, <3>1, LoneAnswers
    <3>3. Answered(th[t].msg)'
      BY <1>i, <3>1, <3>2
    <3> QED
      BY <2>1, <3>1, <3>3 DEF LoneAt
  <2>2. CASE ~th[t].nested
    BY <1>0, <1>4, <1>e, <2>2, EndInputFacts DEF RefuseType
  <2> QED
    BY <2>1, <2>2
<1>5. CASE AckOk(t)
  <2>1. /\ th'[t].at = "start_expires" /\ th'[t].msg = th[t].msg /\ th'[t].nested = th[t].nested
        /\ buf' = buf /\ p_state' = p_state /\ th[t].at = "ack"
    BY <1>0, <1>5, GotoFacts DEF AckOk
  <2>2. \A c \in Cmds : c = th'[t].msg => Answered(c)'
    BY <1>5, <2>1, LoneAnswers
  <2>3. Answered(th[t].msg)'
    BY <1>i, <2>1, <2>2
  <2> QED
    BY <2>1, <2>3 DEF LoneAt
<1>r. ASSUME th[t].at \in RepliedSteps, th'[t].msg = th[t].msg
      PROVE  Answered(th[t].msg)'
  <2>1. th[t].msg \in Cmds /\ Answered(th[t].msg) /\ ~Open(t) /\ ~AckOk(t)
    BY <1>i, <1>r DEF LoneAt, Open, AckOk
  <2>2. \A c \in Cmds : c = th'[t].msg => Answered(c)'
    BY <1>k, <1>r, <2>1
  <2> QED
    BY <1>r, <2>1, <2>2
<1>6. CASE StartTimerExpires(t)
  <2>1. tmr'.waits = <<>> /\ tmr'.expiry = "finite"
    BY <1>0, <1>6, ExpiresFacts DEF StartTimerExpires
  <2>2. /\ th'[t].at = "start_wait" /\ th'[t].msg = th[t].msg /\ th'[t].nested = th[t].nested
        /\ th[t].at = "start_expires" /\ UNCHANGED <<p_state, buf>>
    BY <1>0, <1>6, GotoFacts DEF StartTimerExpires, session
  <2>3. Answered(th[t].msg)'
    BY <1>r, <2>2
  <2> QED
    BY <2>1, <2>2, <2>3 DEF LoneAt
<1>7. CASE StartTimerWait(t)
  <2>1. tmr.waits = <<>> /\ tmr.expiry = "finite" /\ "timeout" \in Handlers
    BY <1>7 DEF StartTimerWait, LoneAt, Handlers
  <2>2. /\ tmr'.waits # <<>> /\ Head(tmr'.waits) = "timeout" /\ tmr'.due = "finite"
    BY <1>0, <1>7, <2>1, AsyncWaitFacts DEF StartTimerWait
  <2>3. TimeoutPending'
    BY <2>2 DEF TimeoutPending
  <2>4. /\ th'[t].at = "set_wait" /\ th'[t].msg = th[t].msg /\ th'[t].nested = th[t].nested
        /\ th[t].at = "start_wait" /\ UNCHANGED <<p_state, buf>>
    BY <1>0, <1>7, GotoFacts DEF StartTimerWait, session
  <2>5. Answered(th[t].msg)'
    BY <1>r, <2>4
  <2> QED
    BY <2>3, <2>4, <2>5 DEF LoneAt
<1>8. CASE SetWaitMsg(t)
  <2>1. CASE th[t].nested
    <3>1. /\ th'[t].at = "clear_buf" /\ th'[t].msg = th[t].msg /\ th'[t].nested
          /\ buf' = buf /\ th[t].at = "set_wait"
      BY <1>0, <1>8, <2>1, EndInputFacts DEF SetWaitMsg
    <3>2. Answered(th[t].msg)'
      BY <1>r, <3>1
    <3> QED
      BY <2>1, <3>1, <3>2 DEF LoneAt
  <2>2. CASE ~th[t].nested
    BY <1>0, <1>8, <1>e, <2>2, EndInputFacts DEF SetWaitMsg
  <2> QED
    BY <2>1, <2>2
<1>9. CASE ResetRx(t)
  BY <1>0, <1>9, <1>i, <1>n, GotoFacts DEF ResetRx
<1>10. CASE ClearRx(t)
  BY <1>0, <1>10, <1>i, <1>n, GotoFacts DEF ClearRx
<1>11. CASE IdleTimerExpires(t)
  BY <1>0, <1>11, <1>i, <1>n, GotoFacts DEF IdleTimerExpires
<1>12. CASE IdleTimerWait(t)
  BY <1>0, <1>12, <1>i, <1>n, GotoFacts DEF IdleTimerWait
<1>13. CASE SetIdle(t)
  BY <1>0, <1>13, <1>i, GotoFacts DEF SetIdle, LoneAt
<1>14. CASE CheckBuffer(t)
  <2>1. CASE /\ buf.waiting
             /\ th' = [th EXCEPT ![t] = [at |-> "input", msg |-> buf.msg, nested |-> TRUE]]
    <3>1. th'[t] = [at |-> "input", msg |-> buf.msg, nested |-> TRUE]
      BY <1>0, <2>1, EnterFacts
    <3>2. \A u \in Threads : ~th[u].nested
      BY <1>i, <1>14, AloneFacts DEF CheckBuffer
    <3>3. buf.msg \in Cmds /\ ~(sent[buf.msg] > 0)
      BY <2>1, <3>2 DEF ThreadInv, ResendInv
    <3>4. sent[buf.msg] = 0
      BY <1>0, <3>3
    <3>5. buf' = buf /\ sent' = sent /\ p_state' = "idle"
      BY <1>14 DEF CheckBuffer, session, LoneAt
    <3> QED
      BY <2>1, <3>1, <3>4, <3>5 DEF LoneAt
  <2>2. CASE Leave(t)
    BY <1>0, <1>e, <2>2, LeaveFacts
  <2> QED
    BY <1>14, <2>1, <2>2 DEF CheckBuffer
<1>15. CASE ClearBuffer(t)
  BY <1>0, <1>15, <1>e, LeaveFacts DEF ClearBuffer
<1>16. CASE SatNok(t)
  BY <1>0, <1>16, <1>i, <1>n, GotoFacts DEF SatNok
<1>17. CASE ModuleId(t)
  BY <1>0, <1>17, <1>i, <1>n, GotoFacts DEF ModuleId
<1>18. CASE ModuleIdReturns(t)
  BY <1>0, <1>18, <1>e, EnterFacts DEF ModuleIdReturns
<1> QED
  BY <1>1, <1>2, <1>3, <1>4, <1>5, <1>6, <1>7, <1>8, <1>9, <1>10, <1>11, <1>12, <1>13,
     <1>14, <1>15, <1>16, <1>17, <1>18 DEF SessionStep

LEMMA LoneNext ==
  ASSUME TypeOK, ThreadInv, ThreadInv', NewInv, ResendInv, LoneInv, [Next]_vars
  PROVE  LoneInv'
<1> SUFFICES ASSUME ~Together'
             PROVE  Exclusive' /\ \A t \in Threads : LoneAt(t)'
  BY DEF LoneInv
<1>0. /\ "block" \in Threads /\ "timer" \in Threads /\ tmr \in Timers(Handlers)
      /\ th \in [Threads -> Activities] /\ SessionType /\ rx.state \in States
  BY TypeParts, Ranges DEF Threads, SessionType, ReceiverType
<1>x. Exclusive' /\ (Together => Quiescent')
  BY WatchFacts
\* A thread that is outside its handlers, or begins one.
<1>z. ASSUME NEW t \in Threads, ~InHandler(t)'
      PROVE  LoneAt(t)'
  <2>1. th'[t].at \in {"rest"} \cup BitSteps
    BY <1>z DEF InHandler
  <2> QED
    BY <2>1 DEF LoneAt, ThreadInv, InputSteps, RepliedSteps, TimerSteps, BitSteps, States
<1> SUFFICES ASSUME ~Together
             PROVE  \A t \in Threads : LoneAt(t)'
  BY <1>x, <1>z DEF Quiescent
<1>l. Exclusive /\ \A t \in Threads : LoneAt(t)
  BY DEF LoneInv
\* If the block thread begins a handler the timer thread is outside.
<1>b. ASSUME InHandler("block")', LoneAt("block")' PROVE \A t \in Threads : LoneAt(t)'
  BY <1>0, <1>b, <1>x, <1>z DEF Exclusive, Threads
<1>t. ASSUME InHandler("timer")', LoneAt("timer")' PROVE \A t \in Threads : LoneAt(t)'
  BY <1>0, <1>t, <1>x, <1>z DEF Exclusive, Threads
\* The block thread stays outside, and what the timer thread knows stays.
<1>o. ASSUME ~InHandler("block")', th'["timer"] = th["timer"],
             UNCHANGED <<p_state, g, buf, sent, replies, tmr>>
      PROVE  \A t \in Threads : LoneAt(t)'
  <2>1. LoneAt("timer")'
    BY <1>0, <1>l, <1>o DEF LoneAt, Answered, TimeoutPending
  <2> QED
    BY <1>o, <1>z, <2>1 DEF Threads
<1>1. ASSUME NEW t \in Threads, SessionStep(t)
      PROVE  \A u \in Threads : LoneAt(u)'
  <2>1. LoneAt(t)'
    BY <1>0, <1>1, <1>l, LoneStep
  <2>2. ASSUME NEW u \in Threads, u # t PROVE LoneAt(u)'
    <3>1. ~InHandler(u)'
      BY <1>0, <1>1, <1>l, <2>2, AloneFacts DEF InHandler
    <3> QED
      BY <1>z, <3>1
  <2> QED
    BY <2>1, <2>2
<1>2. CASE InputCommand
  <2>1. /\ th'["block"] = [at |-> "input", msg |-> arrived + 1, nested |-> FALSE]
    BY <1>0, <1>2, EnterFacts DEF InputCommand
  <2>2. LoneAt("block")' /\ InHandler("block")'
    BY <2>1 DEF LoneAt, InHandler, RepliedSteps, TimerSteps, BitSteps, States
  <2> QED
    BY <1>b, <2>2
<1>3. CASE InputRefused
  <2>1. /\ UNCHANGED <<p_state, g, buf, sent, tmr, th>>
        /\ Publish("tnc_nok") \/ replies' = replies
        /\ th["block"].at = "rest" /\ "tnc_nok" \in ReplyKinds
    BY <1>3 DEF InputRefused, TakesMessage, ReplyKinds
  <2>2. LoneAt("timer")'
    <3>1. \A c \in Cmds : Answered(c) => Answered(c)'
      <4>1. CASE Publish("tnc_nok")
        BY <1>0, <2>1, <4>1, AnsweredPublish
      <4>2. CASE replies' = replies
        BY <2>1, <4>2 DEF Answered
      <4> QED
        BY <2>1, <4>1, <4>2
    <3>2. th["timer"].at \in {"ack"} \cup RepliedSteps => th["timer"].msg \in Cmds
      BY <1>0 DEF ThreadInv
    <3>3. \A c \in Cmds : replies'[c]["tnc_ok"] = replies[c]["tnc_ok"]
      BY <1>0, <2>1, PublishFacts DEF ReplyKinds, Cmds, Ids
    <3>4. th["timer"].at \in RepliedSteps => Answered(th["timer"].msg)'
      BY <1>l, <1>0, <2>1, <3>1, <3>2 DEF LoneAt
    <3>5. th["timer"].at = "ack" => replies'[th["timer"].msg]["tnc_ok"] = 0
      BY <1>l, <1>0, <3>2, <3>3 DEF LoneAt
    <3> QED
      BY <1>l, <1>0, <2>1, <3>4, <3>5 DEF LoneAt, TimeoutPending
  <2>3. ~InHandler("block")'
    BY <2>1 DEF InHandler
  <2> QED
    BY <1>z, <2>2, <2>3 DEF Threads
<1>4. CASE GeneralWork
  <2>1. th'["block"].at = rx.state /\ th'["timer"] = th["timer"]
    BY <1>0, <1>4, GotoFacts DEF GeneralWork
  <2> QED
    BY <1>0, <1>4, <1>o, <2>1 DEF GeneralWork, session, InHandler, BitSteps
<1>5. CASE ReceiveBit
  <2>1. /\ th'["block"].at \in {"rest", "check", "reset_rx"} /\ ~th'["block"].nested
        /\ th'["timer"] = th["timer"]
    BY <1>0, <1>5, BitFacts
       DEF ThreadInv, InputSteps, RepliedSteps, TimerSteps, BitSteps, States
  <2>2. CASE th'["block"].at = "reset_rx"
    <3>1. LoneAt("block")' /\ InHandler("block")'
      BY <2>1, <2>2 DEF LoneAt, InHandler, RepliedSteps, TimerSteps, BitSteps, States
    <3> QED
      BY <1>b, <3>1
  <2>3. CASE th'["block"].at # "reset_rx"
    <3>1. ~InHandler("block")'
      BY <2>1, <2>3 DEF InHandler, BitSteps
    <3> QED
      BY <1>0, <1>5, <1>o, <2>1, <3>1, BitFacts DEF session
  <2> QED
    BY <2>2, <2>3
\* The timer thread is in io_service::run, the block thread perhaps in a handler.
<1>r. ASSUME th' = th, th["timer"].at = "rest",
             UNCHANGED <<p_state, g, buf, sent, replies>>,
             th["block"].at = "start_wait" => tmr'.waits = tmr.waits /\ tmr'.expiry = tmr.expiry,
             Pending(tmr) => Pending(tmr')
      PROVE  \A t \in Threads : LoneAt(t)'
  <2>1. TimeoutPending => TimeoutPending'
    BY <1>0, <1>r, PendingKept
  <2>2. LoneAt("block")'
    BY <1>0, <1>l, <1>r, <2>1 DEF LoneAt, Answered
  <2>3. ~InHandler("timer")'
    BY <1>r DEF InHandler
  <2> QED
    BY <1>z, <2>2, <2>3 DEF Threads
<1>6. CASE TimerElapses
  <2>1. /\ tmr.waits # <<>> /\ tmr' = Elapse(tmr) /\ th' = th /\ th["timer"].at = "rest"
        /\ UNCHANGED <<p_state, g, buf, sent, replies>>
    BY <1>6 DEF TimerElapses, Elapsable, session
  <2>2. th["block"].at # "start_wait"
    BY <1>0, <1>l, <2>1 DEF LoneAt
  <2> QED
    BY <1>0, <1>r, <2>1, <2>2, PendingKept
<1>7. CASE RunCompletion
  <2>1. CASE \E l \in {"sat_nok", "module_id"} : Goto("timer", l)
    <3>1. th'["timer"].at \in {"sat_nok", "module_id"} /\ ~th'["timer"].nested
      <4>1. ~th["timer"].nested
        BY <1>0, <1>7 DEF RunCompletion, ThreadInv, InputSteps, RepliedSteps, TimerSteps
      <4> QED
        BY <1>0, <2>1, <4>1, GotoFacts
    <3>2. LoneAt("timer")' /\ InHandler("timer")'
      BY <3>1 DEF LoneAt, InHandler, RepliedSteps, TimerSteps, BitSteps, States
    <3> QED
      BY <1>t, <3>2
  <2>2. CASE ~\E l \in {"sat_nok", "module_id"} : Goto("timer", l)
    <3>1. /\ th' = th /\ th["timer"].at = "rest" /\ Dispatchable(tmr)
          /\ tmr' = Returned(Dispatched(tmr))
          /\ ~(Head(tmr.ready).handler = "timeout" /\ Head(tmr.ready).ok)
          /\ UNCHANGED <<p_state, g, buf, sent, replies>>
      BY <1>7, <2>2 DEF RunCompletion, session
    <3>2. tmr'.waits = tmr.waits /\ tmr'.expiry = tmr.expiry
      BY <1>0, <3>1 DEF Dispatched, Returned, Timers
    <3> QED
      BY <1>0, <1>r, <3>1, <3>2, PendingKept
  <2> QED
    BY <2>1, <2>2
<1>8. CASE UNCHANGED vars
  BY <1>8, <1>l DEF vars, session, LoneAt, Answered, TimeoutPending
<1> QED
  BY <1>1, <1>2, <1>3, <1>4, <1>5, <1>6, <1>7, <1>8
  DEF Next, HandlerStep, Receive, RunTimer, Exhausted

AllInv == TypeOK /\ ThreadInv /\ NewInv /\ ResendInv /\ LoneInv

LEMMA LoneCorrect == Spec => []AllInv
<1>1. Init => LoneInv
  BY DEF Init, LoneInv, LoneAt, RepliedSteps, TimerSteps, Exclusive, InHandler, Resting, Threads
<1>2. TypeOK /\ ThreadInv /\ [Next]_vars => ThreadInv'
  BY ThreadNext
<1>3. TypeOK /\ ThreadInv /\ ThreadInv' /\ NewInv /\ ResendInv /\ LoneInv /\ [Next]_vars => LoneInv'
  BY LoneNext
<1> QED
  BY <1>1, <1>2, <1>3, HeldCorrect, PTL DEF Spec, AllInv

\* An action property of handlers that run alone, from the invariants.
LEMMA Alone ==
  ASSUME AllInv, [Next]_vars, Apart
  PROVE  /\ TypeOK /\ SessionType /\ ThreadInv /\ NewInv /\ Exclusive
         /\ \A t \in Threads : LoneAt(t)
         /\ "block" \in Threads /\ "timer" \in Threads /\ Threads = {"block", "timer"}
         /\ tmr \in Timers(Handlers) /\ th \in [Threads -> Activities]
         /\ buf \in [msg : Ids, waiting : BOOLEAN] /\ p_state \in {"idle", "wait_MSG"}
         /\ rx.state \in States
         /\ 1..arrived \subseteq Cmds
<1>1. TypeOK /\ ThreadInv /\ NewInv /\ LoneInv /\ ~Together
  BY DEF AllInv, Apart
<1>2. SessionType /\ rx.state \in States
  BY <1>1, TypeParts, Ranges DEF ReceiverType
<1>3. 1..arrived \subseteq Cmds
  BY <1>2, BoundsAssumption DEF SessionType, Ids, Cmds
<1> QED
  BY <1>1, <1>2, <1>3 DEF LoneInv, SessionType, Threads

\* What a handler that runs alone does to a command that is undecided or answered.
LEMMA KeptStep ==
  ASSUME AllInv, [Next]_vars, Apart, NEW t \in Threads, SessionStep(t), NEW c \in 1..arrived
  PROVE  /\ Answered(c) => Answered(c)'
         /\ Undecided(c) => Undecided(c)' \/ Answered(c)'
<1> DEFINE Working == {"input", "hold", "open", "nok", "ack"}
<1>0. /\ SessionType /\ ThreadInv /\ NewInv /\ Exclusive /\ LoneAt(t) /\ c \in Cmds
      /\ th \in [Threads -> Activities] /\ buf \in [msg : Ids, waiting : BOOLEAN]
  BY Alone
<1>a. \A u \in Threads : u # t => th[u].at \in {"rest"} \cup BitSteps /\ th'[u] = th[u]
  BY <1>0, AloneFacts
<1>c. InProgress(c) => th[t].msg = c /\ th[t].at \in Working
  BY <1>a DEF InProgress, BitSteps, States
<1>k. Answered(c) => Answered(c)'
  <2> SUFFICES ASSUME Answered(c), c \notin UnknownCmds PROVE Answered(c)'
    BY <1>0, AnsweredKept
  <2>1. sent[c] = 1 /\ replies[c]["tnc_ok"] = 1
    BY DEF Answered
  <2>2. ~(Open(t) /\ th[t].msg = c)
    BY <1>0, <2>1, LoneAnswers
  <2>3. ~(AckOk(t) /\ g = c)
    BY <1>0, <2>1, LoneAnswers
  <2> QED
    BY <1>0, <2>2, <2>3, AnsweredKept
\* A command waits on, or goes on to the next step of its handler.
<1>g. ASSUME th'[t].msg = th[t].msg, th'[t].at \in Working, buf' = buf, dropped' = dropped
      PROVE  Undecided(c) => Undecided(c)'
  BY <1>c, <1>g DEF Undecided, InProgress
<1>n. ASSUME th[t].at \notin Working, buf' = buf, dropped' = dropped
      PROVE  Undecided(c) => Undecided(c)'
  BY <1>c, <1>n DEF Undecided
<1>1. CASE ReadState(t)
  BY <1>0, <1>1, <1>g, <1>k, GotoFacts DEF ReadState, session
<1>2. CASE Hold(t)
  <2>1. buf' = [msg |-> th[t].msg, waiting |-> TRUE]
    BY <1>2 DEF Hold
  <2>2. buf.waiting /\ buf.msg # th[t].msg => dropped' = dropped \cup {buf.msg}
    BY <1>2 DEF Hold
  <2>3. dropped \subseteq dropped'
    BY <1>2 DEF Hold
  <2> QED
    BY <1>c, <1>k, <2>1, <2>2, <2>3 DEF Undecided
<1>3. CASE Open(t)
  <2>1. /\ th'[t].at \in {"nok", "ack"} /\ th'[t].msg = th[t].msg
        /\ buf' = buf /\ dropped' = dropped
    BY <1>0, <1>3, GotoFacts DEF Open
  <2> QED
    BY <1>g, <1>k, <2>1
<1>4. CASE RefuseType(t) \/ AckOk(t)
  <2>1. c = th[t].msg => Answered(c)'
    BY <1>0, <1>4, LoneAnswers
  <2>2. buf' = buf /\ dropped' = dropped
    BY <1>4 DEF RefuseType, AckOk
  <2> QED
    BY <1>c, <1>k, <2>1, <2>2 DEF Undecided
<1>5. CASE ClearBuffer(t)
  <2>1. /\ th[t].at = "clear_buf" /\ th[t].nested /\ dropped' = dropped
        /\ buf.msg = th[t].msg /\ Answered(th[t].msg)
    BY <1>0, <1>5 DEF ClearBuffer, ThreadInv, LoneAt, RepliedSteps
  <2>2. buf.msg = c => Answered(c)'
    BY <1>k, <2>1
  <2> QED
    BY <1>c, <1>k, <2>1, <2>2 DEF Undecided
<1>6. CASE ~ReadState(t) /\ ~Hold(t) /\ ~Open(t) /\ ~RefuseType(t) /\ ~AckOk(t) /\ ~ClearBuffer(t)
  <2>1. th[t].at \notin Working
    BY <1>6 DEF SessionStep, StartTimerExpires, StartTimerWait, SetWaitMsg, ResetRx, ClearRx,
       IdleTimerExpires, IdleTimerWait, SetIdle, CheckBuffer, SatNok, ModuleId, ModuleIdReturns
  <2>2. buf' = buf /\ dropped' = dropped
    BY <1>0, <1>6, StepData
  <2> QED
    BY <1>k, <1>n, <2>1, <2>2
<1> QED
  BY <1>1, <1>2, <1>3, <1>4, <1>5, <1>6

LEMMA KeptNext ==
  ASSUME AllInv, [Next]_vars, Apart, NEW c \in 1..arrived
  PROVE  /\ Undecided(c) => Undecided(c)' \/ Answered(c)'
         /\ Answered(c) => Answered(c)'
<1>0. /\ SessionType /\ Threads = {"block", "timer"} /\ c \in Cmds
      /\ "block" \in Threads /\ "timer" \in Threads /\ th \in [Threads -> Activities]
  BY Alone
\* A step that begins or ends no handler with a command.
<1>s. ASSUME UNCHANGED <<sent, replies, dropped, buf>>,
             \A t \in Threads :
               \/ th'[t] = th[t]
               \/ th[t].at \in {"rest"} \cup BitSteps
      PROVE  (Undecided(c) => Undecided(c)') /\ (Answered(c) => Answered(c)')
  <2>1. InProgress(c) => InProgress(c)'
    BY <1>s DEF InProgress, BitSteps, States
  <2> QED
    BY <1>s, <2>1 DEF Undecided, Answered
<1>1. CASE \E t \in Threads : SessionStep(t)
  BY <1>1, KeptStep
<1>2. CASE InputCommand
  <2>1. th["block"].at = "rest" /\ th'["timer"] = th["timer"]
    BY <1>0, <1>2, EnterFacts DEF InputCommand, TakesMessage
  <2> QED
    BY <1>0, <1>2, <1>s, <2>1 DEF InputCommand
<1>3. CASE InputRefused
  <2>1. /\ Publish("tnc_nok") \/ replies' = replies
        /\ "tnc_nok" \in ReplyKinds
        /\ UNCHANGED <<th, sent, dropped, buf>>
    BY <1>3 DEF InputRefused, ReplyKinds
  <2>2. Answered(c) => Answered(c)'
    <3>1. CASE Publish("tnc_nok")
      BY <1>0, <2>1, <3>1, AnsweredPublish
    <3>2. CASE replies' = replies
      BY <2>1, <3>2 DEF Answered
    <3> QED
      BY <2>1, <3>1, <3>2
  <2> QED
    BY <2>1, <2>2 DEF Undecided, InProgress
<1>4. CASE GeneralWork
  <2>1. th["block"].at = "rest" /\ th'["timer"] = th["timer"]
    BY <1>0, <1>4, GotoFacts DEF GeneralWork, TakesMessage
  <2> QED
    BY <1>0, <1>4, <1>s, <2>1 DEF GeneralWork, session
<1>5. CASE ReceiveBit
  BY <1>0, <1>5, <1>s, BitFacts DEF session
<1>6. CASE TimerElapses
  BY <1>6, <1>s DEF TimerElapses, session
<1>7. CASE RunCompletion
  <2>1. th' = th \/ \E l \in {"sat_nok", "module_id"} : Goto("timer", l)
    BY <1>7 DEF RunCompletion
  <2>2. th["timer"].at = "rest" /\ th'["block"] = th["block"]
    BY <1>0, <1>7, <2>1, GotoFacts DEF RunCompletion
  <2> QED
    BY <1>0, <1>7, <1>s, <2>2 DEF RunCompletion, session
<1>8. CASE UNCHANGED vars
  BY <1>8, <1>s DEF vars, session
<1> QED
  BY <1>1, <1>2, <1>3, <1>4, <1>5, <1>6, <1>7, <1>8
  DEF Next, HandlerStep, Receive, RunTimer, Exhausted

\* A handler that runs alone loses no telecommand and ends with the reply it
\* deserves, in whatever state handlers that overlapped have left the buffer, the
\* header and the protocol; no later handler that runs alone repeats either.
THEOREM RepliesDeserved == Spec => AnsweredAsTreated
<1>1. AllInv /\ [Next]_vars =>
        [Apart => \A c \in 1..arrived : /\ Undecided(c) => Undecided(c)' \/ Answered(c)'
                                        /\ Answered(c) => Answered(c)']_vars
  BY KeptNext
<1> QED
  BY <1>1, LoneCorrect, PTL DEF Spec, AnsweredAsTreated

------------------------------------------------------------------------------
(* The deadline of a session                                                *)

\* Where a session without a deadline is about to get one, or to end.
Ending == {"sat_nok", "reset_rx", "clear_rx", "idle_expires", "idle_wait", "set_idle",
           "start_expires", "start_wait"}

LEMMA UntimedOf ==
  /\ Untimed <=> p_state = "wait_MSG" /\ ~Pending(tmr) /\ \A t \in Threads : th[t].at \notin Ending
  /\ Untimed' <=> p_state' = "wait_MSG" /\ ~Pending(tmr') /\ \A t \in Threads : th'[t].at \notin Ending
  BY DEF Untimed, Pending, TimeoutPending, At, Ending

LEMMA UntimedStep ==
  ASSUME AllInv, [Next]_vars, Apart, NEW t \in Threads, SessionStep(t), Untimed',
         th["timer"].at # "moid_expires"
  PROVE  Untimed
<1> USE DEF Ending
<1>0. /\ ThreadInv /\ LoneAt(t) /\ th \in [Threads -> Activities] /\ tmr \in Timers(Handlers)
      /\ SessionType
  BY Alone
<1>a. \A u \in Threads : u # t => th'[u] = th[u]
  BY <1>0, StepFacts
<1>b. /\ p_state' = "wait_MSG" /\ ~Pending(tmr') /\ th'[t].at \notin Ending
      /\ \A u \in Threads : th'[u].at \notin Ending
  BY UntimedOf
<1>r. /\ Pending(tmr) => Pending(Returned(tmr))
      /\ Pending(tmr) => Pending(Returned(AsyncWait(tmr, "infinite")))
      /\ TimeoutPending <=> Pending(tmr)
  BY <1>0, PendingKept
<1>c. ASSUME p_state' = p_state, th[t].at \notin Ending,
             tmr' = tmr \/ tmr' = IF t = "timer" THEN Returned(tmr) ELSE tmr
      PROVE  Untimed
  BY <1>a, <1>b, <1>c, <1>r, UntimedOf
<1>1. CASE ReadState(t)
  BY <1>1, <1>c DEF ReadState, session
<1>2. CASE Hold(t)
  BY <1>0, <1>2, <1>c, EndInputFacts DEF Hold
<1>3. CASE Open(t)
  BY <1>3, <1>c DEF Open
<1>4. CASE RefuseType(t)
  BY <1>0, <1>4, <1>c, EndInputFacts DEF RefuseType
<1>5. CASE AckOk(t)
  BY <1>0, <1>5, <1>b, GotoFacts DEF AckOk
<1>6. CASE StartTimerExpires(t)
  BY <1>0, <1>6, <1>b, GotoFacts DEF StartTimerExpires
<1>7. CASE StartTimerWait(t)
  <2>1. tmr.waits = <<>> /\ tmr.expiry = "finite" /\ "timeout" \in Handlers
    BY <1>0, <1>7 DEF StartTimerWait, LoneAt, Handlers
  <2>2. /\ tmr'.waits # <<>> /\ Head(tmr'.waits) = "timeout" /\ tmr'.due = "finite"
    BY <1>0, <1>7, <2>1, AsyncWaitFacts DEF StartTimerWait
  <2> QED
    BY <1>b, <2>2 DEF Pending
<1>8. CASE SetWaitMsg(t)
  <2>1. Pending(tmr)
    BY <1>0, <1>8, <1>r DEF SetWaitMsg, LoneAt
  <2>2. tmr' = tmr \/ tmr' = Returned(tmr)
    BY <1>0, <1>8, EndInputFacts DEF SetWaitMsg
  <2> QED
    BY <1>b, <1>r, <2>1, <2>2
<1>9. CASE ResetRx(t)
  BY <1>0, <1>9, <1>b, GotoFacts DEF ResetRx
<1>10. CASE ClearRx(t)
  BY <1>0, <1>10, <1>b, GotoFacts DEF ClearRx
<1>11. CASE IdleTimerExpires(t)
  <2>1. th[t].at # "moid_expires"
    BY <1>0 DEF ThreadInv, Threads
  <2> QED
    BY <1>0, <1>11, <1>b, <2>1, GotoFacts DEF IdleTimerExpires
<1>12. CASE IdleTimerWait(t)
  BY <1>0, <1>12, <1>b, GotoFacts DEF IdleTimerWait
<1>13. CASE SetIdle(t)
  BY <1>13, <1>b DEF SetIdle
<1>14. CASE CheckBuffer(t)
  BY <1>0, <1>14, <1>b DEF CheckBuffer, session, LoneAt
<1>15. CASE ClearBuffer(t)
  BY <1>0, <1>15, <1>c, LeaveFacts DEF ClearBuffer
<1>16. CASE SatNok(t)
  BY <1>0, <1>16, <1>b, GotoFacts DEF SatNok
<1>17. CASE ModuleId(t)
  BY <1>17, <1>c DEF ModuleId, session
<1>18. CASE ModuleIdReturns(t)
  <2>1. /\ p_state' = p_state /\ th[t].at = "moid_wait"
        /\ tmr' = Returned(AsyncWait(tmr, "infinite"))
    BY <1>18 DEF ModuleIdReturns, session
  <2> QED
    BY <1>a, <1>b, <1>r, <2>1, UntimedOf
<1> QED
  BY <1>1, <1>2, <1>3, <1>4, <1>5, <1>6, <1>7, <1>8, <1>9, <1>10, <1>11, <1>12, <1>13,
     <1>14, <1>15, <1>16, <1>17, <1>18 DEF SessionStep

LEMMA UntimedNext ==
  ASSUME AllInv, [Next]_vars, Apart, Untimed', th["timer"].at # "moid_expires"
  PROVE  Untimed
<1> USE DEF Ending
<1>0. /\ tmr \in Timers(Handlers) /\ th \in [Threads -> Activities] /\ rx.state \in States
      /\ Threads = {"block", "timer"} /\ "block" \in Threads /\ "timer" \in Threads
  BY Alone
<1>a. p_state' = "wait_MSG" /\ ~Pending(tmr') /\ \A t \in Threads : th'[t].at \notin Ending
  BY UntimedOf
\* A step that begins no handler which sets or ends a deadline.
<1>s. ASSUME p_state' = p_state, Pending(tmr) => Pending(tmr'),
             \A t \in Threads : th'[t] = th[t] \/ th[t].at \in {"rest"} \cup BitSteps
      PROVE  Untimed
  <2>1. \A t \in Threads : th[t].at \notin Ending
    BY <1>a, <1>s DEF BitSteps, States
  <2> QED
    BY <1>a, <1>s, <2>1, UntimedOf
<1>1. CASE \E t \in Threads : SessionStep(t)
  BY <1>1, UntimedStep
<1>2. CASE InputCommand
  <2>1. th["block"].at = "rest" /\ th'["timer"] = th["timer"]
    BY <1>0, <1>2, EnterFacts DEF InputCommand, TakesMessage
  <2> QED
    BY <1>0, <1>2, <1>s, <2>1 DEF InputCommand
<1>3. CASE InputRefused
  BY <1>3, <1>s DEF InputRefused
<1>4. CASE GeneralWork
  <2>1. th["block"].at = "rest" /\ th'["timer"] = th["timer"]
    BY <1>0, <1>4, GotoFacts DEF GeneralWork, TakesMessage
  <2> QED
    BY <1>0, <1>4, <1>s, <2>1 DEF GeneralWork, session
<1>5. CASE ReceiveBit
  BY <1>0, <1>5, <1>s, BitFacts DEF session
<1>6. CASE TimerElapses
  BY <1>0, <1>6, <1>s, PendingKept DEF TimerElapses, Elapsable, session
<1>7. CASE RunCompletion
  <2>0. th["timer"].at = "rest" /\ p_state' = p_state
    BY <1>7 DEF RunCompletion, session
  <2>1. CASE Goto("timer", "sat_nok")
    <3>1. th'["timer"].at = "sat_nok"
      BY <1>0, <2>1, GotoFacts
    <3> QED
      BY <1>0, <1>a, <3>1
  <2>2. CASE Goto("timer", "module_id")
    <3>1. /\ Dispatchable(tmr) /\ Head(tmr.ready).handler = "module_id"
          /\ tmr' = Dispatched(tmr)
          /\ th'["timer"].at = "module_id" /\ th'["block"] = th["block"]
      <4>1. th'["timer"].at = "module_id" /\ th'["block"] = th["block"]
        BY <1>0, <2>2, GotoFacts
      <4>2. th'["timer"].at # "rest" /\ th'["timer"].at # "sat_nok"
        BY <4>1
      <4>3. ~Goto("timer", "sat_nok") /\ th' # th
        BY <1>0, <2>0, <4>2, GotoFacts
      <4> QED
        BY <1>7, <2>2, <4>1, <4>3 DEF RunCompletion
    <3>2. Pending(tmr) => Pending(tmr')
      BY <1>0, <2>2, <3>1, PendingKept
    <3> QED
      BY <1>0, <1>s, <2>0, <3>1, <3>2
  <2>3. CASE ~Goto("timer", "sat_nok") /\ ~Goto("timer", "module_id")
    <3>1. /\ th' = th /\ Dispatchable(tmr) /\ tmr' = Returned(Dispatched(tmr))
          /\ ~(Head(tmr.ready).handler = "timeout" /\ Head(tmr.ready).ok)
      BY <1>7, <2>3 DEF RunCompletion
    <3> QED
      BY <1>0, <1>s, <2>0, <3>1, PendingKept
  <2> QED
    BY <1>7, <2>1, <2>2, <2>3 DEF RunCompletion
<1>8. CASE UNCHANGED vars
  BY <1>8, <1>s DEF vars, session
<1> QED
  BY <1>1, <1>2, <1>3, <1>4, <1>5, <1>6, <1>7, <1>8
  DEF Next, HandlerStep, Receive, RunTimer, Exhausted

\* Of the handlers that run alone only output_module_id takes the deadline of an
\* open session away: all others replace it or end the session.
THEOREM SessionTimed == Spec => UntimedByModuleId
<1>1. AllInv /\ [Next]_vars =>
        [Apart /\ Untimed' => Untimed \/ th["timer"].at = "moid_expires"]_vars
  BY UntimedNext
<1> QED
  BY <1>1, LoneCorrect, PTL DEF Spec, UntimedByModuleId
==============================================================================
