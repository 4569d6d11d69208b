--------------------------- MODULE AsioTimerProofs ---------------------------
(***************************************************************************)
(* What the operations on a timer return and preserve, for the proofs      *)
(* about the blocks that use one.                                          *)
(***************************************************************************)
EXTENDS AsioTimer, SequenceTheorems, TLAPS

Completion(Handlers) == [handler : Handlers, ok : BOOLEAN]

\* The completions of a sequence of handlers, one for each in their order.
LEMMA CompletionsType ==
  ASSUME NEW H, NEW hs \in Seq(H), NEW ok \in BOOLEAN
  PROVE  /\ Completions(hs, ok) \in Seq(Completion(H))
         /\ Len(Completions(hs, ok)) = Len(hs)
         /\ \A i \in 1..Len(hs) :
              Completions(hs, ok)[i] = [handler |-> hs[i], ok |-> ok]
  BY DEF Completions, Completion

\* Every operation the blocks use returns a timer again.
LEMMA TimersClosed ==
  ASSUME NEW H, NEW tm \in Timers(H), NEW d \in Deadlines, NEW h \in H
  PROVE  /\ NewTimer(d, h) \in Timers(H)
         /\ ExpiresFromNow(tm, d) \in Timers(H)
         /\ AsyncWait(tm, h) \in Timers(H)
         /\ Elapse(tm) \in Timers(H)
         /\ Dispatchable(tm) => Dispatched(tm) \in Timers(H)
         /\ Returned(tm) \in Timers(H)
         /\ Stop(tm) \in Timers(H)
<1>1. NewTimer(d, h) \in Timers(H)
  BY DEF NewTimer, Timers, Completion
<1>2. ExpiresFromNow(tm, d) \in Timers(H)
  <2>1. tm.ready \o Completions(tm.waits, FALSE) \in Seq(Completion(H))
    BY CompletionsType, ConcatProperties DEF Timers, Completion
  <2>2. <<>> \in Seq(H)
    BY EmptySeq
  <2> QED
    BY <2>1, <2>2 DEF ExpiresFromNow, Timers, Completion
<1>3. AsyncWait(tm, h) \in Timers(H)
  <2>1. Append(tm.waits, h) \in Seq(H)
    BY AppendProperties DEF Timers
  <2> QED
    BY <2>1 DEF AsyncWait, Timers
<1>4. Elapse(tm) \in Timers(H)
  <2>1. tm.ready \o Completions(tm.waits, TRUE) \in Seq(Completion(H))
    BY CompletionsType, ConcatProperties DEF Timers, Completion
  <2>2. <<>> \in Seq(H)
    BY EmptySeq
  <2> QED
    BY <2>1, <2>2 DEF Elapse, Timers, Completion
<1>5. Dispatchable(tm) => Dispatched(tm) \in Timers(H)
  BY HeadTailProperties DEF Dispatchable, Dispatched, Timers
<1>6. Returned(tm) \in Timers(H)
  BY DEF Returned, Timers
<1>7. Stop(tm) \in Timers(H)
  BY DEF Stop, Timers
<1> QED
  BY <1>1, <1>2, <1>3, <1>4, <1>5, <1>6, <1>7

\* Cancelling the waits leaves every queued completion queued.
LEMMA ExpiresFacts ==
  ASSUME NEW H, NEW tm \in Timers(H), NEW d \in Deadlines
  PROVE  LET e == ExpiresFromNow(tm, d)
         IN  /\ e.waits = <<>> /\ e.expiry = d
             /\ e.stopped = tm.stopped
             /\ \A h \in H, ok \in BOOLEAN : Queued(tm, h, ok) => Queued(e, h, ok)
<1> DEFINE e == ExpiresFromNow(tm, d)
           cs == Completions(tm.waits, FALSE)
<1>1. /\ e.waits = <<>> /\ e.expiry = d /\ e.stopped = tm.stopped
      /\ e.ready = tm.ready \o cs
  BY DEF ExpiresFromNow, Timers
<1>2. cs \in Seq(Completion(H)) /\ tm.ready \in Seq(Completion(H))
  BY CompletionsType DEF Timers, Completion
<1>3. ASSUME NEW i \in DOMAIN tm.ready
      PROVE  i \in DOMAIN (tm.ready \o cs) /\ (tm.ready \o cs)[i] = tm.ready[i]
  <2> HIDE DEF cs
  <2> QED
    BY <1>2, ConcatProperties, LenProperties
<1> HIDE DEF cs
<1> QED
  BY <1>1, <1>3 DEF Queued

\* The first wait begun after a cancellation gets the new deadline.
LEMMA AsyncWaitFacts ==
  ASSUME NEW H, NEW tm \in Timers(H), NEW h \in H
  PROVE  LET a == AsyncWait(tm, h)
         IN  /\ a.waits # <<>>
             /\ tm.waits = <<>> => Head(a.waits) = h /\ a.due = tm.expiry
             /\ a.ready = tm.ready /\ a.stopped = tm.stopped
<1> DEFINE a == AsyncWait(tm, h)
<1>1. /\ a.waits = Append(tm.waits, h) /\ a.ready = tm.ready /\ a.stopped = tm.stopped
      /\ tm.waits = <<>> => a.due = tm.expiry
  BY DEF AsyncWait, Timers
<1>2. Append(tm.waits, h) # <<>> /\ (tm.waits = <<>> => Head(Append(tm.waits, h)) = h)
  BY AppendProperties, EmptySeq DEF Timers
<1> QED
  BY <1>1, <1>2

\* The waits that elapse are queued behind what was queued before.
LEMMA ElapseFacts ==
  ASSUME NEW H, NEW tm \in Timers(H), tm.waits # <<>>
  PROVE  LET e == Elapse(tm)
         IN  /\ e.waits = <<>> /\ e.expiry = tm.expiry /\ e.stopped = tm.stopped
             /\ Queued(e, Head(tm.waits), TRUE)
             /\ \A h \in H, ok \in BOOLEAN : Queued(tm, h, ok) => Queued(e, h, ok)
<1> DEFINE e == Elapse(tm)
           cs == Completions(tm.waits, TRUE)
<1>1. /\ e.waits = <<>> /\ e.expiry = tm.expiry /\ e.stopped = tm.stopped
      /\ e.ready = tm.ready \o cs
  BY DEF Elapse, Timers
<1>2. cs \in Seq(Completion(H)) /\ tm.ready \in Seq(Completion(H)) /\ tm.waits \in Seq(H)
  BY CompletionsType DEF Timers, Completion
<1>3. ASSUME NEW i \in DOMAIN tm.ready
      PROVE  i \in DOMAIN (tm.ready \o cs) /\ (tm.ready \o cs)[i] = tm.ready[i]
  <2> HIDE DEF cs
  <2> QED
    BY <1>2, ConcatProperties, LenProperties
<1>4. 1 \in 1..Len(tm.waits) /\ Head(tm.waits) = tm.waits[1]
  BY <1>2, EmptySeq
<1>5. Len(cs) = Len(tm.waits) /\ cs[1] = [handler |-> Head(tm.waits), ok |-> TRUE]
  BY <1>2, <1>4, CompletionsType, ZenonT(30)
<1> HIDE DEF cs
<1>6. /\ Len(tm.ready) + 1 \in DOMAIN (tm.ready \o cs)
      /\ (tm.ready \o cs)[Len(tm.ready) + 1] = cs[1]
  BY <1>2, <1>4, <1>5, ConcatProperties, LenProperties
<1> QED
  BY <1>1, <1>3, <1>5, <1>6 DEF Queued

\* Taking a completion off the queue loses no other.
LEMMA DispatchedFacts ==
  ASSUME NEW H, NEW tm \in Timers(H), Dispatchable(tm)
  PROVE  LET d == Dispatched(tm)
         IN  /\ d.waits = tm.waits /\ d.due = tm.due /\ d.expiry = tm.expiry
             /\ d.stopped = tm.stopped
             /\ \A h \in H, ok \in BOOLEAN :
                  Queued(tm, h, ok) =>
                    Queued(d, h, ok) \/ Head(tm.ready) = [handler |-> h, ok |-> ok]
<1> DEFINE d == Dispatched(tm)
<1>1. /\ d.waits = tm.waits /\ d.due = tm.due /\ d.expiry = tm.expiry
      /\ d.stopped = tm.stopped /\ d.ready = Tail(tm.ready)
  BY DEF Dispatched, Timers
<1>2. tm.ready \in Seq(Completion(H)) /\ tm.ready # <<>>
  BY DEF Timers, Completion, Dispatchable
<1>3. ASSUME NEW i \in DOMAIN tm.ready, tm.ready[i] # Head(tm.ready)
      PROVE  i - 1 \in DOMAIN Tail(tm.ready) /\ Tail(tm.ready)[i - 1] = tm.ready[i]
  BY <1>2, <1>3, HeadTailProperties, LenProperties
<1>4. ASSUME NEW h \in H, NEW ok \in BOOLEAN, Queued(tm, h, ok)
      PROVE  Queued(d, h, ok) \/ Head(tm.ready) = [handler |-> h, ok |-> ok]
  BY <1>1, <1>3, <1>4 DEF Queued
<1> QED
  BY <1>1, <1>4

\* run() stops only when nothing is waiting and nothing is queued.
LEMMA ReturnedFacts ==
  ASSUME NEW H, NEW tm \in Timers(H)
  PROVE  LET r == Returned(tm)
         IN  /\ r.waits = tm.waits /\ r.due = tm.due /\ r.expiry = tm.expiry
             /\ r.ready = tm.ready
             /\ r.stopped <=> tm.stopped \/ (tm.waits = <<>> /\ tm.ready = <<>>)
  BY DEF Returned, Timers

LEMMA QueuedNonempty ==
  ASSUME NEW H, NEW tm \in Timers(H), NEW h, NEW ok, Queued(tm, h, ok)
  PROVE  tm.ready # <<>>
  BY DEF Queued, Timers

\* A single wait that is completed is queued last.
LEMMA OneQueued ==
  ASSUME NEW H, NEW tm \in Timers(H), NEW ok \in BOOLEAN, Len(tm.waits) <= 1
  PROVE  LET r == tm.ready \o Completions(tm.waits, ok)
         IN  /\ tm.waits = <<>> => r = tm.ready
             /\ tm.waits # <<>> =>
                  r = Append(tm.ready, [handler |-> Head(tm.waits), ok |-> ok])
<1>1. /\ tm.waits \in Seq(H) /\ tm.ready \in Seq(Completion(H))
      /\ Completions(tm.waits, ok) \in Seq(Completion(H))
      /\ Len(Completions(tm.waits, ok)) = Len(tm.waits)
      /\ \A i \in 1..Len(tm.waits) :
           Completions(tm.waits, ok)[i] = [handler |-> tm.waits[i], ok |-> ok]
  BY CompletionsType DEF Timers, Completion
<1> DEFINE cs == Completions(tm.waits, ok)
<1> HIDE DEF cs
<1>2. CASE tm.waits = <<>>
  <2>1. cs = <<>>
    BY <1>1, <1>2, EmptySeq DEF cs
  <2> QED
    <3>1. tm.ready \o cs = tm.ready
      BY <1>1, <2>1, ConcatEmptySeq
    <3> QED
      BY <1>2, <3>1 DEF cs
<1>3. CASE tm.waits # <<>>
  <2>1. Len(tm.waits) = 1 /\ Head(tm.waits) = tm.waits[1]
    <3>1. tm.waits # <<>> => Len(tm.waits) \in Nat \ {0}
      BY <1>1, EmptySeq, LenProperties
    <3>2. Head(tm.waits) = tm.waits[1]
      BY <1>1, <1>3, <3>1
    <3>3. \A n \in Nat \ {0} : n <= 1 => n = 1
      OBVIOUS
    <3> QED
      BY <1>3, <3>1, <3>2, <3>3, Zenon
  <2>2. cs = <<[handler |-> Head(tm.waits), ok |-> ok]>>
    <3>1. cs \in Seq(Completion(H)) /\ Len(cs) = 1
      BY <1>1, <2>1 DEF cs
    <3>2. cs[1] = [handler |-> Head(tm.waits), ok |-> ok]
      BY <1>1, <2>1 DEF cs
    <3> QED
      BY <3>1, <3>2
  <2>3. [handler |-> Head(tm.waits), ok |-> ok] \in Completion(H)
    BY <1>1, <2>1 DEF Completion
  <2>4. tm.ready \o cs = Append(tm.ready, [handler |-> Head(tm.waits), ok |-> ok])
    BY <1>1, <2>2, <2>3, AppendIsConcat
  <2> QED
    BY <1>3, <2>4 DEF cs
<1> QED
  BY <1>2, <1>3

\* Which waits are in progress after each operation, and with what deadline.
LEMMA AwaitedFacts ==
  ASSUME NEW H, NEW tm \in Timers(H), NEW h \in H
  PROVE  /\ LET a == AsyncWait(tm, h)
            IN  /\ a.expiry = tm.expiry
                /\ tm.waits # <<>> => a.due = tm.due
                /\ Awaited(a, h)
                /\ \A k \in H : Awaited(tm, k) => Awaited(a, k)
         /\ Awaited(tm, h) => tm.waits # <<>> /\ Queued(Elapse(tm), h, TRUE)
<1>0. tm.waits \in Seq(H) /\ tm.ready \in Seq(Completion(H))
  BY DEF Timers, Completion
<1>1. /\ AsyncWait(tm, h).expiry = tm.expiry
      /\ tm.waits # <<>> => AsyncWait(tm, h).due = tm.due
      /\ AsyncWait(tm, h).waits = Append(tm.waits, h)
  BY DEF AsyncWait, Timers
<1>2. /\ DOMAIN Append(tm.waits, h) = 1..(Len(tm.waits) + 1)
      /\ DOMAIN tm.waits = 1..Len(tm.waits) /\ Len(tm.waits) \in Nat
      /\ Append(tm.waits, h)[Len(tm.waits) + 1] = h
      /\ \A i \in 1..Len(tm.waits) : Append(tm.waits, h)[i] = tm.waits[i]
  BY <1>0
<1>3. Awaited(AsyncWait(tm, h), h)
  BY <1>1, <1>2 DEF Awaited
<1>4. \A k \in H : Awaited(tm, k) => Awaited(AsyncWait(tm, h), k)
  BY <1>1, <1>2 DEF Awaited
<1>5. ASSUME Awaited(tm, h)
      PROVE  tm.waits # <<>> /\ Queued(Elapse(tm), h, TRUE)
  <2> DEFINE cs == Completions(tm.waits, TRUE)
  <2>1. PICK i \in 1..Len(tm.waits) : tm.waits[i] = h
    BY <1>2, <1>5 DEF Awaited
  <2>2. /\ cs \in Seq(Completion(H)) /\ Len(cs) = Len(tm.waits)
        /\ cs[i] = [handler |-> h, ok |-> TRUE]
    BY <1>0, <2>1, CompletionsType
  <2>3. Elapse(tm).ready = tm.ready \o cs
    BY DEF Elapse, Timers
  <2> HIDE DEF cs
  <2>4. /\ Len(tm.ready) + i \in DOMAIN (tm.ready \o cs)
        /\ (tm.ready \o cs)[Len(tm.ready) + i] = cs[i]
    BY <1>0, <2>1, <2>2, ConcatProperties, LenProperties
  <2>5. tm.waits # <<>>
    BY <1>0, <2>1
  <2> QED
    BY <2>2, <2>3, <2>4, <2>5 DEF Queued
<1> QED
  BY <1>1, <1>3, <1>4, <1>5

==============================================================================
