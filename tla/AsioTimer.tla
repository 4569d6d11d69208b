------------------------------ MODULE AsioTimer ------------------------------
(***************************************************************************)
(* The part of Boost.Asio the TNC blocks rely on: one deadline_timer bound *)
(* to one io_service, whose run() is executed by one thread of the block.  *)
(* Asio is not part of the repository; this module states how the blocks   *)
(* use it.  Each library call is one atomic step and time is not measured: *)
(* a finite deadline may pass at any moment after a wait on it began.      *)
(*                                                                         *)
(* A timer is a record                                                     *)
(*   expiry   the deadline the next first wait will get                    *)
(*   due      the deadline of the waits now in progress                    *)
(*   waits    the handlers waiting, in the order of their async_wait       *)
(*   ready    the completions queued for run(), in order; ok is FALSE for  *)
(*            error::operation_aborted                                     *)
(*   stopped  run() has returned, or will at the end of this handler       *)
(***************************************************************************)
EXTENDS Naturals, Sequences

Deadlines == {"never", "finite"}

Timers(Handlers) ==
  [expiry : Deadlines, due : Deadlines, waits : Seq(Handlers),
   ready : Seq([handler : Handlers, ok : BOOLEAN]), stopped : BOOLEAN]

\* A timer just constructed, its deadline set and its first wait begun.
NewTimer(deadline, h) ==
  [expiry |-> deadline, due |-> deadline, waits |-> <<h>>, ready |-> <<>>,
   stopped |-> FALSE]

Completions(handlers, ok) ==
  [i \in 1..Len(handlers) |-> [handler |-> handlers[i], ok |-> ok]]

\* expires_from_now cancels the waits in progress.  A completion that is
\* already queued cannot be cancelled any more: it keeps its success code.
ExpiresFromNow(tm, deadline) ==
  [tm EXCEPT !.expiry = deadline,
             !.ready = @ \o Completions(tm.waits, FALSE),
             !.waits = <<>>]

\* async_wait never blocks.  Waits that overlap share the deadline that was
\* set when the first of them began.
AsyncWait(tm, h) ==
  [tm EXCEPT !.due = IF tm.waits = <<>> THEN tm.expiry ELSE @,
             !.waits = Append(@, h)]

\* run() finds the deadline passed and queues the completions.
Elapsable(tm) == ~tm.stopped /\ tm.waits # <<>> /\ tm.due = "finite"
Elapse(tm) ==
  [tm EXCEPT !.ready = @ \o Completions(tm.waits, TRUE), !.waits = <<>>]

\* run() takes the next completion off the queue to call its handler.
Dispatchable(tm) == ~tm.stopped /\ tm.ready # <<>>
Dispatched(tm) == [tm EXCEPT !.ready = Tail(@)]

\* The handler has returned.  An io_service with neither a wait in progress
\* nor a completion queued has run out of work: run() returns for good, and
\* waits begun later are never completed.
Returned(tm) ==
  [tm EXCEPT !.stopped = @ \/ (tm.waits = <<>> /\ tm.ready = <<>>)]

\* A wait for handler h is in progress.
Awaited(tm, h) == \E i \in DOMAIN tm.waits : tm.waits[i] = h

\* A completion of handler h with success code ok is queued.
Queued(tm, h, ok) == \E i \in DOMAIN tm.ready : tm.ready[i] = [handler |-> h, ok |-> ok]

\* io_service::stop.
Stop(tm) == [tm EXCEPT !.stopped = TRUE]

==============================================================================
