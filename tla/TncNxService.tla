---------------------------- MODULE TncNxService -----------------------------
(***************************************************************************)
(* TncNx as an implementation of CommandService: what a sender of          *)
(* telecommands sees of the block.                                         *)
(***************************************************************************)
EXTENDS TncNx

\* A session begins when the command is given to the encoder, one step before
\* p_state says so, and ends with set_idle.
CurrentSession == IF p_state = "wait_msg" \/ At({"set_wait"}) THEN g ELSE 0

\* The replies of each kind, for each command.
Oks == [c \in Cmds |-> replies[c]["tnc_ok"]]
Misses == [c \in Cmds |-> replies[c]["sat_nok"]]

Service == INSTANCE CommandService
  WITH oks <- Oks, misses <- Misses, session <- CurrentSession,
       disturbed <- overlap # "never"

\* The block serves telecommands as CommandService says: until its handlers
\* overlap every step is a step of the service or none at all, and then still
\* one of those that may be counted on.
ImplementsService == Service!Spec

------------------------------------------------------------------------------
(* Inductive invariants of the refinement, for the proofs                   *)

\* Whatever the interleaving, a session's command was transmitted, and so were
\* the commands that got replies.
HeaderInv ==
  /\ p_state = "wait_msg" \/ At(OpeningSteps \cup {"sat_nok"}) => g \in Cmds
  /\ g \in Cmds => sent[g] > 0
  /\ \A c \in Cmds : sent[c] = 0 => Oks[c] = 0 /\ Misses[c] = 0

\* If handlers never overlapped, a command in a handler or in the buffer is one
\* the service has waiting, until it was transmitted, and the buffered one is the
\* older of the two; the session's command is confirmed by the handler that
\* transmitted it, and reported missed just before the session is closed.
ServiceInv ==
  overlap = "never" =>
    /\ buf.waiting => \/ buf.msg \in Service!Waiting
                      \/ \E t \in Threads : th[t].nested /\ th[t].at \in SentSteps
    /\ \A t \in Threads :
         th[t].at \in InputSteps =>
           /\ th[t].msg \in Service!Waiting
           /\ buf.waiting /\ ~th[t].nested => buf.msg < th[t].msg
    /\ At({"sat_nok"}) => p_state = "wait_msg"
    /\ p_state = "wait_msg" \/ At({"set_wait"}) =>
         /\ Oks[g] = IF At(OpeningSteps) THEN 0 ELSE 1
         /\ At({"set_idle"}) \/ Misses[g] = 0

==============================================================================
