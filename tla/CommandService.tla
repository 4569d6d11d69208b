--------------------------- MODULE CommandService ----------------------------
(***************************************************************************)
(* What the protocol block of the ground station promises to whoever sends *)
(* telecommands: one session at a time, one command waiting meanwhile, a   *)
(* newer command displaces the waiting one, and each session is confirmed  *)
(* once, reported without an answer at most once, and only then closed.    *)
(* From the first time its two handlers overlap on, less is promised: what *)
(* is transmitted has arrived, and what is confirmed or reported has been  *)
(* transmitted.                                                            *)
(* The timer, the two threads and the order of the steps of a handler do   *)
(* not appear here; TncNxService shows that tnc_impl implements this.      *)
(***************************************************************************)
EXTENDS Naturals

CONSTANT MaxCmd  \* bound: number of telecommands that arrive

VARIABLES
  arrived,  \* telecommands that arrived so far, numbered as they do
  dropped,  \* the commands displaced by a later one
  sent,     \* how often each command was transmitted
  oks,      \* how often each command was confirmed (TNC_OK)
  misses,   \* how often each was reported without an answer (SAT_NOK)
  session,  \* the command whose answer is awaited, 0 if none is
  disturbed \* handlers have overlapped

vars == <<arrived, dropped, sent, oks, misses, session, disturbed>>

Cmds == 1..MaxCmd
None == [c \in Cmds |-> 0]

\* The commands that are neither transmitted nor displaced.
Waiting == {c \in 1..arrived : sent[c] = 0 /\ c \notin dropped}

Init ==
  /\ arrived = 0
  /\ dropped = {}
  /\ sent = None /\ oks = None /\ misses = None
  /\ session = 0
  /\ disturbed = FALSE

\* At most one command waits when another one arrives.
Arrive ==
  /\ arrived < MaxCmd
  /\ \A c, d \in Waiting : c = d
  /\ arrived' = arrived + 1
  /\ UNCHANGED <<dropped, sent, oks, misses, session>>

\* In a session the newer of two commands displaces the older one.
Displace ==
  /\ session # 0
  /\ \E c, d \in Waiting : c < d /\ dropped' = dropped \cup {c}
  /\ UNCHANGED <<arrived, sent, oks, misses, session>>

\* The only command that waits is transmitted, which opens its session.
Serve ==
  /\ session = 0
  /\ \E c \in Cmds : /\ Waiting = {c}
                     /\ sent' = [sent EXCEPT ![c] = 1]
                     /\ session' = c
  /\ UNCHANGED <<arrived, dropped, oks, misses>>

Confirm ==
  /\ session # 0 /\ oks[session] = 0
  /\ oks' = [oks EXCEPT ![session] = 1]
  /\ UNCHANGED <<arrived, dropped, sent, misses, session>>

\* The answer does not come in time.
Miss ==
  /\ session # 0 /\ oks[session] = 1 /\ misses[session] = 0
  /\ misses' = [misses EXCEPT ![session] = 1]
  /\ UNCHANGED <<arrived, dropped, sent, oks, session>>

Close ==
  /\ session # 0 /\ oks[session] = 1
  /\ session' = 0
  /\ UNCHANGED <<arrived, dropped, sent, oks, misses>>

Orderly ==
  /\ ~disturbed /\ ~disturbed'
  /\ Arrive \/ Displace \/ Serve \/ Confirm \/ Miss \/ Close

More(f, c) == [f EXCEPT ![c] = @ + 1]
Transmitted == {c \in Cmds : sent[c] > 0}

\* What may still be counted on when handlers overlap, or have overlapped.
Loose ==
  /\ disturbed'
  /\ session' = 0 \/ session' \in Transmitted'
  /\ \/ UNCHANGED <<arrived, dropped, sent, oks, misses>>
     \/ /\ arrived < MaxCmd /\ arrived' = arrived + 1
        /\ UNCHANGED <<dropped, sent, oks, misses>>
     \/ /\ \E c \in 1..arrived : dropped' = dropped \cup {c}
        /\ UNCHANGED <<arrived, sent, oks, misses>>
     \/ /\ \E c \in 1..arrived : sent' = More(sent, c)
        /\ UNCHANGED <<arrived, dropped, oks, misses>>
     \/ /\ \E c \in Transmitted : oks' = More(oks, c)
        /\ UNCHANGED <<arrived, dropped, sent, misses>>
     \/ /\ \E c \in Transmitted : misses' = More(misses, c)
        /\ UNCHANGED <<arrived, dropped, sent, oks>>

Next == Orderly \/ Loose

Spec == Init /\ [][Next]_vars

==============================================================================
