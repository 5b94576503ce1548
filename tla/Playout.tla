------------------------------ MODULE Playout ------------------------------
(* What a streaming backend promises about the order in which actions reach  *)
(* the coils, and about when it says so.  HardwareControl implements this     *)
(* for threads, OutputStream for sample positions.                            *)
EXTENDS ActionTypes, Sequences

VARIABLES
    heard,              \* actions whose samples the coils have come to
    queue,              \* actions written and not yet come to, oldest first
    reported            \* actions for which on_started was called

playoutVars == <<heard, queue, reported>>

PlayoutInit ==
    /\ heard \in {{}} \cup {{a} : a \in Actions}
    /\ queue = <<>>
    /\ reported = {}

\* The stream takes over a newer action than any before.  With nothing
\* queued the coils may have come to it already.
Accept(a) ==
    /\ \A b \in heard : b < a
    /\ \A i \in DOMAIN queue : queue[i] < a
    /\ \/ queue' = Append(queue, a) /\ UNCHANGED heard
       \/ queue = <<>> /\ heard' = heard \cup {a} /\ UNCHANGED queue
    /\ UNCHANGED reported

\* Nothing that was written is skipped.
Reach ==
    /\ queue # <<>>
    /\ heard' = heard \cup {Head(queue)}
    /\ queue' = Tail(queue)
    /\ UNCHANGED reported

\* Starts are reported truthfully and in order.
Tell(a) ==
    /\ a \in heard
    /\ \A b \in reported : b < a
    /\ reported' = reported \cup {a}
    /\ UNCHANGED <<heard, queue>>

\* The stream ends, and with it what was queued.
Drop ==
    /\ queue' = <<>>
    /\ UNCHANGED <<heard, reported>>

PlayoutNext ==
    \/ \E a \in Actions : Accept(a) \/ Tell(a)
    \/ Reach
    \/ Drop

PlayoutSpec == PlayoutInit /\ [][PlayoutNext]_playoutVars
=============================================================================
