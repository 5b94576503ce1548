--------------------------- MODULE RequestResponse ---------------------------
(* What a caller of RaftControlClient.request() can rely on: requests are   *)
(* made one at a time, and answers never go back in time.  Which request an  *)
(* answer belongs to is not promised; RemoteClient says how far it may lag.  *)
EXTENDS Naturals

VARIABLES
    asked,              \* number of the last request made
    waiting,            \* a request() call is in progress
    answer,             \* number of the request whose answer was last returned
    lost                \* number of calls that raised

rrVars == <<asked, waiting, answer, lost>>

RRInit == asked = 0 /\ waiting = FALSE /\ answer = 0 /\ lost = 0

Request ==
    /\ ~waiting
    /\ waiting' = TRUE
    /\ asked' = asked + 1
    /\ UNCHANGED <<answer, lost>>

Answered ==
    /\ waiting
    /\ waiting' = FALSE
    /\ answer' > answer
    /\ answer' <= asked
    /\ UNCHANGED <<asked, lost>>

\* The call raises.
Raised ==
    /\ waiting
    /\ waiting' = FALSE
    /\ lost' = lost + 1
    /\ UNCHANGED <<asked, answer>>

RRNext == Request \/ Answered \/ Raised

RRSpec == RRInit /\ [][RRNext]_rrVars
=============================================================================
