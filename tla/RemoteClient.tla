---------------------------- MODULE RemoteClient ----------------------------
(* src/raft_control/client.py, protocol.py and the receiving loop of         *)
(* server.py: one client, one connection, and the thread that serves it.     *)
(* Each direction of the connection is a stream of bytes, of which only the  *)
(* length matters.  A frame is two units, its header and its payload; recv   *)
(* may cut the stream between any two units.                                 *)
EXTENDS Naturals

CONSTANTS
    MaxRequests,        \* bound: how many requests are made in a behaviour
    Kinds               \* frames the client sends: "good", "bad" (no JSON object), "huge"

ASSUME RemoteAssumption ==
    MaxRequests \in Nat \ {0} /\ Kinds \subseteq {"good", "bad", "huge"}

VARIABLES
    asked,              \* requests sent so far; they are numbered from 1
    kind,               \* what kind of frame each was
    waiting,            \* request() is in its receiving loop
    answer,             \* the request whose answer was last returned, 0 before the first
    lost,               \* calls of request() that raised
    read,               \* units the client's decoder has been fed
    closed,             \* the client has closed its socket
    got,                \* units the server's decoder has been fed
    served,             \* requests the server has answered
    executed,           \* requests that _dispatch has carried out
    wire,               \* units sent to the client and not dropped on the way
    up                  \* the thread that serves the connection lives

clientVars == <<asked, kind, waiting, answer, lost, read, closed>>
serverVars == <<got, served, executed, up>>
remoteVars == <<clientVars, serverVars, wire>>

Requests == 1 .. MaxRequests

Init ==
    /\ asked = 0
    /\ kind = [i \in Requests |-> "good"]
    /\ waiting = FALSE
    /\ answer = 0
    /\ lost = 0
    /\ read = 0
    /\ closed = FALSE
    /\ got = 0
    /\ served = 0
    /\ executed = {}
    /\ wire = 0
    /\ up = TRUE

-----------------------------------------------------------------------------
\* FrameDecoder.feed: the number of frames that are complete after n units.
Whole(n) == n \div 2

\* feed() raises at the payload of a bad frame and at the header of a huge one.
Raises(n) ==
    \E i \in Requests :
        \/ kind[i] = "bad" /\ i > Whole(got) /\ i <= Whole(n)
        \/ kind[i] = "huge" /\ 2 * i - 1 <= n

-----------------------------------------------------------------------------
\* request() sends its frame; self._lock admits one caller at a time.
Ask(k) ==
    /\ ~waiting
    /\ ~closed
    /\ asked < MaxRequests
    /\ asked' = asked + 1
    /\ kind' = [kind EXCEPT ![asked + 1] = k]
    /\ waiting' = TRUE
    /\ UNCHANGED <<answer, lost, read, closed, serverVars, wire>>

\* Mutant: the frame that is returned stays in the buffer.
Consumed_Stays(n) == IF Whole(n) > Whole(read) THEN read ELSE n

\* What feed() has taken in once n units have come.
Consumed(n) == n

\* recv and feed: the first message that feed() returns is the answer, the
\* others are dropped with the list; with none the loop goes on.
ClientRecv ==
    /\ waiting
    /\ \E n \in read + 1 .. wire :
        /\ read' = Consumed(n)
        /\ IF Whole(n) > Whole(read)
           THEN waiting' = FALSE /\ answer' = Whole(read) + 1
           ELSE UNCHANGED <<waiting, answer>>
    /\ UNCHANGED <<asked, kind, lost, closed, serverVars, wire>>

\* Nothing comes for the socket's timeout, though an answer may be on its way
\* or have come in part; or the connection is at its end.
GiveUp ==
    /\ waiting
    /\ waiting' = FALSE
    /\ lost' = lost + 1
    /\ UNCHANGED <<asked, kind, answer, read, closed, serverVars, wire>>

ClientCloses ==
    /\ ~waiting
    /\ ~closed
    /\ closed' = TRUE
    /\ UNCHANGED <<asked, kind, waiting, answer, lost, read, serverVars, wire>>

-----------------------------------------------------------------------------
\* The server's thread takes what has come, after serving what it had.  An
\* exception of feed() ends it, and the good frames of that feed with it.
ServerRecv ==
    /\ up
    /\ served = Whole(got)
    /\ \E n \in got + 1 .. 2 * asked :
        /\ got' = n
        /\ up' = ~Raises(n)
    /\ UNCHANGED <<clientVars, served, executed, wire>>

\* Mutant: like the client, the server looks at the first message only.
Serve_OnlyFirst ==
    /\ up
    /\ served < Whole(got)
    /\ executed' = executed \cup {served + 1}
    /\ served' = Whole(got)
    /\ wire' = wire + 2
    /\ UNCHANGED <<clientVars, got, up>>

\* Mutant: a request is carried out after its answer, before the next one.
Serve_AnswersFirst ==
    /\ up
    /\ served < Whole(got)
    /\ executed' = executed \cup ({served} \ {0})
    /\ served' = served + 1
    /\ wire' = wire + 2
    /\ UNCHANGED <<clientVars, got, up>>

\* _dispatch, then the answer.
Serve ==
    /\ up
    /\ served < Whole(got)
    /\ executed' = executed \cup {served + 1}
    /\ served' = served + 1
    /\ wire' = wire + 2
    /\ UNCHANGED <<clientVars, got, up>>

\* The answer cannot be sent any more.
ServeRaises ==
    /\ up
    /\ closed
    /\ served < Whole(got)
    /\ executed' = executed \cup {served + 1}
    /\ up' = FALSE
    /\ UNCHANGED <<clientVars, got, served, wire>>

\* recv returns nothing, or the server is being closed or killed.
ServerEnds ==
    /\ up
    /\ up' = FALSE
    /\ UNCHANGED <<clientVars, got, served, executed, wire>>

\* A connection that is reset drops what was still on the way.
Reset ==
    /\ ~up
    /\ wire > read
    /\ wire' = read
    /\ UNCHANGED <<clientVars, serverVars>>

-----------------------------------------------------------------------------
Next ==
    \/ \E k \in Kinds : Ask(k)
    \/ ClientRecv \/ GiveUp \/ ClientCloses
    \/ ServerRecv \/ Serve \/ ServeRaises \/ ServerEnds \/ Reset

Spec == Init /\ [][Next]_remoteVars

\* TCP delivers what was sent and the server's thread runs.
FairSpec == Spec /\ WF_remoteVars(ServerRecv) /\ WF_remoteVars(Serve \/ ServeRaises)

-----------------------------------------------------------------------------
\* request() looks at no request_id, so after a timeout it returns the late
\* answer of an earlier request.  Still, answers never go back: none is
\* returned twice or after a later one, whatever the cuts of the stream.
Promise == INSTANCE RequestResponse

AnswersKeepOrder == Promise!RRSpec

\* An answer belongs to a request at most as many places back as there were
\* calls that raised - with none, to the very request - and what it answers
\* has been carried out.  The lag does not build up beyond that.
LagIsBounded ==
    /\ ~waiting => asked <= answer + lost
    /\ answer \in executed \cup {0}

\* What was sent is carried out, also when its caller has given up on it and
\* several requests reach the server at once, unless the connection ends.
RequestsCarriedOut == \A i \in Requests : asked >= i ~> i \in executed \/ ~up
=============================================================================
