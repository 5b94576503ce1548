-------------------------- MODULE RemoteClientProofs --------------------------
(* Proofs about RemoteClient: how far answers lag, and that it implements     *)
(* RequestResponse, for any number of requests and any cuts of the streams.   *)
EXTENDS RemoteClient, TLAPS

RemoteTypeOK ==
    /\ asked \in Nat
    /\ answer \in Nat
    /\ lost \in Nat
    /\ read \in Nat
    /\ got \in Nat
    /\ served \in Nat
    /\ wire \in Nat
    /\ waiting \in BOOLEAN

\* Nobody is ahead of whoever sends to him.
InStep ==
    /\ read <= wire
    /\ wire <= 2 * served
    /\ served <= Whole(got)
    /\ got <= 2 * asked
    /\ answer <= Whole(read)
    /\ 1 .. served \subseteq executed

\* Every call but the one in progress was answered or is counted in lost.
Lag ==
    /\ asked <= answer + lost + 1
    /\ waiting = FALSE => asked <= answer + lost

RemoteInv == RemoteTypeOK /\ InStep /\ Lag

LEMMA RemoteInitially == Init => RemoteInv
<1>1. 0 \div 2 = 0 /\ 1 .. 0 = {}
  BY SMT
<1> QED
  <2>1. waiting = FALSE => waiting \in BOOLEAN
    OBVIOUS
  <2> QED
    BY <1>1, <2>1, SMT DEF Init, RemoteInv, RemoteTypeOK, InStep, Lag, Whole

LEMMA RemoteStep == RemoteInv /\ [Next]_remoteVars => RemoteInv'
<1> SUFFICES ASSUME RemoteInv, [Next]_remoteVars
             PROVE  RemoteInv'
  OBVIOUS
<1> USE DEF RemoteInv, RemoteTypeOK, InStep, Lag, Whole
<1>1. ASSUME NEW k \in Kinds, Ask(k)
      PROVE  RemoteInv'
  BY <1>1, SMT DEF Ask, serverVars
<1>2. CASE ClientRecv
  <2>1. PICK n \in read + 1 .. wire :
            /\ read' = n
            /\ IF n \div 2 > read \div 2
               THEN waiting' = FALSE /\ answer' = read \div 2 + 1
               ELSE UNCHANGED <<waiting, answer>>
    BY <1>2 DEF ClientRecv, Consumed
  <2>2. waiting /\ UNCHANGED <<asked, lost, got, served, executed, wire>>
    BY <1>2 DEF ClientRecv, serverVars
  <2>3. /\ n \in Nat
        /\ n > read
        /\ n <= wire
        /\ n \div 2 \in Nat
        /\ read \div 2 \in Nat
        /\ n \div 2 >= read \div 2
    BY <2>1, SMT
  <2>4. CASE n \div 2 > read \div 2
    <3>1. waiting' \in BOOLEAN
      BY <2>1, <2>4
    <3>2. answer' = read \div 2 + 1 /\ read' = n
      BY <2>1, <2>4
    <3>3. InStep'
      BY <2>2, <2>3, <2>4, <3>2, SMT
    <3>4. Lag'
      BY <2>2, <2>3, <3>2, SMT
    <3> QED
      BY <2>2, <2>3, <3>1, <3>2, <3>3, <3>4, SMT
  <2>5. CASE ~(n \div 2 > read \div 2)
    BY <2>1, <2>2, <2>3, <2>5, SMT
  <2> QED
    BY <2>4, <2>5
<1>3. CASE GiveUp
  <2>1. waiting' \in BOOLEAN
    BY <1>3 DEF GiveUp
  <2>2. lost' = lost + 1 /\ UNCHANGED <<asked, answer, read, serverVars, wire>>
    BY <1>3 DEF GiveUp
  <2>3. Lag'
    BY <2>2, SMT
  <2>4. InStep'
    BY <2>2, SMT DEF serverVars
  <2> QED
    BY <2>1, <2>2, <2>3, <2>4 DEF serverVars
<1>4. CASE ClientCloses \/ ServerEnds \/ Reset
  BY <1>4, SMT DEF ClientCloses, ServerEnds, Reset, clientVars, serverVars
<1>5. CASE ServerRecv
  BY <1>5, SMT DEF ServerRecv, clientVars
<1>6. CASE Serve
  <2>1. /\ served' = served + 1
        /\ executed' = executed \cup {served + 1}
        /\ wire' = wire + 2
        /\ served < got \div 2
        /\ UNCHANGED <<asked, answer, lost, read, got, waiting>>
    BY <1>6 DEF Serve, clientVars
  <2>2. 1 .. served' \subseteq executed'
    BY <2>1, SMT
  <2> QED
    BY <2>1, <2>2, SMT
<1>7. CASE ServeRaises
  BY <1>7, SMT DEF ServeRaises, clientVars
<1>8. CASE UNCHANGED remoteVars
  BY <1>8 DEF remoteVars, clientVars, serverVars
<1> QED
  BY <1>1, <1>2, <1>3, <1>4, <1>5, <1>6, <1>7, <1>8 DEF Next

\* Client, streams and server stay in step, and every call is accounted for:
\* it was answered, it raised, or it is the one in progress.
THEOREM RemoteInvariant == Spec => []RemoteInv
BY RemoteInitially, RemoteStep, PTL DEF Spec

\* However the streams are cut and whoever gives up when, an answer lags
\* behind its request by no more calls than have raised, and what it answers
\* has been carried out (request, _client).
THEOREM LagsAreBounded == Spec => []LagIsBounded
<1>1. RemoteInv => LagIsBounded
  <2>1. ~waiting => waiting = FALSE
    OBVIOUS
  <2> QED
    BY <2>1, SMT DEF RemoteInv, RemoteTypeOK, InStep, Lag, LagIsBounded, Whole
<1> QED
  BY RemoteInvariant, <1>1, PTL

LEMMA RemoteStepKeepsPromise ==
    RemoteInv /\ [Next]_remoteVars => [Promise!RRNext]_<<asked, waiting, answer, lost>>
<1> SUFFICES ASSUME RemoteInv, [Next]_remoteVars
             PROVE  [Promise!RRNext]_<<asked, waiting, answer, lost>>
  OBVIOUS
<1> USE DEF RemoteInv, RemoteTypeOK, InStep, Whole, Promise!RRNext
<1>1. ASSUME NEW k \in Kinds, Ask(k)
      PROVE  Promise!Request
  BY <1>1, SMT DEF Ask, Promise!Request
<1>2. CASE ClientRecv
  <2>1. PICK n \in read + 1 .. wire :
            IF n \div 2 > read \div 2
            THEN waiting' = FALSE /\ answer' = read \div 2 + 1
            ELSE UNCHANGED <<waiting, answer>>
    BY <1>2 DEF ClientRecv
  <2>2. waiting /\ UNCHANGED <<asked, lost>>
    BY <1>2 DEF ClientRecv
  <2>3. ASSUME n \div 2 > read \div 2
        PROVE  answer' > answer /\ answer' <= asked
    BY <2>1, <2>3, SMT
  <2> QED
    BY <2>1, <2>2, <2>3 DEF Promise!Answered
<1>4. CASE GiveUp
  BY <1>4 DEF GiveUp, Promise!Raised
<1>5. CASE ClientCloses \/ ServerRecv \/ Serve \/ ServeRaises \/ ServerEnds \/ Reset
           \/ UNCHANGED remoteVars
  BY <1>5 DEF ClientCloses, ServerRecv, Serve, ServeRaises, ServerEnds, Reset, remoteVars,
              clientVars
<1> QED
  BY <1>1, <1>2, <1>4, <1>5 DEF Next

\* The client over its connection implements RequestResponse: no late answer
\* is returned twice or after a later one (request, feed).
THEOREM ClientKeepsPromise == Spec => AnswersKeepOrder
<1>1. Init => Promise!RRInit
  BY DEF Init, Promise!RRInit
<1> QED
  BY <1>1, RemoteInvariant, RemoteStepKeepsPromise, PTL
     DEF Spec, AnswersKeepOrder, Promise!RRSpec, Promise!rrVars
=============================================================================
