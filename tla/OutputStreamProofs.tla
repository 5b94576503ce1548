-------------------------- MODULE OutputStreamProofs --------------------------
(* Proofs about OutputStream, for every size of chunk, buffer, FIFO and ramp: *)
(* keep times are played out, and so is the ramp.                              *)
EXTENDS OutputStream, SequenceTheorems, TLAPS

Places == {"begin", "top", "pick", "play", "write", "ramp", "wait", "down"}

StreamTypeOK ==
    /\ generated \in Nat /\ written \in Nat /\ seen \in Nat /\ issued \in Nat
    /\ deadline \in Int /\ startedAt \in Int
    /\ begins \in [Actions -> Int]
    /\ pending \in Seq(Actions)
    /\ current \in Actions
    /\ slot \in Actions \cup {None}
    /\ place \in Places
    /\ elapsed \subseteq Actions

\* The device follows the writer, by no more than it can hold, and the look
\* at it is old.
Distance ==
    /\ seen <= generated
    /\ generated <= written
    /\ written <= generated + Buffer + Fifo

\* The deadline covers what was still to be played when the ramp was written.
InTime ==
    /\ place = "wait" /\ Fifo <= RampLen + Slack => written <= deadline
    /\ place = "down" /\ ~failed /\ Fifo <= RampLen + Slack => generated = written

\* What is in the slot has no position yet, the current action has, and no
\* clock runs ahead of the samples.
Positions ==
    /\ \A a \in Actions : a > issued => begins[a] = NotYet
    /\ slot # None => begins[slot] = NotYet /\ slot <= issued
    /\ begins[current] >= 0
    /\ place = "begin" => begins[current] = 0
    /\ startedAt # NotYet => startedAt >= begins[current]

\* What KeepTimeIsPlayed says, and that an elapsed action has its position.
Kept ==
    /\ \A a \in elapsed : begins[a] # NotYet
    /\ ~starved => \A a \in elapsed : generated >= begins[a] + Keep

StreamInv == StreamTypeOK /\ Distance /\ InTime /\ Positions /\ Kept

LEMMA StreamConstants ==
    /\ Chunk \in Nat /\ Chunk > 0
    /\ Buffer \in Nat /\ Buffer > 0
    /\ RampLen \in Nat /\ RampLen > 0
    /\ Fifo \in Nat /\ Slack \in Nat /\ Keep \in Nat /\ MaxSamples \in Nat
    /\ MaxActions \in Nat
    /\ Actions \subseteq Nat /\ 1 \in Actions /\ None \notin Actions /\ None = 0
BY StreamAssumption, MaxActionsAssumption, SMT DEF Actions, None

LEMMA RoomGrows ==
    ASSUME NEW g \in Nat, NEW h \in Nat, NEW w \in Nat, h >= g, w <= g + Buffer + Fifo
    PROVE  w <= h + Buffer + Fifo
BY StreamConstants, SMT

LEMMA StreamInitially == Init => StreamInv
<1> SUFFICES ASSUME Init
             PROVE  StreamInv
  OBVIOUS
<1>1. StreamTypeOK
  BY StreamConstants, SMT DEF Init, StreamTypeOK, Places, NotYet
<1>2. Distance /\ InTime /\ Kept
  BY StreamConstants, SMT DEF Init, Distance, InTime, Kept
<1>3. Positions
  BY StreamConstants, SMT DEF Init, Positions, NotYet
<1> QED
  BY <1>1, <1>2, <1>3 DEF StreamInv

\* A step that gives no action a position and reports no keep time.
LEMMA OtherStep ==
    ASSUME StreamInv, StreamTypeOK', Distance', InTime',
           UNCHANGED <<current, begins, slot, elapsed, issued>>,
           startedAt' = startedAt \/ startedAt' >= begins[current],
           place' # "begin" \/ place' = place,
           generated' >= generated, starved' = starved \/ starved' = TRUE
    PROVE  StreamInv'
<1>1. Positions'
  BY SMT DEF StreamInv, Positions
<1>2. ASSUME ~starved', NEW a \in elapsed
      PROVE  generated' >= begins[a] + Keep
  <2>1. ~starved
    BY <1>2
  <2>2. begins[a] \in Int
    BY DEF StreamInv, StreamTypeOK
  <2>3. generated >= begins[a] + Keep
    BY <2>1 DEF StreamInv, Kept
  <2> QED
    BY <2>2, <2>3, StreamConstants, SMT DEF StreamInv, StreamTypeOK
<1>3. Kept'
  BY <1>2 DEF StreamInv, Kept
<1> QED
  BY <1>1, <1>3 DEF StreamInv

LEMMA StreamStep == StreamInv /\ [Next]_streamVars => StreamInv'
<1> SUFFICES ASSUME StreamInv, [Next]_streamVars
             PROVE  StreamInv'
  OBVIOUS
<1> USE StreamConstants
<1>1. CASE Tick
  <2>1. UNCHANGED <<written, current, pending, begins, seen, startedAt, keepSent, deadline, place,
                    failed, slot, issued, elapsed>>
    BY <1>1 DEF Tick, clockVars, askVars, toldVars
  <2>2. \/ generated < written /\ generated' = generated + 1 /\ starved' = starved
        \/ generated' = generated /\ starved' = TRUE
    BY <1>1 DEF Tick
  <2>3. generated \in Nat /\ written \in Nat
    BY DEF StreamInv, StreamTypeOK
  <2>4. generated' \in Nat /\ generated' >= generated /\ generated' <= written
    BY <2>2, <2>3, SMT DEF StreamInv, Distance
  <2>5. StreamTypeOK'
    BY <2>1, <2>4 DEF StreamInv, StreamTypeOK
  <2>6. Distance'
    <3>1. /\ seen \in Nat /\ seen <= generated
          /\ written <= generated + Buffer + Fifo
      BY DEF StreamInv, StreamTypeOK, Distance
    <3>2. seen <= generated'
      BY <2>3, <2>4, <3>1, SMT
    <3>3. written <= generated' + Buffer + Fifo
      BY <2>3, <2>4, <3>1, RoomGrows
    <3> QED
      BY <2>1, <2>4, <3>2, <3>3 DEF Distance
  <2>7. InTime'
    BY <1>1, <2>1, SMT DEF Tick, StreamInv, InTime
  <2> QED
    BY <2>1, <2>2, <2>4, <2>5, <2>6, <2>7, OtherStep
<1>2. CASE Post
  <2>1. /\ issued < MaxActions
        /\ issued' = issued + 1
        /\ slot' = issued + 1
        /\ UNCHANGED <<generated, starved, written, current, pending, begins, seen, startedAt,
                       deadline, place, failed, elapsed>>
    BY <1>2 DEF Post, deviceVars, clockVars, toldVars
  <2>2. issued \in Nat /\ issued + 1 \in Actions /\ issued + 1 > issued
    BY <2>1, SMT DEF Actions, StreamInv, StreamTypeOK
  <2>3. StreamTypeOK'
    BY <2>1, <2>2 DEF StreamInv, StreamTypeOK, Actions
  <2>4. Distance' /\ InTime' /\ Kept'
    BY <2>1 DEF StreamInv, Distance, InTime, Kept
  <2>5. Positions'
    BY <2>1, <2>2, SMT DEF StreamInv, Positions
  <2> QED
    BY <2>3, <2>4, <2>5 DEF StreamInv
<1>3. CASE Stop
  BY <1>3 DEF Stop, StreamInv, StreamTypeOK, Distance, InTime, Positions, Kept, deviceVars,
              clockVars, toldVars
<1>4. CASE Begin
  <2>1. /\ place = "begin" /\ place' = "top"
        /\ startedAt' = generated
        /\ UNCHANGED <<generated, starved, written, current, pending, begins, seen, deadline,
                       failed, slot, issued, elapsed>>
    BY <1>4 DEF Begin, deviceVars, askVars
  <2>2. StreamTypeOK'
    BY <2>1 DEF StreamInv, StreamTypeOK, Places
  <2>3. Distance' /\ InTime' /\ startedAt' >= begins[current]
    BY <2>1, SMT DEF StreamInv, StreamTypeOK, Distance, InTime, Positions
  <2> QED
    BY <2>1, <2>2, <2>3, OtherStep DEF StreamInv, StreamTypeOK
<1>5. CASE Look
  <2>1. /\ place = "top" /\ place' \in {"ramp", "pick"}
        /\ seen' \in {seen, generated}
        /\ UNCHANGED <<generated, starved, written, current, pending, begins, startedAt, deadline,
                       failed, slot, issued, elapsed>>
    BY <1>5 DEF Look, deviceVars, askVars, clockVars, toldVars
  <2>2. StreamTypeOK'
    BY <2>1 DEF StreamInv, StreamTypeOK, Places
  <2>3. Distance' /\ InTime' /\ generated' >= generated
    BY <2>1, SMT DEF StreamInv, StreamTypeOK, Distance, InTime
  <2> QED
    BY <2>1, <2>2, <2>3, OtherStep
<1>6. CASE Pick /\ slot = None
  <2>1. /\ place = "pick" /\ place' = "play"
        /\ UNCHANGED <<generated, starved, written, current, pending, begins, seen, startedAt,
                       deadline, failed, slot, issued, elapsed>>
    BY <1>6 DEF Pick, deviceVars, clockVars, toldVars
  <2>2. StreamTypeOK'
    BY <2>1 DEF StreamInv, StreamTypeOK, Places
  <2>3. Distance' /\ InTime' /\ generated' >= generated
    BY <2>1, SMT DEF StreamInv, StreamTypeOK, Distance, InTime
  <2> QED
    BY <2>1, <2>2, <2>3, OtherStep
<1>7. CASE Pick /\ slot # None
  <2>1. /\ place = "pick" /\ place' = "play"
        /\ current' = slot
        /\ pending' = Append(pending, slot)
        /\ begins' = [begins EXCEPT ![slot] = written]
        /\ startedAt' = NotYet
        /\ slot' = None
        /\ UNCHANGED <<generated, starved, written, seen, deadline, failed, issued, elapsed>>
    BY <1>7 DEF Pick, deviceVars, toldVars
  <2>2. slot \in Actions /\ begins \in [Actions -> Int] /\ written \in Nat /\ issued \in Nat
    BY <1>7 DEF StreamInv, StreamTypeOK
  <2>3. StreamTypeOK'
    <3>1. begins' \in [Actions -> Int]
      BY <2>1, <2>2
    <3>2. pending' \in Seq(Actions)
      BY <2>1, <2>2 DEF StreamInv, StreamTypeOK
    <3>3. NotYet \in Int
      BY SMT DEF NotYet
    <3> QED
      BY <2>1, <2>2, <3>1, <3>2, <3>3 DEF StreamInv, StreamTypeOK, Places
  <2>4. Distance' /\ InTime'
    BY <2>1, SMT DEF StreamInv, StreamTypeOK, Distance, InTime
  <2>5. slot <= issued /\ begins[slot] = NotYet
    BY <1>7 DEF StreamInv, Positions
  <2>6. Positions'
    <3>1. begins'[current'] = written
      BY <2>1, <2>2
    <3>2. ASSUME NEW a \in Actions, a > issued
          PROVE  begins'[a] = NotYet
      <4>1. a # slot
        BY <2>2, <2>5, <3>2, SMT
      <4> QED
        BY <2>1, <2>2, <3>2, <4>1 DEF StreamInv, Positions
    <3>3. written >= 0
      BY <2>2, SMT
    <3> QED
      BY <2>1, <3>1, <3>2, <3>3 DEF Positions
  <2>7. \A a \in elapsed : begins'[a] = begins[a]
    BY <2>1, <2>2, <2>5 DEF StreamInv, StreamTypeOK, Kept
  <2>8. Kept'
    BY <2>1, <2>7 DEF StreamInv, Kept
  <2> QED
    BY <2>3, <2>4, <2>6, <2>8 DEF StreamInv
<1>8. CASE Play
  <2>1. /\ place = "play"
        /\ pending # <<>>
        /\ pending' = Tail(pending)
        /\ startedAt' \in {startedAt, generated - (seen - begins[current])}
        /\ UNCHANGED <<generated, starved, written, current, begins, seen, deadline, place,
                       failed, slot, issued, elapsed>>
    BY <1>8 DEF Play, Reached, FirstSampleAt, deviceVars, askVars
  <2>2. /\ generated \in Nat /\ seen \in Nat /\ begins[current] \in Int /\ startedAt \in Int
        /\ seen <= generated
    BY DEF StreamInv, StreamTypeOK, Distance
  <2>3. startedAt' \in Int /\ (startedAt' = startedAt \/ startedAt' >= begins[current])
    BY <2>1, <2>2, SMT
  <2>4. pending' \in Seq(Actions)
    BY <2>1, SMT DEF StreamInv, StreamTypeOK
  <2>5. StreamTypeOK'
    BY <2>1, <2>3, <2>4 DEF StreamInv, StreamTypeOK
  <2>6. Distance' /\ InTime' /\ generated' >= generated
    BY <2>1, <2>2, SMT DEF StreamInv, StreamTypeOK, Distance, InTime
  <2> QED
    BY <2>1, <2>3, <2>5, <2>6, OtherStep
<1>9. CASE CheckKeep
  <2>1. /\ place = "play" /\ place' = "write"
        /\ UNCHANGED <<generated, starved, written, current, pending, begins, seen, startedAt,
                       deadline, failed, slot, issued>>
    BY <1>9 DEF CheckKeep, deviceVars, askVars
  <2>2. \/ elapsed' = elapsed
        \/ /\ elapsed' = elapsed \cup {current}
           /\ startedAt # NotYet
           /\ starved \/ generated - startedAt >= Keep
    BY <1>9 DEF CheckKeep, KeepTimeOver
  <2>3. StreamTypeOK'
    BY <2>1, <2>2 DEF StreamInv, StreamTypeOK, Places
  <2>4. Distance' /\ InTime' /\ Positions'
    BY <2>1, SMT DEF StreamInv, StreamTypeOK, Distance, InTime, Positions
  <2>5. ASSUME startedAt # NotYet, generated - startedAt >= Keep
        PROVE  generated >= begins[current] + Keep
    <3>1. startedAt >= begins[current]
      BY <2>5 DEF StreamInv, Positions
    <3>2. begins[current] \in Int /\ startedAt \in Int /\ generated \in Nat
      BY DEF StreamInv, StreamTypeOK
    <3> QED
      BY <2>5, <3>1, <3>2, SMT
  <2>6. begins[current] # NotYet
    BY SMT DEF StreamInv, Positions, NotYet
  <2>7. Kept'
    BY <2>1, <2>2, <2>5, <2>6 DEF StreamInv, Kept
  <2> QED
    BY <2>3, <2>4, <2>7 DEF StreamInv
<1>10. CASE Write \/ Ramp
  <2>1. \/ written' = written + Chunk /\ place' = "top"
           /\ written + Chunk <= generated + Buffer + Fifo /\ deadline' = deadline
        \/ written' = written + RampLen /\ place' = "wait"
           /\ written + RampLen <= generated + Buffer + Fifo
           /\ deadline' = generated + Buffer + RampLen + Slack
    BY <1>10 DEF Write, Ramp, Fits, Deadline
  <2>2. UNCHANGED <<generated, starved, current, pending, begins, seen, startedAt, failed, slot,
                    issued, elapsed>>
    BY <1>10 DEF Write, Ramp, deviceVars, clockVars, askVars, toldVars
  <2>3. written' \in Nat /\ deadline' \in Int
    BY <2>1, SMT DEF StreamInv, StreamTypeOK
  <2>4. StreamTypeOK'
    BY <2>1, <2>2, <2>3 DEF StreamInv, StreamTypeOK, Places
  <2>5. Distance' /\ generated' >= generated
    BY <2>1, <2>2, SMT DEF StreamInv, StreamTypeOK, Distance
  <2>6. InTime'
    BY <2>1, <2>2, <2>3, SMT DEF StreamInv, StreamTypeOK, InTime
  <2>7. place' # "begin"
    BY <2>1
  <2> QED
    BY <2>2, <2>4, <2>5, <2>6, <2>7, OtherStep
<1>11. CASE WaitEnds \/ Fail
  <2>1. /\ place' = "down"
        /\ \/ failed' = TRUE
           \/ place = "wait" /\ (generated >= written \/ generated >= deadline)
        /\ UNCHANGED <<generated, starved, written, current, pending, begins, seen, startedAt,
                       deadline, slot, issued, elapsed>>
    BY <1>11 DEF WaitEnds, Fail, deviceVars, clockVars, askVars, toldVars
  <2>2. StreamTypeOK'
    BY <2>1 DEF StreamInv, StreamTypeOK, Places
  <2>3. Distance' /\ generated' >= generated
    BY <2>1, SMT DEF StreamInv, StreamTypeOK, Distance
  <2>4. ASSUME place = "wait", generated >= written \/ generated >= deadline,
               Fifo <= RampLen + Slack
        PROVE  generated = written
    BY <2>4, SMT DEF StreamInv, StreamTypeOK, Distance, InTime
  <2>5. InTime'
    BY <2>1, <2>4 DEF InTime
  <2> QED
    BY <2>1, <2>2, <2>3, <2>5, OtherStep
<1>12. CASE UNCHANGED streamVars
  BY <1>12 DEF streamVars, StreamInv, StreamTypeOK, Distance, InTime, Positions, Kept, deviceVars,
               clockVars, askVars, toldVars
<1> QED
  BY <1>1, <1>2, <1>3, <1>4, <1>5, <1>6, <1>7, <1>8, <1>9, <1>10, <1>11, <1>12 DEF Next

\* The writer is never further ahead of the device than it can hold, no clock
\* runs ahead of its action's samples, and the deadline covers what is left.
THEOREM StreamInvariant == Spec => []StreamInv
BY StreamInitially, StreamStep, PTL DEF Spec

\* Whenever on_duration was called of an action, its samples have been on the
\* coils for the keep time, unless the device has run dry (run).
THEOREM KeepTimesArePlayed == Spec => []KeepTimeIsPlayed
<1>1. StreamInv => KeepTimeIsPlayed
  BY DEF StreamInv, Kept, KeepTimeIsPlayed
<1> QED
  BY StreamInvariant, <1>1, PTL

\* A worker that ends without an exception has had its ramp played to the end,
\* with a device FIFO of at most the ramp and the added quarter of a second
\* (the deadline in run).
THEOREM RampsArePlayed == Spec => []RampIsPlayed
<1>1. StreamInv => RampIsPlayed
  BY DEF StreamInv, InTime, RampIsPlayed
<1> QED
  BY StreamInvariant, <1>1, PTL
-----------------------------------------------------------------------------
\* The order of the samples.

Positioned == {a \in Actions : begins[a] # NotYet}

Waits(a) == \E i \in 1 .. Len(pending) : pending[i] = a

\* Newer actions are written at later positions, and the one in the slot is
\* newer than all that are written.
PlacedInv ==
    /\ current <= issued
    /\ slot # None => current < slot
    /\ \A a \in Positioned : begins[a] \in 0 .. written /\ a <= current
    /\ place \in {"begin", "top", "pick"} => \A a \in Positioned : begins[a] < written
    /\ \A a, b \in Positioned : a < b => begins[a] < begins[b]

\* What is pending is written and newer than what was reported, what the device
\* has not come to is still pending, and what it has come to stands in front.
QueueInv ==
    /\ \A i \in 1 .. Len(pending) : pending[i] \in Positioned
    /\ \A i, j \in 1 .. Len(pending) : i < j => pending[i] < pending[j]
    /\ \A a \in reported : a \in Positioned /\ \A i \in 1 .. Len(pending) : a < pending[i]
    /\ \A a \in Positioned : begins[a] > generated => Waits(a)
    /\ place = "begin" => reported = {} /\ pending = <<>>
    /\ \E n \in 0 .. Len(pending) : CountsPassed(n, pending, begins, generated)

OrderInv == PlacedInv /\ QueueInv

LEMMA UnreachedIs ==
    ASSUME NEW q \in Seq(Actions), NEW p, NEW g, NEW n, CountsPassed(n, q, p, g)
    PROVE  Unreached(q, p, g) = SubSeq(q, n + 1, Len(q))
<1> DEFINE m == CHOOSE k \in 0 .. Len(q) : CountsPassed(k, q, p, g)
<1>1. n \in 0 .. Len(q)
  BY DEF CountsPassed
<1>2. m \in 0 .. Len(q) /\ CountsPassed(m, q, p, g)
  BY <1>1
<1> HIDE DEF m
<1>3. m = n
  <2>1. \A i \in 1 .. Len(q) : i <= n <=> i <= m
    BY <1>2 DEF CountsPassed
  <2> QED
    BY <1>1, <1>2, <2>1
<1> QED
  BY <1>3 DEF Unreached, m

LEMMA SubSeqToEnd ==
    ASSUME NEW q \in Seq(Actions), NEW n \in 0 .. Len(q)
    PROVE  /\ SubSeq(q, n + 1, Len(q)) \in Seq(Actions)
           /\ Len(SubSeq(q, n + 1, Len(q))) = Len(q) - n
           /\ \A i \in 1 .. Len(q) - n : SubSeq(q, n + 1, Len(q))[i] = q[n + i]
<1> DEFINE l == Len(q)
           s == SubSeq(q, n + 1, l)
<1>1. l \in Nat /\ n \in 0 .. l /\ \A i \in n + 1 .. l : q[i] \in Actions
  OBVIOUS
<1>2. /\ s \in Seq(Actions)
      /\ Len(s) = IF n + 1 <= l THEN l - (n + 1) + 1 ELSE 0
      /\ \A i \in 1 .. l - (n + 1) + 1 : s[i] = q[(n + 1) + i - 1]
  <2>1. n + 1 \in Int /\ l \in Int
    BY <1>1
  <2> QED
    BY <1>1, <2>1, SubSeqProperties
<1> HIDE DEF l, s
<1>3. Len(s) = l - n
  BY <1>1, <1>2
<1>4. ASSUME NEW i \in 1 .. l - n PROVE s[i] = q[n + i]
  <2>1. i \in 1 .. l - (n + 1) + 1 /\ (n + 1) + i - 1 = n + i
    BY <1>1
  <2> QED
    BY <1>2, <2>1
<1> QED
  BY <1>2, <1>3, <1>4 DEF l, s

LEMMA AppendUnreached ==
    ASSUME NEW q \in Seq(Actions), NEW a \in Actions, NEW n \in 0 .. Len(q)
    PROVE  SubSeq(Append(q, a), n + 1, Len(Append(q, a))) = Append(SubSeq(q, n + 1, Len(q)), a)
<1> DEFINE l == Len(q)
           r == Append(q, a)
           s == SubSeq(q, n + 1, l)
           rest == SubSeq(r, n + 1, Len(r))
<1>1. /\ l \in Nat /\ n \in 0 .. l
      /\ r \in Seq(Actions) /\ Len(r) = l + 1
      /\ \A i \in 1 .. l : r[i] = q[i]
      /\ r[l + 1] = a
  BY AppendProperties
<1>2. s \in Seq(Actions) /\ Len(s) = l - n /\ \A i \in 1 .. l - n : s[i] = q[n + i]
  BY SubSeqToEnd
<1>3. /\ rest \in Seq(Actions) /\ Len(rest) = l + 1 - n
      /\ \A i \in 1 .. l + 1 - n : rest[i] = r[n + i]
  <2>1. n \in 0 .. Len(r)
    BY <1>1
  <2> HIDE DEF r, l
  <2> QED
    BY <1>1, <2>1, SubSeqToEnd
<1>4. /\ Append(s, a) \in Seq(Actions) /\ Len(Append(s, a)) = l - n + 1
      /\ \A i \in 1 .. l - n : Append(s, a)[i] = q[n + i]
      /\ Append(s, a)[l - n + 1] = a
  <2> HIDE DEF s, l
  <2>1. /\ Append(s, a) \in Seq(Actions) /\ Len(Append(s, a)) = Len(s) + 1
        /\ \A i \in 1 .. Len(s) : Append(s, a)[i] = s[i]
        /\ Append(s, a)[Len(s) + 1] = a
    BY <1>2, AppendProperties
  <2> QED
    BY <1>2, <2>1
<1> HIDE DEF l, r, s, rest
<1>5. ASSUME NEW i \in 1 .. l + 1 - n PROVE rest[i] = Append(s, a)[i]
  <2>1. CASE i <= l - n
    <3>1. i \in 1 .. l - n /\ n + i \in 1 .. l
      BY <1>1, <2>1
    <3> QED
      BY <1>1, <1>3, <1>4, <3>1
  <2>2. CASE i = l - n + 1
    <3>1. n + i = l + 1
      BY <1>1, <2>2
    <3> QED
      BY <1>1, <1>3, <1>4, <2>2, <3>1
  <2>3. i <= l - n \/ i = l - n + 1
    BY <1>1
  <2> QED
    BY <2>1, <2>2, <2>3
<1>6. Len(rest) = Len(Append(s, a))
  BY <1>1, <1>3, <1>4
<1>7. \A i \in 1 .. Len(rest) : rest[i] = Append(s, a)[i]
  BY <1>3, <1>5
<1>8. rest = Append(s, a)
  BY <1>3, <1>4, <1>6, <1>7, SeqEqual
<1> QED
  BY <1>8 DEF l, r, s, rest

LEMMA TailUnreached ==
    ASSUME NEW q \in Seq(Actions), q # <<>>, NEW n \in 1 .. Len(q)
    PROVE  SubSeq(Tail(q), n, Len(Tail(q))) = SubSeq(q, n + 1, Len(q))
<1> DEFINE l == Len(q)
           t == Tail(q)
           s == SubSeq(q, n + 1, l)
           rest == SubSeq(t, n, Len(t))
<1>1. /\ l \in Nat /\ n \in 1 .. l /\ n - 1 \in 0 .. l - 1 /\ (n - 1) + 1 = n
      /\ t \in Seq(Actions) /\ Len(t) = l - 1
      /\ \A i \in 1 .. l - 1 : t[i] = q[i + 1]
  BY HeadTailProperties
<1>2. s \in Seq(Actions) /\ Len(s) = l - n /\ \A i \in 1 .. l - n : s[i] = q[n + i]
  BY SubSeqToEnd
<1>3. /\ rest \in Seq(Actions) /\ Len(rest) = (l - 1) - (n - 1)
      /\ \A i \in 1 .. (l - 1) - (n - 1) : rest[i] = t[(n - 1) + i]
  <2> HIDE DEF t, l
  <2> DEFINE k == n - 1
  <2>1. k \in 0 .. Len(t) /\ k + 1 = n
    BY <1>1
  <2>2. /\ SubSeq(t, k + 1, Len(t)) \in Seq(Actions)
        /\ Len(SubSeq(t, k + 1, Len(t))) = Len(t) - k
        /\ \A i \in 1 .. Len(t) - k : SubSeq(t, k + 1, Len(t))[i] = t[k + i]
    <3> HIDE DEF k
    <3> QED
      BY <1>1, <2>1, SubSeqToEnd
  <2> QED
    BY <1>1, <2>1, <2>2
<1> HIDE DEF l, t, s, rest
<1>4. ASSUME NEW i \in 1 .. l - n PROVE rest[i] = s[i]
  <2>1. i \in 1 .. (l - 1) - (n - 1) /\ (n - 1) + i \in 1 .. l - 1 /\ ((n - 1) + i) + 1 = n + i
    BY <1>1
  <2> QED
    BY <1>1, <1>2, <1>3, <2>1
<1>5. Len(rest) = Len(s) /\ Len(rest) = l - n
  BY <1>1, <1>2, <1>3
<1>6. rest = s
  BY <1>2, <1>3, <1>4, <1>5, SeqEqual
<1> QED
  BY <1>6 DEF l, t, s, rest

\* What the refinement mapping makes of the positions.
Heard == {a \in Actions : begins[a] \in 0 .. generated}

Due == Unreached(pending, begins, generated)

PlayoutStep == Plays!PlayoutNext \/ UNCHANGED <<Heard, Due, reported>>

\* Steps that move no sample and report nothing.
LEMMA OrderKept ==
    ASSUME StreamTypeOK, StreamTypeOK', OrderInv,
           UNCHANGED <<generated, current, pending, begins, reported>>,
           issued' >= issued,
           slot' = None \/ current < slot',
           \/ written' = written /\ (place' \in {"begin", "top", "pick"} =>
                                         place \in {"begin", "top", "pick"})
           \/ written' > written,
           place' = "begin" => place = "begin"
    PROVE  OrderInv' /\ PlayoutStep
<1>1. Positioned' = Positioned /\ Heard' = Heard /\ Due' = Due
  BY DEF Positioned, Heard, Due
<1>2. QueueInv'
  BY <1>1 DEF OrderInv, QueueInv, Waits
<1>3. ASSUME NEW a \in Positioned PROVE begins[a] \in 0 .. written' /\ a <= current
  BY <1>3 DEF OrderInv, PlacedInv, StreamTypeOK
<1>4. ASSUME place' \in {"begin", "top", "pick"}, NEW a \in Positioned PROVE begins[a] < written'
  BY <1>4 DEF OrderInv, PlacedInv, StreamTypeOK
<1>5. current <= issued'
  <2>1. current \in Nat
    BY StreamConstants DEF StreamTypeOK
  <2> QED
    BY <2>1 DEF OrderInv, PlacedInv, StreamTypeOK
<1>6. PlacedInv'
  BY <1>1, <1>3, <1>4, <1>5 DEF OrderInv, PlacedInv
<1> QED
  BY <1>1, <1>2, <1>6 DEF OrderInv, PlayoutStep

\* One more sample: the device comes to at most one action, and in that case
\* to the first of those it has not come to.
LEMMA SampleReaches ==
    ASSUME StreamTypeOK, OrderInv, generated' = generated + 1,
           UNCHANGED <<written, current, pending, begins, place, slot, issued, reported>>
    PROVE  OrderInv' /\ PlayoutStep
<1>1. PlacedInv' /\ Positioned' = Positioned
  BY DEF OrderInv, PlacedInv, Positioned
<1>2. PICK n \in 0 .. Len(pending) : CountsPassed(n, pending, begins, generated)
  BY DEF OrderInv, QueueInv
<1>3. /\ generated \in Nat /\ begins \in [Actions -> Int] /\ pending \in Seq(Actions)
      /\ Len(pending) \in Nat
  BY DEF StreamTypeOK
<1>4. \A i \in 1 .. Len(pending) : pending[i] \in Actions /\ (begins[pending[i]] <= generated <=> i <= n)
  BY <1>2, <1>3 DEF CountsPassed
<1>5. Due = SubSeq(pending, n + 1, Len(pending))
  BY <1>2, <1>3, UnreachedIs DEF Due
<1>6. ASSUME \E m \in 0 .. Len(pending) : CountsPassed(m, pending, begins, generated + 1)
      PROVE  OrderInv'
  <2>1. \A a \in Positioned : begins[a] > generated + 1 => Waits(a)
    BY <1>3 DEF OrderInv, QueueInv, Positioned
  <2>2. QueueInv'
    BY <1>1, <1>6, <2>1 DEF OrderInv, QueueInv, Waits
  <2> QED
    BY <1>1, <2>2 DEF OrderInv
<1>7. CASE \A a \in Actions : begins[a] # generated + 1
  <2>1. CountsPassed(n, pending, begins, generated + 1)
    <3>1. \A i \in 1 .. Len(pending) : begins[pending[i]] <= generated + 1 <=> i <= n
      BY <1>3, <1>4, <1>7
    <3> QED
      BY <1>2, <3>1 DEF CountsPassed
  <2>2. Heard' = Heard
    BY <1>3, <1>7 DEF Heard
  <2>3. Due' = Due
    BY <1>3, <1>5, <2>1, UnreachedIs DEF Due
  <2> QED
    BY <1>6, <2>1, <2>2, <2>3 DEF PlayoutStep
<1>8. ASSUME NEW a \in Actions, begins[a] = generated + 1 PROVE OrderInv' /\ PlayoutStep
  <2>1. a \in Positioned /\ Waits(a)
    BY <1>3, <1>8 DEF Positioned, NotYet, OrderInv, QueueInv
  <2>2. PICK k \in 1 .. Len(pending) : pending[k] = a
    BY <2>1 DEF Waits
  <2>3. \A b \in Positioned : b # a => begins[b] # begins[a]
    <3> SUFFICES ASSUME NEW b \in Positioned, b # a PROVE begins[b] # begins[a]
      OBVIOUS
    <3>1. b \in Actions /\ b \in Nat /\ a \in Nat /\ begins[a] \in Int /\ begins[b] \in Int
      BY <1>3, StreamConstants DEF Positioned
    <3>2. b < a \/ a < b
      BY <3>1
    <3> QED
      BY <2>1, <3>1, <3>2 DEF OrderInv, PlacedInv
  <2>4. \A i, j \in 1 .. Len(pending) : i < j => begins[pending[i]] < begins[pending[j]]
    BY DEF OrderInv, PlacedInv, QueueInv
  <2>5. k = n + 1
    <3>1. ~(k <= n)
      BY <1>3, <1>4, <1>8, <2>2
    <3>2. ASSUME n + 1 < k PROVE FALSE
      <4>1. n + 1 \in 1 .. Len(pending)
        BY <1>2, <1>3, <2>2, <3>2
      <4>2. begins[pending[n + 1]] < generated + 1 /\ begins[pending[n + 1]] \in Int
        BY <1>3, <1>4, <1>8, <2>2, <2>4, <3>2, <4>1
      <4>3. begins[pending[n + 1]] <= generated
        BY <1>3, <4>2
      <4> QED
        BY <1>2, <1>4, <4>1, <4>3
    <3> QED
      BY <1>2, <1>3, <2>2, <3>1, <3>2
  <2>6. CountsPassed(n + 1, pending, begins, generated + 1) /\ n + 1 \in 0 .. Len(pending)
    <3>1. ASSUME NEW i \in 1 .. Len(pending)
          PROVE  begins[pending[i]] <= generated + 1 <=> i <= n + 1
      <4>1. begins[pending[i]] \in Int
        BY <1>3, <1>4
      <4>2. CASE i <= n
        BY <1>2, <1>3, <1>4, <4>1, <4>2
      <4>3. CASE i = k
        BY <1>3, <1>8, <2>2, <2>5, <4>3
      <4>4. CASE k < i
        BY <1>2, <1>3, <1>8, <2>2, <2>4, <2>5, <4>1, <4>4
      <4> QED
        BY <1>2, <1>3, <2>5, <4>2, <4>3, <4>4
    <3> QED
      BY <1>2, <1>3, <2>2, <2>5, <3>1 DEF CountsPassed
  <2>7. Heard' = Heard \cup {a}
    <3>1. ASSUME NEW b \in Actions
          PROVE  begins[b] \in 0 .. generated + 1 <=> begins[b] \in 0 .. generated \/ b = a
      <4>1. CASE b = a
        BY <1>3, <1>8, <4>1
      <4>2. CASE b # a /\ b \in Positioned
        BY <1>3, <1>8, <2>3, <4>2
      <4>3. CASE b # a /\ b \notin Positioned
        BY <1>3, <4>3 DEF Positioned, NotYet
      <4> QED
        BY <4>1, <4>2, <4>3
    <3> QED
      BY <3>1 DEF Heard
  <2>8. Due' = SubSeq(pending, n + 2, Len(pending))
    <3>1. (n + 1) + 1 = n + 2
      BY <1>2
    <3>2. Unreached(pending, begins, generated + 1) = SubSeq(pending, (n + 1) + 1, Len(pending))
      BY <1>3, <2>6, UnreachedIs
    <3> QED
      BY <3>1, <3>2 DEF Due
  <2>9. Due # <<>> /\ Head(Due) = a /\ Tail(Due) = Due'
    <3>1. n + 1 \in 1 .. Len(pending) /\ Len(pending) \in n + 1 .. Len(pending) /\ (n + 1) + 1 = n + 2
      BY <1>2, <1>3, <2>2, <2>5
    <3>2. /\ Head(SubSeq(pending, n + 1, Len(pending))) = pending[n + 1]
          /\ Tail(SubSeq(pending, n + 1, Len(pending))) = SubSeq(pending, (n + 1) + 1, Len(pending))
      BY <1>3, <3>1, HeadTailOfSubSeq
    <3>3. Len(SubSeq(pending, n + 1, Len(pending))) = Len(pending) - n
      BY <1>2, <1>3, SubSeqToEnd
    <3>4. Len(pending) - n # 0
      BY <1>2, <1>3, <3>1
    <3>5. SubSeq(pending, n + 1, Len(pending)) # <<>>
      BY <3>3, <3>4
    <3> QED
      BY <1>5, <2>2, <2>5, <2>8, <3>1, <3>2, <3>5
  <2>10. Plays!Reach
    BY <2>7, <2>9 DEF Plays!Reach, Plays!Actions, Actions, Heard, Due
  <2> QED
    BY <1>6, <2>6, <2>10 DEF PlayoutStep, Plays!PlayoutNext
<1> QED
  BY <1>7, <1>8

LEMMA BeginTells ==
    ASSUME StreamInv, StreamTypeOK', OrderInv, Begin
    PROVE  OrderInv' /\ PlayoutStep
<1>1. /\ place = "begin" /\ place' = "top" /\ reported' = reported \cup {current}
      /\ UNCHANGED <<generated, written, current, pending, begins, slot, issued>>
  BY DEF Begin, deviceVars, askVars
<1>2. /\ reported = {} /\ pending = <<>> /\ current \in Actions /\ begins[current] = 0
      /\ generated \in Nat
  BY <1>1 DEF OrderInv, QueueInv, StreamInv, StreamTypeOK, Positions
<1>3. PlacedInv'
  BY <1>1 DEF OrderInv, PlacedInv, Positioned
<1>4. current \in Positioned
  BY <1>2 DEF Positioned, NotYet
<1>5. \A a \in reported' : a \in Positioned /\ \A i \in 1 .. Len(pending) : a < pending[i]
  BY <1>1, <1>2, <1>4
<1>6. QueueInv'
  BY <1>1, <1>5 DEF OrderInv, QueueInv, Positioned, Waits
<1>7. Plays!Tell(current)
  BY <1>1, <1>2 DEF Plays!Tell
<1> QED
  BY <1>2, <1>3, <1>6, <1>7 DEF OrderInv, PlayoutStep, Plays!PlayoutNext, Plays!Actions, Actions

\* The oldest of the queue is reported: the device had come to it when it was
\* looked at, so it is not among those still due.
LEMMA PlayTells ==
    ASSUME StreamInv, StreamTypeOK', OrderInv, Play
    PROVE  OrderInv' /\ PlayoutStep
<1> DEFINE h == Head(pending)
<1>1. /\ place = "play" /\ pending # <<>> /\ seen >= begins[h]
      /\ reported' = reported \cup {h} /\ pending' = Tail(pending)
      /\ UNCHANGED <<generated, written, current, begins, place, slot, issued>>
  BY DEF Play, Reached, deviceVars, askVars
<1>2. /\ generated \in Nat /\ seen \in Nat /\ seen <= generated /\ begins \in [Actions -> Int]
      /\ pending \in Seq(Actions)
  BY DEF StreamInv, StreamTypeOK, Distance
<1>3. /\ h \in Actions /\ h = pending[1] /\ Len(pending) \in Nat /\ 1 \in 1 .. Len(pending)
      /\ pending' \in Seq(Actions) /\ Len(pending') = Len(pending) - 1
      /\ \A i \in 1 .. Len(pending') : pending'[i] = pending[i + 1]
  BY <1>1, <1>2, HeadTailProperties
<1> HIDE DEF h
<1>4. \A i \in 1 .. Len(pending') : i + 1 \in 1 .. Len(pending)
  BY <1>3
<1>5. h \in Positioned /\ begins[h] \in 0 .. generated
  <2>1. h \in Positioned
    BY <1>3 DEF OrderInv, QueueInv
  <2>2. begins[h] \in Nat
    BY <2>1 DEF OrderInv, PlacedInv
  <2> QED
    BY <1>1, <1>2, <2>1, <2>2
<1>6. PlacedInv' /\ Positioned' = Positioned /\ Heard' = Heard
  BY <1>1 DEF OrderInv, PlacedInv, Positioned, Heard
<1>7. PICK n \in 0 .. Len(pending) : CountsPassed(n, pending, begins, generated)
  BY DEF OrderInv, QueueInv
<1>8. n \in 1 .. Len(pending) /\ n - 1 \in 0 .. Len(pending') /\ (n - 1) + 1 = n
  <2>1. begins[pending[1]] <= generated
    BY <1>2, <1>3, <1>5
  <2>2. 1 <= n
    BY <1>3, <1>7, <2>1 DEF CountsPassed
  <2> QED
    BY <1>3, <1>7, <2>2
<1>9. CountsPassed(n - 1, pending', begins, generated)
  <2>1. ASSUME NEW i \in 1 .. Len(pending')
        PROVE  begins[pending'[i]] <= generated <=> i <= n - 1
    <3>1. begins[pending[i + 1]] <= generated <=> i + 1 <= n
      BY <1>4, <1>7 DEF CountsPassed
    <3>2. i + 1 <= n <=> i <= n - 1
      BY <1>8
    <3> QED
      BY <1>3, <3>1, <3>2
  <2> QED
    BY <1>8, <2>1 DEF CountsPassed
<1>10. Due' = Due
  <2>1. Due = SubSeq(pending, n + 1, Len(pending))
    BY <1>2, <1>7, UnreachedIs DEF Due
  <2>2. Due' = SubSeq(pending', (n - 1) + 1, Len(pending'))
    BY <1>1, <1>3, <1>9, UnreachedIs DEF Due
  <2>3. SubSeq(Tail(pending), n, Len(Tail(pending))) = SubSeq(pending, n + 1, Len(pending))
    BY <1>1, <1>2, <1>8, TailUnreached
  <2> QED
    BY <1>1, <1>8, <2>1, <2>2, <2>3
<1>11. \A b \in reported : b < h
  BY <1>3 DEF OrderInv, QueueInv
<1>12. QueueInv'
  <2>1. /\ \A i \in 1 .. Len(pending') : pending'[i] \in Positioned
        /\ \A i, j \in 1 .. Len(pending') : i < j => pending'[i] < pending'[j]
    BY <1>3, <1>4 DEF OrderInv, QueueInv
  <2>2. \A a \in reported' : a \in Positioned /\ \A i \in 1 .. Len(pending') : a < pending'[i]
    <3>1. \A i \in 1 .. Len(pending') : h < pending'[i]
      BY <1>3, <1>4 DEF OrderInv, QueueInv
    <3> QED
      BY <1>1, <1>3, <1>4, <1>5, <3>1 DEF OrderInv, QueueInv
  <2>3. ASSUME NEW a \in Positioned, begins[a] > generated
        PROVE  \E i \in 1 .. Len(pending') : pending'[i] = a
    <3>1. PICK k \in 1 .. Len(pending) : pending[k] = a
      BY <2>3 DEF OrderInv, QueueInv, Waits
    <3>2. k # 1
      BY <1>2, <1>3, <1>5, <2>3, <3>1
    <3>3. k - 1 \in 1 .. Len(pending') /\ (k - 1) + 1 = k
      BY <1>3, <3>2
    <3> QED
      BY <1>3, <3>1, <3>3
  <2> QED
    BY <1>1, <1>6, <1>8, <1>9, <2>1, <2>2, <2>3 DEF QueueInv, Waits
<1>13. Plays!Tell(h)
  BY <1>1, <1>3, <1>5, <1>6, <1>10, <1>11 DEF Plays!Tell, Heard, Due
<1> QED
  BY <1>3, <1>6, <1>12, <1>13 DEF OrderInv, PlayoutStep, Plays!PlayoutNext, Plays!Actions, Actions

\* A replacement gets the position of the next chunk: behind all others, and
\* either still due or just where the device has come to.
LEMMA PickAccepts ==
    ASSUME StreamInv, StreamTypeOK', OrderInv, Pick, slot # None
    PROVE  OrderInv' /\ PlayoutStep
<1>1. /\ place = "pick" /\ place' = "play" /\ current' = slot
      /\ pending' = Append(pending, slot) /\ begins' = [begins EXCEPT ![slot] = written]
      /\ slot' = None
      /\ UNCHANGED <<generated, written, issued, reported>>
  BY DEF Pick, deviceVars, toldVars
<1>2. /\ generated \in Nat /\ written \in Nat /\ generated <= written
      /\ begins \in [Actions -> Int] /\ pending \in Seq(Actions) /\ Len(pending) \in Nat
      /\ slot \in Actions /\ slot <= issued /\ begins[slot] = NotYet /\ current < slot
      /\ current \in Nat /\ slot \in Nat
  <2>1. /\ generated \in Nat /\ written \in Nat /\ begins \in [Actions -> Int]
        /\ pending \in Seq(Actions) /\ slot \in Actions /\ current \in Actions
    BY DEF StreamInv, StreamTypeOK
  <2>2. generated <= written /\ slot <= issued /\ begins[slot] = NotYet /\ current < slot
    BY DEF StreamInv, Distance, Positions, OrderInv, PlacedInv
  <2> QED
    BY <2>1, <2>2, StreamConstants
<1>3. /\ begins'[slot] = written
      /\ \A a \in Actions : a # slot => begins'[a] = begins[a]
      /\ slot \notin Positioned /\ Positioned' = Positioned \cup {slot}
  BY <1>1, <1>2 DEF Positioned, NotYet
<1>4. \A a \in Positioned :
          /\ a \in Nat /\ begins'[a] = begins[a] /\ begins[a] \in 0 .. written
          /\ begins[a] < written /\ a < slot
  <2> SUFFICES ASSUME NEW a \in Positioned
               PROVE  /\ a \in Nat /\ begins'[a] = begins[a] /\ begins[a] \in 0 .. written
                      /\ begins[a] < written /\ a < slot
    OBVIOUS
  <2>1. a \in Actions /\ a \in Nat
    BY StreamConstants DEF Positioned
  <2>2. begins[a] \in 0 .. written /\ begins[a] < written /\ a <= current
    BY <1>1 DEF OrderInv, PlacedInv
  <2> QED
    BY <1>2, <1>3, <2>1, <2>2
<1>5. PlacedInv'
  <2>1. \A a \in Positioned' : begins'[a] \in 0 .. written /\ a <= slot
    BY <1>2, <1>3, <1>4
  <2>2. \A a, b \in Positioned' : a < b => begins'[a] < begins'[b]
    <3> SUFFICES ASSUME NEW a \in Positioned', NEW b \in Positioned', a < b
                 PROVE  begins'[a] < begins'[b]
      OBVIOUS
    <3>1. CASE b = slot
      BY <1>2, <1>3, <1>4, <3>1
    <3>2. CASE a = slot
      BY <1>2, <1>3, <1>4, <3>2
    <3>3. CASE a # slot /\ b # slot
      BY <1>3, <1>4, <3>3 DEF OrderInv, PlacedInv
    <3> QED
      BY <3>1, <3>2, <3>3
  <2> QED
    BY <1>1, <1>2, <2>1, <2>2 DEF PlacedInv
<1>6. /\ pending' \in Seq(Actions) /\ Len(pending') = Len(pending) + 1
      /\ \A i \in 1 .. Len(pending) : pending'[i] = pending[i] /\ pending[i] \in Positioned
      /\ pending'[Len(pending) + 1] = slot
  BY <1>1, <1>2, AppendProperties DEF OrderInv, QueueInv
<1>7. \A i \in 1 .. Len(pending') : i \in 1 .. Len(pending) \/ i = Len(pending) + 1
  BY <1>2, <1>6
<1>8. PICK n \in 0 .. Len(pending) : CountsPassed(n, pending, begins, generated)
  BY DEF OrderInv, QueueInv
<1>9. \A i \in 1 .. Len(pending) : begins'[pending'[i]] <= generated <=> i <= n
  BY <1>4, <1>6, <1>8 DEF CountsPassed
<1>10. Due = SubSeq(pending, n + 1, Len(pending))
  BY <1>2, <1>8, UnreachedIs DEF Due
<1>11. ASSUME \E m \in 0 .. Len(pending') : CountsPassed(m, pending', begins', generated)
       PROVE  OrderInv'
  <2>1. \A i \in 1 .. Len(pending') : pending'[i] \in Positioned'
    BY <1>3, <1>6, <1>7
  <2>2. \A i, j \in 1 .. Len(pending') : i < j => pending'[i] < pending'[j]
    <3> SUFFICES ASSUME NEW i \in 1 .. Len(pending'), NEW j \in 1 .. Len(pending'), i < j
                 PROVE  pending'[i] < pending'[j]
      OBVIOUS
    <3>1. i \in 1 .. Len(pending)
      BY <1>2, <1>6
    <3>2. CASE j \in 1 .. Len(pending)
      BY <1>6, <3>1, <3>2 DEF OrderInv, QueueInv
    <3>3. CASE j = Len(pending) + 1
      BY <1>4, <1>6, <3>1, <3>3
    <3> QED
      BY <1>7, <3>2, <3>3
  <2>3. \A a \in reported : a \in Positioned' /\ \A i \in 1 .. Len(pending') : a < pending'[i]
    <3> SUFFICES ASSUME NEW a \in reported
                 PROVE  a \in Positioned' /\ \A i \in 1 .. Len(pending') : a < pending'[i]
      OBVIOUS
    <3>1. a \in Positioned /\ \A i \in 1 .. Len(pending) : a < pending[i]
      BY DEF OrderInv, QueueInv
    <3> QED
      BY <1>3, <1>4, <1>6, <1>7, <3>1
  <2>4. ASSUME NEW a \in Positioned', begins'[a] > generated
        PROVE  \E i \in 1 .. Len(pending') : pending'[i] = a
    <3>1. CASE a = slot
      <4>1. Len(pending) + 1 \in 1 .. Len(pending')
        BY <1>2, <1>6
      <4> QED
        BY <1>6, <3>1, <4>1
    <3>2. CASE a \in Positioned
      <4>1. PICK k \in 1 .. Len(pending) : pending[k] = a
        BY <1>4, <2>4, <3>2 DEF OrderInv, QueueInv, Waits
      <4>2. k \in 1 .. Len(pending') /\ pending'[k] = a
        BY <1>2, <1>6, <4>1
      <4> QED
        BY <4>2
    <3> QED
      BY <1>3, <3>1, <3>2
  <2>5. QueueInv'
    BY <1>1, <1>11, <2>1, <2>2, <2>3, <2>4 DEF QueueInv, Waits
  <2> QED
    BY <1>5, <2>5 DEF OrderInv
<1>12. /\ \A b \in Heard : b < slot
       /\ \A i \in 1 .. Len(pending) : pending[i] < slot
  <2>1. Heard \subseteq Positioned
    BY <1>2 DEF Heard, Positioned, NotYet
  <2> QED
    BY <1>4, <1>6, <2>1
<1>13. ASSUME Plays!Accept(slot)
      PROVE  PlayoutStep
  <2>1. PICK a \in Actions : a = slot
    BY <1>2
  <2>2. Plays!Accept(a)
    BY <1>13, <2>1 DEF Plays!Accept
  <2>3. a \in Plays!Actions
    BY DEF Plays!Actions, Actions
  <2> QED
    BY <2>2, <2>3 DEF PlayoutStep, Plays!PlayoutNext
<1>14. CASE generated < written
  <2>1. CountsPassed(n, pending', begins', generated) /\ n \in 0 .. Len(pending')
    <3>1. begins'[pending'[Len(pending) + 1]] > generated
      BY <1>2, <1>3, <1>6, <1>14
    <3>2. ~(Len(pending) + 1 <= n)
      BY <1>2, <1>8
    <3>3. n \in 0 .. Len(pending')
      BY <1>2, <1>6, <1>8
    <3>4. ASSUME NEW i \in 1 .. Len(pending')
          PROVE  begins'[pending'[i]] <= generated <=> i <= n
      <4>1. CASE i \in 1 .. Len(pending)
        BY <1>9, <4>1
      <4>2. CASE i = Len(pending) + 1
        BY <1>2, <1>3, <1>6, <1>14, <3>1, <3>2, <4>2
      <4> QED
        BY <1>7, <4>1, <4>2
    <3> QED
      BY <3>3, <3>4 DEF CountsPassed
  <2>2. Due' = Append(Due, slot)
    <3>1. Due' = SubSeq(pending', n + 1, Len(pending'))
      BY <1>1, <1>6, <2>1, UnreachedIs DEF Due
    <3> QED
      BY <1>1, <1>2, <1>8, <1>10, <3>1, AppendUnreached
  <2>3. Heard' = Heard
    <3>1. ASSUME NEW a \in Actions PROVE begins'[a] \in 0 .. generated <=> begins[a] \in 0 .. generated
      <4>1. CASE a = slot
        BY <1>2, <1>3, <1>14, <4>1 DEF NotYet
      <4>2. CASE a # slot
        BY <1>3, <4>2
      <4> QED
        BY <4>1, <4>2
    <3> QED
      BY <1>1, <3>1 DEF Heard
  <2>4. \A i \in DOMAIN Due : Due[i] < slot
    <3>1. /\ Due \in Seq(Actions) /\ Len(Due) = Len(pending) - n
          /\ \A i \in 1 .. Len(pending) - n : Due[i] = pending[n + i]
      BY <1>2, <1>8, <1>10, SubSeqToEnd
    <3>2. DOMAIN Due = 1 .. Len(pending) - n
      BY <3>1
    <3>3. \A i \in 1 .. Len(pending) - n : n + i \in 1 .. Len(pending)
      BY <1>2, <1>8
    <3> QED
      BY <1>12, <3>1, <3>2, <3>3
  <2>5. Plays!Accept(slot)
    BY <1>1, <1>12, <2>2, <2>3, <2>4 DEF Plays!Accept, Heard, Due
  <2>6. PlayoutStep
    BY <1>13, <2>5
  <2> QED
    BY <1>11, <2>1, <2>6
<1>15. CASE generated = written
  <2>1. n = Len(pending)
    <3>1. ASSUME n < Len(pending) PROVE FALSE
      <4>1. Len(pending) \in 1 .. Len(pending) /\ ~(Len(pending) <= n)
        BY <1>2, <1>8, <3>1
      <4>2. ~(begins[pending[Len(pending)]] <= generated)
        BY <1>8, <4>1 DEF CountsPassed
      <4>3. begins[pending[Len(pending)]] < written /\ begins[pending[Len(pending)]] \in 0 .. written
        BY <1>4, <1>6, <4>1
      <4> QED
        BY <1>2, <1>15, <4>2, <4>3
    <3> QED
      BY <1>2, <1>8, <3>1
  <2>2. /\ CountsPassed(Len(pending'), pending', begins', generated)
        /\ Len(pending') \in 0 .. Len(pending')
    <3>1. \A i \in 1 .. Len(pending') : begins'[pending'[i]] <= generated
      BY <1>2, <1>3, <1>4, <1>6, <1>7, <1>15
    <3> QED
      BY <1>2, <1>6, <3>1 DEF CountsPassed
  <2>3. Due = <<>> /\ Due' = <<>>
    <3>1. Due = SubSeq(pending, Len(pending) + 1, Len(pending))
      BY <1>10, <2>1
    <3>2. Due' = SubSeq(pending', Len(pending') + 1, Len(pending'))
      <4>1. Unreached(pending', begins', generated)
                = SubSeq(pending', Len(pending') + 1, Len(pending'))
        BY <1>6, <2>2, UnreachedIs
      <4> QED
        BY <1>1, <4>1 DEF Due
    <3>3. \A l \in Nat : l \in Int /\ l + 1 \in Int /\ l < l + 1
      OBVIOUS
    <3>4. Len(pending') \in Nat
      BY <1>2, <1>6
    <3> QED
      BY <1>2, <3>1, <3>2, <3>3, <3>4, SubSeqEmpty
  <2>4. Heard' = Heard \cup {slot}
    <3>1. ASSUME NEW a \in Actions
          PROVE  begins'[a] \in 0 .. generated <=> begins[a] \in 0 .. generated \/ a = slot
      BY <1>2, <1>3, <1>15
    <3> QED
      BY <1>1, <1>2, <3>1 DEF Heard
  <2>5. DOMAIN Due = {}
    BY <2>3
  <2>6. Plays!Accept(slot)
    BY <1>1, <1>12, <2>3, <2>4, <2>5 DEF Plays!Accept, Heard, Due
  <2>7. PlayoutStep
    BY <1>13, <2>6
  <2> QED
    BY <1>11, <2>2, <2>7
<1> QED
  BY <1>2, <1>14, <1>15

LEMMA OrderStep ==
    ASSUME StreamInv, StreamInv', OrderInv, [Next]_streamVars
    PROVE  OrderInv' /\ PlayoutStep
<1>1. StreamTypeOK /\ StreamTypeOK' /\ Distance /\ issued \in Nat /\ written \in Nat
  BY DEF StreamInv, StreamTypeOK
<1>2. current <= issued /\ (slot # None => current < slot) /\ current \in Nat
  BY <1>1, StreamConstants DEF OrderInv, PlacedInv, StreamTypeOK
<1>3. CASE Tick
  <2>1. UNCHANGED <<written, current, pending, begins, place, slot, issued, reported>>
    BY <1>3 DEF Tick, askVars, toldVars
  <2>2. CASE generated' = generated + 1
    BY <1>1, <2>1, <2>2, SampleReaches
  <2>3. CASE generated' = generated
    BY <1>1, <1>2, <2>1, <2>3, OrderKept
  <2> QED
    BY <1>3, <2>2, <2>3 DEF Tick
<1>4. CASE Post
  <2>1. /\ issued' = issued + 1 /\ slot' = issued + 1
        /\ UNCHANGED <<generated, written, current, pending, begins, place, reported>>
    BY <1>4 DEF Post, deviceVars, toldVars
  <2>2. issued' >= issued /\ current < slot'
    BY <1>1, <1>2, <2>1
  <2> QED
    BY <1>1, <2>1, <2>2, OrderKept
<1>5. CASE Stop \/ CheckKeep \/ WaitEnds \/ Fail
  <2>1. /\ UNCHANGED <<generated, written, current, pending, begins, slot, issued, reported>>
        /\ place' = place \/ place' \in {"write", "down"}
    BY <1>5 DEF Stop, CheckKeep, WaitEnds, Fail, deviceVars, clockVars, askVars, toldVars
  <2> QED
    BY <1>1, <1>2, <2>1, OrderKept
<1>6. CASE Look \/ (Pick /\ slot = None)
  <2>1. /\ UNCHANGED <<generated, written, current, pending, begins, slot, issued, reported>>
        /\ \/ place = "top" /\ place' \in {"ramp", "pick"}
           \/ place = "pick" /\ place' = "play"
    BY <1>6 DEF Look, Pick, deviceVars, clockVars, askVars, toldVars
  <2> QED
    BY <1>1, <1>2, <2>1, OrderKept
<1>7. CASE Write \/ Ramp
  <2>1. /\ UNCHANGED <<generated, current, pending, begins, slot, issued, reported>>
        /\ written' \in {written + Chunk, written + RampLen} /\ place' \in {"top", "wait"}
    BY <1>7 DEF Write, Ramp, deviceVars, clockVars, askVars, toldVars
  <2>2. written' > written
    BY <1>1, <2>1, StreamConstants
  <2> QED
    BY <1>1, <1>2, <2>1, <2>2, OrderKept
<1>8. CASE UNCHANGED streamVars
  <2>1. UNCHANGED <<generated, written, current, pending, begins, slot, issued, reported, place>>
    BY <1>8 DEF streamVars, deviceVars, askVars, toldVars
  <2> QED
    BY <1>1, <1>2, <2>1, OrderKept
<1> QED
  BY <1>1, <1>3, <1>4, <1>5, <1>6, <1>7, <1>8, BeginTells, PlayTells, PickAccepts DEF Next

LEMMA OrderInitially == Init => OrderInv /\ Plays!PlayoutInit
<1> SUFFICES ASSUME Init PROVE OrderInv /\ Plays!PlayoutInit
  OBVIOUS
<1>1. /\ generated = 0 /\ written = Buffer /\ pending = <<>> /\ reported = {} /\ current = 1
      /\ slot = None /\ issued = 1 /\ Len(pending) = 0
  BY DEF Init
<1>2. Positioned = {1} /\ begins[1] = 0 /\ \A a \in Actions : a # 1 => begins[a] = -1
  BY StreamConstants DEF Init, Positioned, NotYet
<1>3. PlacedInv
  BY <1>1, <1>2, StreamConstants DEF PlacedInv
<1>4. CountsPassed(0, pending, begins, generated) /\ 0 \in 0 .. Len(pending)
  BY <1>1 DEF CountsPassed
<1>5. QueueInv
  BY <1>1, <1>2, <1>4 DEF QueueInv
<1>6. Heard = {1}
  <2>1. 1 \in Actions /\ \A a \in Actions : begins[a] \in 0 .. 0 <=> a = 1
    BY <1>2, StreamConstants
  <2> QED
    BY <1>1, <2>1 DEF Heard
<1>7. Due = <<>>
  <2>1. pending \in Seq(Actions)
    BY <1>1
  <2>2. Due = SubSeq(pending, 0 + 1, Len(pending))
    BY <1>4, <2>1, UnreachedIs DEF Due
  <2>3. 0 + 1 \in Int /\ Len(pending) \in Int /\ Len(pending) < 0 + 1
    BY <1>1
  <2> QED
    BY <2>2, <2>3, SubSeqEmpty
<1>8. Plays!PlayoutInit
  BY <1>1, <1>6, <1>7, StreamConstants DEF Plays!PlayoutInit, Plays!Actions, Actions, Heard, Due
<1> QED
  BY <1>3, <1>5, <1>8 DEF OrderInv

\* The positions behind the clock: newer actions stand at later samples, and
\* pending holds, in that order, all that the device has not come to.
THEOREM OrderInvariant == Spec => []OrderInv
<1>1. StreamInv /\ StreamInv' /\ OrderInv /\ [Next]_streamVars => OrderInv'
  BY OrderStep
<1> QED
  BY <1>1, OrderInitially, StreamInvariant, PTL DEF Spec

\* On the sample clock, too, the stream implements Playout: replacements come
\* to the coils in the order in which they were picked, none that was written is
\* skipped, and on_started is called in that order and not before the sample,
\* for every size of chunk, buffer and FIFO.
THEOREM SamplesPlayInOrder == Spec => PlaysInOrder
<1>1. StreamInv /\ StreamInv' /\ OrderInv /\ [Next]_streamVars =>
          Plays!PlayoutNext \/ UNCHANGED Plays!playoutVars
  BY OrderStep DEF PlayoutStep, Plays!playoutVars, Heard, Due
<1> QED
  BY <1>1, OrderInitially, OrderInvariant, StreamInvariant, PTL
     DEF Spec, PlaysInOrder, Plays!PlayoutSpec, Plays!playoutVars
=============================================================================
