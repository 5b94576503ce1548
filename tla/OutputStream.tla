---------------------------- MODULE OutputStream ----------------------------
(* The sample clock behind the worker of NIDAQmxBackend (backends.py, run): *)
(* what is written and what the device has generated, where each action's    *)
(* samples begin, keep times, and the ramp.  One unit of time is one sample. *)
(* HardwareControl has the threads around it and leaves these numbers out.   *)
EXTENDS ActionTypes, Integers, Sequences

CONSTANTS
    Chunk,              \* samples written in one turn of the loop
    Buffer,             \* samples in the host buffer, filled before the start
    Fifo,               \* samples the device may hold beyond that
    RampLen,            \* samples of the ramp to zero
    Slack,              \* samples in the quarter of a second added to the deadline
    Keep,               \* the keep time, in samples
    MaxSamples          \* bound: how many samples are written before the ramp

ASSUME StreamAssumption ==
    /\ {Chunk, Buffer, RampLen} \subseteq Nat \ {0}
    /\ {Fifo, Slack, Keep, MaxSamples} \subseteq Nat
    /\ Buffer % Chunk = 0
    /\ RampLen <= Buffer + Fifo

VARIABLES
    generated,          \* task.out_stream.total_samp_per_chan_generated, the clock
    starved,            \* the device has run out of samples
    written,            \* local variables of run(): written
    current,            \*   current
    pending,            \*   the actions in pending, oldest first
    begins,             \*   the position each has in pending, NotYet before
    seen,               \*   generated
    startedAt,          \*   started_at, NotYet for None
    keepSent,           \*   duration_sent
    deadline,           \*   deadline
    place,              \* where the worker is
    failed,             \* it has left by an exception
    slot,               \* self._replacement
    issued,             \* actions given to start() and replace()
    stopEvent,          \* self._stop
    reported,           \* actions whose on_started was called
    elapsed             \* actions whose on_duration was called

deviceVars == <<generated, starved>>
clockVars == <<startedAt, keepSent>>
askVars == <<slot, issued, stopEvent>>
toldVars == <<reported, elapsed>>
streamVars == <<deviceVars, written, current, pending, begins, seen, clockVars, deadline, place,
                failed, askVars, toldVars>>

NotYet == -1

\* The buffer is filled with the first action and the task has been started.
Init ==
    /\ generated = 0
    /\ starved = FALSE
    /\ written = Buffer
    /\ current = 1
    /\ pending = <<>>
    /\ begins = [a \in Actions |-> IF a = 1 THEN 0 ELSE NotYet]
    /\ seen = 0
    /\ startedAt = NotYet
    /\ keepSent = FALSE
    /\ deadline = NotYet
    /\ place = "begin"
    /\ failed = FALSE
    /\ slot = None
    /\ issued = 1
    /\ stopEvent = FALSE
    /\ reported = {}
    /\ elapsed = {}

-----------------------------------------------------------------------------
\* The device generates a sample, or finds none.
Tick ==
    /\ place # "down"
    /\ ~starved
    /\ \/ generated < written /\ generated' = generated + 1 /\ UNCHANGED starved
       \/ generated = written /\ starved' = TRUE /\ UNCHANGED generated
    /\ UNCHANGED <<written, current, pending, begins, seen, clockVars, deadline, place, failed,
                   askVars, toldVars>>

\* write_many_sample returns when the last of n samples has found room.
Fits(n) == ~starved /\ written + n <= generated + Buffer + Fifo

\* replace() and stop(), of other threads.
Post ==
    /\ place # "down"
    /\ issued < MaxActions
    /\ issued' = issued + 1
    /\ slot' = issued + 1
    /\ UNCHANGED <<deviceVars, written, current, pending, begins, seen, clockVars, deadline,
                   place, failed, stopEvent, toldVars>>

Stop ==
    /\ ~stopEvent
    /\ stopEvent' = TRUE
    /\ UNCHANGED <<deviceVars, written, current, pending, begins, seen, clockVars, deadline,
                   place, failed, slot, issued, toldVars>>

-----------------------------------------------------------------------------
Begin ==
    /\ place = "begin"
    /\ reported' = reported \cup {current}
    /\ startedAt' = generated
    /\ place' = "top"
    /\ UNCHANGED <<deviceVars, written, current, pending, begins, seen, keepSent, deadline,
                   failed, askVars, elapsed>>

\* The loop condition and the look at the device.
Look ==
    /\ place = "top"
    /\ IF stopEvent
       THEN place' = "ramp" /\ UNCHANGED seen
       ELSE place' = "pick" /\ seen' = generated
    /\ UNCHANGED <<deviceVars, written, current, pending, begins, clockVars, deadline, failed,
                   askVars, toldVars>>

\* A replacement begins where the next chunk will be written.
Pick ==
    /\ place = "pick"
    /\ place' = "play"
    /\ IF slot = None
       THEN UNCHANGED <<current, pending, begins, clockVars, slot>>
       ELSE /\ current' = slot
            /\ pending' = Append(pending, slot)
            /\ begins' = [begins EXCEPT ![slot] = written]
            /\ startedAt' = NotYet
            /\ keepSent' = FALSE
            /\ slot' = None
    /\ UNCHANGED <<deviceVars, written, seen, deadline, failed, issued, stopEvent, toldVars>>

\* Mutant: an action is reported as soon as it is the oldest that waits.
Reached_Early == pending # <<>>

\* The device had come to the oldest pending action when it was looked at.
Reached == pending # <<>> /\ seen >= begins[Head(pending)]

\* Mutant: the sign of the correction is wrong.
FirstSampleAt_Later(a) == generated - begins[a]

\* "Back-date to when the first sample was generated."
FirstSampleAt(a) == generated - (seen - begins[a])

Play ==
    /\ place = "play"
    /\ Reached
    /\ startedAt' = IF Head(pending) = current THEN FirstSampleAt(current) ELSE startedAt
    /\ reported' = reported \cup {Head(pending)}
    /\ pending' = Tail(pending)
    /\ UNCHANGED <<deviceVars, written, current, begins, seen, keepSent, deadline, place, failed,
                   askVars, elapsed>>

\* Time goes on when the device does not.
KeepTimeOver ==
    startedAt # NotYet /\ ~keepSent /\ (generated - startedAt >= Keep \/ starved)

\* The keep time of the current action is compared and perhaps reported.
CheckKeep ==
    /\ place = "play"
    /\ ~Reached
    /\ place' = "write"
    /\ \/ KeepTimeOver /\ keepSent' = TRUE /\ elapsed' = elapsed \cup {current}
       \/ (starved \/ ~KeepTimeOver) /\ UNCHANGED <<keepSent, elapsed>>
    /\ UNCHANGED <<deviceVars, written, current, pending, begins, seen, startedAt, deadline,
                   failed, askVars, reported>>

Write ==
    /\ place = "write"
    /\ Fits(Chunk)
    /\ written < MaxSamples
    /\ written' = written + Chunk
    /\ place' = "top"
    /\ UNCHANGED <<deviceVars, current, pending, begins, seen, clockVars, deadline, failed,
                   askVars, toldVars>>

\* Mutant: the deadline forgets the samples before the ramp.
Deadline_RampOnly == generated + RampLen + Slack

Deadline == generated + Buffer + RampLen + Slack

Ramp ==
    /\ place = "ramp"
    /\ Fits(RampLen)
    /\ written' = written + RampLen
    /\ deadline' = Deadline
    /\ place' = "wait"
    /\ UNCHANGED <<deviceVars, current, pending, begins, seen, clockVars, failed, askVars,
                   toldVars>>

\* What is not generated by then is discarded with the task.
WaitEnds ==
    /\ place = "wait"
    /\ generated >= written \/ generated >= deadline
    /\ place' = "down"
    /\ UNCHANGED <<deviceVars, written, current, pending, begins, seen, clockVars, deadline,
                   failed, askVars, toldVars>>

\* A device that has starved makes a write, or a look at it, raise.
Fail ==
    /\ starved
    /\ \/ place \in {"write", "ramp", "wait"}
       \/ place = "top" /\ ~stopEvent
    /\ place' = "down"
    /\ failed' = TRUE
    /\ UNCHANGED <<deviceVars, written, current, pending, begins, seen, clockVars, deadline,
                   askVars, toldVars>>

-----------------------------------------------------------------------------
Next ==
    \/ Tick \/ Post \/ Stop
    \/ Begin \/ Look \/ Pick \/ Play \/ CheckKeep \/ Write \/ Ramp \/ WaitEnds \/ Fail

Spec == Init /\ [][Next]_streamVars

-----------------------------------------------------------------------------
\* How many actions of a queue the device has come to: those at its head.
CountsPassed(n, queue, position, now) ==
    /\ n \in 0 .. Len(queue)
    /\ \A i \in 1 .. Len(queue) : position[queue[i]] <= now <=> i <= n

Unreached(queue, position, now) ==
    LET passed == CHOOSE n \in 0 .. Len(queue) : CountsPassed(n, queue, position, now)
    IN  SubSeq(queue, passed + 1, Len(queue))

\* The sample positions implement Playout: an action is heard from the
\* position at which it was written, whatever stands before it, and is
\* reported after that (pending, the comparison of generated and position).
Plays == INSTANCE Playout
    WITH heard <- {a \in Actions : begins[a] \in 0 .. generated},
         queue <- Unreached(pending, begins, generated)

PlaysInOrder == Plays!PlayoutSpec

\* An action whose keep time is reported as over has been on the coils for
\* that long, though its start was noticed late and the clock is back-dated;
\* only a device that has run dry is not looked at in between.
KeepTimeIsPlayed ==
    ~starved => \A a \in elapsed : begins[a] # NotYet /\ generated >= begins[a] + Keep

\* A stop that ends without an exception ends with the ramp's final zero:
\* "Stopping the task discards unplayed samples, so wait until the device has
\* generated the final zero."  The deadline suffices for a device FIFO that is
\* no longer than the ramp and the added quarter of a second.
RampIsPlayed ==
    Fifo <= RampLen + Slack /\ place = "down" /\ ~failed => generated = written
=============================================================================
