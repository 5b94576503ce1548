-------------------------- MODULE HardwareControl --------------------------
(* FieldController with its NIDAQmxBackend: caller threads (server clients,  *)
(* the watchdog, the GUI) against the worker thread.                         *)
EXTENDS FieldController, NIDAQmxBackend

vars == <<ctlVars, backVars>>

Init == ControllerInit /\ BackendInit

-----------------------------------------------------------------------------
\* Calls of the controller.

CtlEnable(c) == Enable(c) /\ CallInitialize(c)

CtlEnableZero(c) == CallWriteZero(c) /\ UNCHANGED ctlVars

CtlEnableClose(c) == CallCloseZero(c) /\ UNCHANGED ctlVars

CtlEnableReturns(c) == CallRaiseLine(c) /\ EnableReturns(c)

CtlEnableRaises(c) == CallEnableFails(c) /\ EnableRaises(c)

CtlReject(c, valid) == Reject(c, valid) /\ UNCHANGED backVars

CtlSendFirst(c) == AdmitFirst(c) /\ (CallStart(Fresh) \/ CallStartRaises)

CtlSendReplacing(c) == AdmitReplacing(c) /\ (CallReplace(Fresh) \/ CallReplaceRaises)

CtlStop(c, m, t) ==
    /\ StopBegin(c, m, t)
    /\ CallMove(c, "set")
    /\ UNCHANGED <<slotVars, line, coilVars, wpc, workVars, joining>>

CtlSetStop(c) == CallSetStop(c) /\ UNCHANGED ctlVars

CtlGrabThread(c) == CallGrabThread(c) /\ UNCHANGED ctlVars

CtlStopReturns(c) == StopReturns(c) /\ CallStopReturns(c, "out") /\ UNCHANGED line

CtlStopMark(c) == StopMark(c) /\ UNCHANGED backVars

\* close() goes on to the stop() of the backend's own close().
CtlDisableOff(c) ==
    /\ DisableOff(c)
    /\ CallLowerLine
    /\ call' = IF op[c] = "close" THEN [call EXCEPT ![c] = "set"] ELSE call
    /\ UNCHANGED <<slotVars, coilVars, wpc, workVars, joining>>

CtlDisableRaises(c) == "disable" \in Faulty /\ DisableRaises(c) /\ UNCHANGED backVars

CtlCloseReturns(c) == CloseReturns(c) /\ CallReleaseLine(c)

\* A call in progress goes on.
CallerStep(c) ==
    \/ CtlEnableZero(c) \/ CtlEnableClose(c) \/ CtlEnableReturns(c) \/ CtlEnableRaises(c)
    \/ CtlSetStop(c) \/ CtlGrabThread(c) \/ CtlStopReturns(c) \/ CtlStopMark(c)
    \/ CtlDisableOff(c) \/ CtlDisableRaises(c) \/ CtlCloseReturns(c)

CallBegin(c) ==
    \/ CtlEnable(c)
    \/ \E valid \in Validity : CtlReject(c, valid)
    \/ CtlSendFirst(c) \/ CtlSendReplacing(c)
    \/ \E m \in Methods, t \in Actions \cup {None} : CtlStop(c, m, t)

-----------------------------------------------------------------------------
\* Steps of the worker, with the callbacks they make.

WorkerBegins(w) == Begin(w) /\ Started(w)

WorkerPlays(w) == Play(w) /\ Started(Head(pending[w]))

WorkerKept(w) == Keep(w) /\ DurationElapsed(current[w])

WorkerReports(w) == Report(w) /\ Done(current[w], DoneReason(w))

WorkerStep(w) ==
    \/ /\ SilentStep(w)
       /\ UNCHANGED ctlVars
    \/ WorkerBegins(w) \/ WorkerPlays(w) \/ WorkerKept(w) \/ WorkerReports(w)

-----------------------------------------------------------------------------
Next ==
    \/ \E c \in Callers : CallBegin(c) \/ CallerStep(c)
    \/ \E w \in Actions : WorkerStep(w) /\ UNCHANGED <<line, backCallVars>>

Spec == Init /\ [][Next]_vars

\* Threads that are not waiting for a lock or for the device go on; a lock
\* that is released again and again is at last granted to a thread that waits
\* for it; the device goes on playing and a finite keep time passes.
FairSpec ==
    /\ Spec
    /\ \A c \in Callers : SF_vars(CallerStep(c))
    /\ \A w \in Actions :
        /\ SF_vars(WorkerStep(w) /\ UNCHANGED <<line, backCallVars>>)
        /\ SF_vars(DeviceReached(w) /\ UNCHANGED <<ctlVars, line, backCallVars>>)
        /\ SF_vars(KeepTimeOver(w) /\ UNCHANGED <<ctlVars, line, backCallVars>>)

-----------------------------------------------------------------------------
Workers == {w \in Actions : Alive(w)}

\* At most one thread streams at any time, however sends, stops and failures
\* interleave: two workers would fight for the analog outputs.
OneWorker == \A v, w \in Workers : v = w

\* The registered task, which replace() trusts, and the reserved outputs
\* belong to the live thread that the backend will join.
OwnerIsLive ==
    /\ task # None => Alive(task) /\ thread = task
    /\ reserved # None => Alive(reserved) /\ thread = reserved

\* Streaming never completes by itself: on_done reports a stop or a fault,
\* and no record rests at "completed".
NeverCompleted == \A a \in Actions : status[a] # "completed"

\* Once the last worker is gone the coils carry nothing, whatever failed on
\* the way, unless the final zero write itself failed.
QuietWhenIdle == Workers = {} /\ "zero" \notin Faulty => output = "zero"

\* The amplifier is only on while the controller is enabled.
AmplifierImpliesEnabled == line = "high" => enabled

\* The amplifier is switched on only while the outputs are at zero, also
\* after a worker that failed to zero them.
AmplifierOnAtZero == [][line # "high" /\ line' = "high" => output = "zero"]_vars

\* A disabled controller streams nothing.
DisabledIsIdle == ~enabled => Workers = {}

\* In a burst of replacements the newest wins: what waits for a registered
\* worker is the active action, unless the worker has been told to stop.
NewestWins == task # None /\ slot # None => slot = active \/ stopEvent

\* What Playout speaks of.  The only live worker is the backend's thread
\* (OneWorker); it takes its oldest pending action in hand at "switch".
Reported == {a \in Actions : "started" \in timestamps[a]}

InHand == {w \in Actions : wpc[w] = "begin"} \cup
          {Head(pending[w]) : w \in {v \in Actions : wpc[v] = "switch"}}

Queued ==
    IF ~Alive(thread) THEN <<>>
    ELSE IF wpc[thread] = "switch" THEN Tail(pending[thread]) ELSE pending[thread]

Plays == INSTANCE Playout
    WITH heard <- Reported \cup InHand, queue <- Queued, reported <- Reported

\* The detailed system implements Playout: over sends that overtake each
\* other, stops and restarts, actions reach the coils oldest first, none that
\* was written is skipped, and each is reported at most once and not before it
\* is there (the pending list of run(), and what start() forgets).
PlaysInOrder == Plays!PlayoutSpec

\* The keep time of an action is over only after its output has begun.
KeepTimeAfterStart ==
    \A a \in Actions : "duration_elapsed" \in timestamps[a] => "started" \in timestamps[a]

\* stop() returns after the worker is gone, so no callback comes late: a
\* record that has failed or was stopped or rejected keeps that status.
SettledIsFinal ==
    [][\A a \in Actions : status[a] \in Settled => status'[a] = status[a]]_vars

\* With nothing active the worker has made its last callback, so a start() is
\* refused for no longer than a thread takes to end.
InactiveIsOver == active = None => \A w \in Workers : wpc[w] = "exit"

\* Unless it is being stopped, the active action is in the hands of a live
\* worker: played, about to be played, or posted for it.
ActiveIsCarried ==
    active # None /\ ~stopEvent => \E w \in Workers : active \in {current[w], slot}

-----------------------------------------------------------------------------
\* Every call returns, stop() and close(), which goes through disable(): the
\* worker's last callbacks need the controller's lock while stop() waits for
\* the worker.
CallsReturn == \A c \in Callers : pc[c] # "idle" ~> pc[c] = "idle"

\* A posted replacement starts, unless a newer one takes its place or the
\* stream is stopped or fails.
ReplacementStarts ==
    \A a \in Actions :
        slot = a ~> \/ "started" \in timestamps[a]
                    \/ slot \notin {a, None} \/ stopEvent \/ task = None

\* The end of the keep time of the action that plays is reported, unless it
\* is replaced or stopped first.
KeepTimeReported ==
    \A a \in Actions :
        active = a /\ status[a] = "started"
            ~> "duration_elapsed" \in timestamps[a] \/ active # a \/ stopEvent

\* The action a stop() names, or else the active one, ends for good.
StoppedForGood ==
    \A c \in Callers, a \in Actions :
        pc[c] = "stopping" /\ target[c] = a ~> [](status[a] \in Settled)
=============================================================================
