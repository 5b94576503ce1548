-------------------------- MODULE SimulatedControl --------------------------
(* FieldController with its SimulationBackend: caller threads against the    *)
(* polling threads of the simulation, of which several may live at once.     *)
EXTENDS FieldController, SimulationBackend

vars == <<ctlVars, simVars>>

Init == ControllerInit /\ SimInit

-----------------------------------------------------------------------------
\* Calls of the controller; the backend's enable() and disable() do nothing.

SimEnable(c) == Enable(c) /\ UNCHANGED simVars

SimEnableReturns(c) == EnableReturns(c) /\ UNCHANGED simVars

SimReject(c, valid) == Reject(c, valid) /\ UNCHANGED simVars

SimSendFirst(c) == AdmitFirst(c) /\ CallStart(Fresh)

SimSendReplacing(c) == AdmitReplacing(c) /\ CallReplace(Fresh)

SimStop(c, m, t) == StopBegin(c, m, t) /\ CallStop(c)

SimSetStop(c) == CallSetStop(c) /\ UNCHANGED ctlVars

SimStopReturns(c) == (StopReturns(c) \/ CloseReturns(c)) /\ CallStopReturns(c)

SimStopMark(c) == StopMark(c) /\ UNCHANGED simVars

\* close() goes on to the stop() of the backend's close().
SimDisableOff(c) ==
    /\ DisableOff(c)
    /\ IF op[c] = "close" THEN CallStop(c) ELSE UNCHANGED simVars

CallerStep(c) ==
    \/ SimEnableReturns(c)
    \/ SimSetStop(c) \/ SimStopReturns(c) \/ SimStopMark(c) \/ SimDisableOff(c)

CallBegin(c) ==
    \/ SimEnable(c)
    \/ \E valid \in Validity : SimReject(c, valid)
    \/ SimSendFirst(c) \/ SimSendReplacing(c)
    \/ \E m \in Methods, t \in Actions \cup {None} : SimStop(c, m, t)

-----------------------------------------------------------------------------
\* Steps of a worker, with the callbacks it makes.

WorkerBegins(w) == Begin(w) /\ Started(w)

WorkerKept(w) == Keep(w) /\ DurationElapsed(current[w])

\* Mutant: the controller is not told of a replacement's start.
WorkerSwitches_Silent(w) == Switch(w) /\ UNCHANGED ctlVars

WorkerSwitches(w) == Switch(w) /\ Started(taken[w])

WorkerReports(w) == Report(w) /\ Done(current[w], "stopped")

WorkerStep(w) ==
    /\ \/ SilentStep(w) /\ UNCHANGED ctlVars
       \/ WorkerBegins(w) \/ WorkerKept(w) \/ WorkerSwitches(w) \/ WorkerReports(w)
    /\ UNCHANGED call

-----------------------------------------------------------------------------
Next ==
    \/ \E c \in Callers : CallBegin(c) \/ CallerStep(c)
    \/ \E w \in Actions : WorkerStep(w)

Spec == Init /\ [][Next]_vars

\* Threads go on, and a lock that is released again and again is at last
\* granted to a thread that waits for it.
FairSpec ==
    /\ Spec
    /\ \A c \in Callers : SF_vars(CallerStep(c))
    /\ \A w \in Actions : SF_vars(WorkerStep(w))

-----------------------------------------------------------------------------
Workers == {w \in Actions : wpc[w] \notin {"none", "dead"}}

\* However many threads overlap, once the last has ended the output is zero.
QuietWhenIdle == Workers = {} => output = "zero"

\* The keep time of an action is over only after it has started, also when
\* two threads take turns with one slot.
KeepTimeAfterStart ==
    \A a \in Actions : "duration_elapsed" \in timestamps[a] => "started" \in timestamps[a]

\* All threads end after a stop, unless a new start clears the stop event.
StopEnds == stopEvent ~> Workers = {} \/ ~stopEvent
=============================================================================
