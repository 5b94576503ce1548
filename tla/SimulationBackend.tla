------------------------- MODULE SimulationBackend -------------------------
(* SimulationBackend of src/raft_control/backends.py: start() launches a     *)
(* thread and does not look at the last one, stop() sets an event and does   *)
(* not wait, and the thread polls a replacement slot without a lock.  A      *)
(* worker is named by the action that started it.  Calls are joined with     *)
(* the controller's by SimulatedControl.                                     *)
EXTENDS ActionTypes

VARIABLES
    stopEvent,          \* self._stop
    slot,               \* self._replacement
    event,              \* self._replacement_event
    output,             \* self.last_output: "zero" or "live"
    ramped,             \* self.ramped_to_zero
    wpc,                \* where each worker is in run()
    current,            \* its local variables: current
    taken,              \*   replacement
    keepSent,           \*   duration_sent
    call                \* where each caller is in stop()

postVars == <<stopEvent, slot, event>>
simOutVars == <<output, ramped>>
simWorkVars == <<current, taken, keepSent>>
simVars == <<postVars, simOutVars, wpc, simWorkVars, call>>

WorkerPCs == {"none", "begin", "wait", "write", "timer", "keep", "look", "take", "forget",
              "clear", "switch", "zero", "report", "dead"}

SimInit ==
    /\ stopEvent = FALSE
    /\ slot = None
    /\ event = FALSE
    /\ output = "zero"
    /\ ramped = FALSE
    /\ wpc = [w \in Actions |-> "none"]
    /\ current = [w \in Actions |-> None]
    /\ taken = [w \in Actions |-> None]
    /\ keepSent = [w \in Actions |-> FALSE]
    /\ call = [c \in Callers |-> "out"]

-----------------------------------------------------------------------------
\* start(): the stop event is cleared also under a thread that has not seen
\* it; the replacement event is not cleared.
CallStart(a) ==
    /\ stopEvent' = FALSE
    /\ slot' = None
    /\ wpc' = [wpc EXCEPT ![a] = "begin"]
    /\ current' = [current EXCEPT ![a] = a]
    /\ UNCHANGED <<event, simOutVars, taken, keepSent, call>>

\* replace(): setting the event later would only add wake-ups for an empty
\* slot.
CallReplace(a) ==
    /\ slot' = a
    /\ event' = TRUE
    /\ UNCHANGED <<stopEvent, simOutVars, wpc, simWorkVars, call>>

\* stop() has been called,
CallStop(c) ==
    /\ call' = [call EXCEPT ![c] = "set"]
    /\ UNCHANGED <<postVars, simOutVars, wpc, simWorkVars>>

\* sets the event,
CallSetStop(c) ==
    /\ call[c] = "set"
    /\ stopEvent' = TRUE
    /\ call' = [call EXCEPT ![c] = "done"]
    /\ UNCHANGED <<slot, event, simOutVars, wpc, simWorkVars>>

\* and returns.
CallStopReturns(c) ==
    /\ call[c] = "done"
    /\ call' = [call EXCEPT ![c] = "out"]
    /\ UNCHANGED <<postVars, simOutVars, wpc, simWorkVars>>

-----------------------------------------------------------------------------
Go(w, to) == wpc' = [wpc EXCEPT ![w] = to]

\* Mutant: the keep time is played out first.
CheckStop_PlaysOut(w) ==
    /\ wpc[w] = "wait"
    /\ Go(w, IF stopEvent /\ keepSent[w] THEN "zero" ELSE "write")
    /\ UNCHANGED <<postVars, simOutVars, simWorkVars>>

\* self._stop.wait(0.005)
CheckStop(w) ==
    /\ wpc[w] = "wait"
    /\ Go(w, IF stopEvent THEN "zero" ELSE "write")
    /\ UNCHANGED <<postVars, simOutVars, simWorkVars>>

WriteOutput(w) ==
    /\ wpc[w] = "write"
    /\ output' = "live"
    /\ Go(w, "timer")
    /\ UNCHANGED <<postVars, ramped, simWorkVars>>

\* The keep time is over, or not, or has been reported.
KeepTimeOver(w) ==
    /\ wpc[w] = "timer"
    /\ ~keepSent[w]
    /\ Go(w, "keep")
    /\ UNCHANGED <<postVars, simOutVars, simWorkVars>>

KeepTimeRuns(w) ==
    /\ wpc[w] = "timer"
    /\ Go(w, "look")
    /\ UNCHANGED <<postVars, simOutVars, simWorkVars>>

\* self._replacement_event.is_set()
Look(w) ==
    /\ wpc[w] = "look"
    /\ Go(w, IF event THEN "take" ELSE "wait")
    /\ UNCHANGED <<postVars, simOutVars, simWorkVars>>

\* The slot is read, emptied and its event cleared in three steps, between
\* which replace() may come.
Take(w) ==
    /\ wpc[w] = "take"
    /\ taken' = [taken EXCEPT ![w] = slot]
    /\ Go(w, "forget")
    /\ UNCHANGED <<postVars, simOutVars, current, keepSent>>

Forget(w) ==
    /\ wpc[w] = "forget"
    /\ slot' = None
    /\ Go(w, "clear")
    /\ UNCHANGED <<stopEvent, event, simOutVars, simWorkVars>>

Taken(w) == taken[w] # None

Clear(w) ==
    /\ wpc[w] = "clear"
    /\ event' = FALSE
    /\ Go(w, IF Taken(w) THEN "switch" ELSE "wait")
    /\ UNCHANGED <<stopEvent, slot, simOutVars, simWorkVars>>

\* Mutant: another thread has ramped already.
ZeroOutput_Once(w) ==
    /\ wpc[w] = "zero"
    /\ output' = IF ramped THEN output ELSE "zero"
    /\ ramped' = TRUE
    /\ Go(w, "report")
    /\ UNCHANGED <<postVars, simWorkVars>>

ZeroOutput(w) ==
    /\ wpc[w] = "zero"
    /\ output' = "zero"
    /\ ramped' = TRUE
    /\ Go(w, "report")
    /\ UNCHANGED <<postVars, simWorkVars>>

\* The callbacks: on_started of the first action,
Begin(w) ==
    /\ wpc[w] = "begin"
    /\ Go(w, "wait")
    /\ UNCHANGED <<postVars, simOutVars, simWorkVars>>

\* on_duration,
Keep(w) ==
    /\ wpc[w] = "keep"
    /\ keepSent' = [keepSent EXCEPT ![w] = TRUE]
    /\ Go(w, "look")
    /\ UNCHANGED <<postVars, simOutVars, current, taken>>

\* Mutant: the slot is read again, which the thread has emptied by now.
Switch_ReadsSlot(w) ==
    /\ wpc[w] = "switch"
    /\ current' = [current EXCEPT ![w] = slot]
    /\ keepSent' = [keepSent EXCEPT ![w] = FALSE]
    /\ taken' = [taken EXCEPT ![w] = None]
    /\ Go(w, "wait")
    /\ UNCHANGED <<postVars, simOutVars>>

\* on_started of a replacement,
Switch(w) ==
    /\ wpc[w] = "switch"
    /\ current' = [current EXCEPT ![w] = taken[w]]
    /\ keepSent' = [keepSent EXCEPT ![w] = FALSE]
    /\ taken' = [taken EXCEPT ![w] = None]
    /\ Go(w, "wait")
    /\ UNCHANGED <<postVars, simOutVars>>

\* and on_done, always with "stopped".
Report(w) ==
    /\ wpc[w] = "report"
    /\ Go(w, "dead")
    /\ current' = [current EXCEPT ![w] = None]
    /\ keepSent' = [keepSent EXCEPT ![w] = FALSE]
    /\ taken' = [taken EXCEPT ![w] = None]
    /\ UNCHANGED <<postVars, simOutVars>>

SilentStep(w) ==
    \/ CheckStop(w) \/ WriteOutput(w) \/ KeepTimeOver(w) \/ KeepTimeRuns(w)
    \/ Look(w) \/ Take(w) \/ Forget(w) \/ Clear(w) \/ ZeroOutput(w)
-----------------------------------------------------------------------------
\* Type invariant; a running worker plays an action.
SimTypeOK ==
    /\ stopEvent \in BOOLEAN
    /\ slot \in Actions \cup {None}
    /\ event \in BOOLEAN
    /\ output \in {"zero", "live"}
    /\ ramped \in BOOLEAN
    /\ wpc \in [Actions -> WorkerPCs]
    /\ current \in [Actions -> Actions \cup {None}]
    /\ taken \in [Actions -> Actions \cup {None}]
    /\ keepSent \in [Actions -> BOOLEAN]
    /\ call \in [Callers -> {"out", "set", "done"}]
    /\ \A w \in Actions : current[w] = None <=> wpc[w] \in {"none", "dead"}
=============================================================================
