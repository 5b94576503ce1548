--------------------------- MODULE NIDAQmxBackend ---------------------------
(* NIDAQmxBackend of src/raft_control/backends.py: the thread that streams  *)
(* one continuous analog-output task, the replacement slot, the stop event, *)
(* and the amplifier-enable line.  A worker is named by the action that     *)
(* started it; its local variables are functions of that name.  The calls   *)
(* and callbacks are actions that HardwareControl joins with the            *)
(* controller's: Call... actions belong to the thread c that made the call. *)
EXTENDS ActionTypes, Sequences

CONSTANTS
    Faulty,             \* driver operations that may raise
    JoinTimeouts        \* TRUE: thread.join may give up before the worker ends

Fallible == {"enable", "disable", "open", "stream", "close", "zero"}

ASSUME FaultyAssumption == Faulty \subseteq Fallible /\ JoinTimeouts \in BOOLEAN

VARIABLES
    task,               \* self._task, as the worker that registered it
    slot,               \* self._replacement; its event is set exactly when this is not None
    stopEvent,          \* self._stop
    thread,             \* self._thread
    line,               \* amplifier-enable line: "released" (no task, low), "low", "high"
    reserved,           \* worker whose task holds the analog outputs in the driver
    output,             \* what the coils get: "zero" or "live"
    wpc,                \* where each worker is in run()
    current,            \* its local variables: current
    pending,            \*   pending, oldest first
    timing,             \*   started_at is not None
    keepSent,           \*   duration_sent
    failed,             \*   error is not None
    call,               \* where each caller is in enable() or stop()
    joining             \* the thread stop() waits for

lineVars == <<line>>
slotVars == <<task, slot, stopEvent, thread>>
coilVars == <<reserved, output>>
workVars == <<current, pending, timing, keepSent, failed>>
backCallVars == <<call, joining>>
backVars == <<slotVars, line, coilVars, wpc, workVars, backCallVars>>

WorkerPCs == {"none", "open", "fill", "begin", "top", "pick", "play", "switch", "keep",
              "write", "ramp", "finally", "close", "zero", "report", "exit", "dead"}

CallPCs == {"out", "initialized", "zeroed", "unreserved", "set", "grab", "join"}

Alive(w) == w \in Actions /\ wpc[w] \notin {"none", "dead"}

\* self._lock of the backend: enable() keeps it while it establishes zero.
BackendLockFree == \A c \in Callers : call[c] \notin {"zeroed", "unreserved"}

\* The driver gives the analog outputs to one task at a time: a worker's, or
\* the zero task that enable() has not closed yet.
OutputsFree == reserved = None /\ \A c \in Callers : call[c] # "zeroed"

BackendInit ==
    /\ task = None
    /\ slot = None
    /\ stopEvent = FALSE
    /\ thread = None
    /\ line = "low"
    /\ reserved = None
    /\ output = "zero"
    /\ wpc = [w \in Actions |-> "none"]
    /\ current = [w \in Actions |-> None]
    /\ pending = [w \in Actions |-> <<>>]
    /\ timing = [w \in Actions |-> FALSE]
    /\ keepSent = [w \in Actions |-> FALSE]
    /\ failed = [w \in Actions |-> FALSE]
    /\ call = [c \in Callers |-> "out"]
    /\ joining = [c \in Callers |-> None]

-----------------------------------------------------------------------------
CallMove(c, to) == call' = [call EXCEPT ![c] = to]

\* enable() first re-creates the line's task if close() released it.
CallInitialize(c) ==
    /\ call[c] = "out"
    /\ CallMove(c, "initialized")
    /\ line' = IF line = "released" THEN "low" ELSE line
    /\ UNCHANGED <<slotVars, coilVars, wpc, workVars, joining>>

\* Mutant: the line is raised over whatever the outputs hold.
CallWriteZero_Skips(c) ==
    /\ call[c] = "initialized"
    /\ BackendLockFree
    /\ OutputsFree
    /\ CallMove(c, "zeroed")
    /\ UNCHANGED <<slotVars, line, coilVars, wpc, workVars, joining>>

\* The known-safe zero, written before the line goes high.
CallWriteZero(c) ==
    /\ call[c] = "initialized"
    /\ BackendLockFree
    /\ OutputsFree
    /\ CallMove(c, "zeroed")
    /\ output' = "zero"
    /\ UNCHANGED <<slotVars, line, reserved, wpc, workVars, joining>>

CallCloseZero(c) ==
    /\ call[c] = "zeroed"
    /\ CallMove(c, "unreserved")
    /\ UNCHANGED <<slotVars, line, coilVars, wpc, workVars, joining>>

CallRaiseLine(c) ==
    /\ call[c] = "unreserved"
    /\ CallMove(c, "out")
    /\ line' = IF line = "released" THEN line ELSE "high"
    /\ UNCHANGED <<slotVars, coilVars, wpc, workVars, joining>>

\* The zero task cannot have the outputs a worker holds; or the driver fails.
CallEnableFails(c) ==
    /\ \/ call[c] = "initialized" /\ BackendLockFree /\ ~OutputsFree
       \/ call[c] \in {"initialized", "unreserved"} /\ "enable" \in Faulty
    /\ CallMove(c, "out")
    /\ UNCHANGED <<slotVars, line, coilVars, wpc, workVars, joining>>

CallLowerLine ==
    /\ BackendLockFree
    /\ line' = IF line = "high" THEN "low" ELSE line

-----------------------------------------------------------------------------
\* Mutant: a worker that has not registered its task yet is not told.
CallSetStop_IfRegistered(c) ==
    /\ call[c] = "set"
    /\ stopEvent' = (task # None)
    /\ CallMove(c, "grab")
    /\ UNCHANGED <<task, slot, thread, line, coilVars, wpc, workVars, joining>>

\* stop(): first the event,
CallSetStop(c) ==
    /\ call[c] = "set"
    /\ stopEvent' = TRUE
    /\ CallMove(c, "grab")
    /\ UNCHANGED <<task, slot, thread, line, coilVars, wpc, workVars, joining>>

\* Mutant: nobody is waited for.
CallGrabThread_Nobody(c) ==
    /\ call[c] = "grab"
    /\ CallMove(c, "join")
    /\ UNCHANGED <<slotVars, line, coilVars, wpc, workVars, joining>>

\* then the thread to wait for,
CallGrabThread(c) ==
    /\ call[c] = "grab"
    /\ joining' = [joining EXCEPT ![c] = thread]
    /\ CallMove(c, "join")
    /\ UNCHANGED <<slotVars, line, coilVars, wpc, workVars>>

\* Mutant: stop() does not wait.
Joined_AtOnce(c) == TRUE

\* which has ended, or takes longer than the timeout of join.
Joined(c) == ~Alive(joining[c]) \/ JoinTimeouts

CallStopReturns(c, to) ==
    /\ call[c] = "join"
    /\ Joined(c)
    /\ CallMove(c, to)
    /\ joining' = [joining EXCEPT ![c] = None]
    /\ UNCHANGED <<slotVars, coilVars, wpc, workVars>>

\* Second part of close(): lower and release the line, once.
CallReleaseLine(c) ==
    /\ BackendLockFree
    /\ line' = "released"
    /\ CallStopReturns(c, "out")

-----------------------------------------------------------------------------
\* Mutant: start() does not look at the last thread.
MayStart_Always == TRUE

MayStart == ~Alive(thread)

\* start(): forget the last stop and replacement, launch the worker of a.
CallStart(a) ==
    /\ MayStart
    /\ stopEvent' = FALSE
    /\ slot' = None
    /\ thread' = a
    /\ wpc' = [wpc EXCEPT ![a] = "open"]
    /\ current' = [current EXCEPT ![a] = a]
    /\ UNCHANGED <<task, line, coilVars, pending, timing, keepSent, failed, backCallVars>>

\* start() while the last worker lives raises.
CallStartRaises == ~MayStart /\ UNCHANGED backVars

\* Mutant: a replacement that is still waiting keeps its place.
CallReplace_FirstWins(a) ==
    /\ BackendLockFree
    /\ task # None
    /\ slot' = IF slot = None THEN a ELSE slot
    /\ UNCHANGED <<task, stopEvent, thread, line, coilVars, wpc, workVars, backCallVars>>

\* replace(): the slot holds one replacement, the latest.
CallReplace(a) ==
    /\ BackendLockFree
    /\ task # None
    /\ slot' = a
    /\ UNCHANGED <<task, stopEvent, thread, line, coilVars, wpc, workVars, backCallVars>>

\* replace() without a registered task raises.
CallReplaceRaises == BackendLockFree /\ task = None /\ UNCHANGED backVars

-----------------------------------------------------------------------------
Go(w, to) == wpc' = [wpc EXCEPT ![w] = to]

\* An exception in run() ends in its finally block.
Abort(w) ==
    /\ Go(w, "finally")
    /\ failed' = [failed EXCEPT ![w] = TRUE]
    /\ UNCHANGED <<current, pending, timing, keepSent>>

\* The task is created, configured and registered.
OpenTask(w) ==
    /\ wpc[w] = "open"
    /\ BackendLockFree
    /\ task' = w
    /\ Go(w, "fill")
    /\ UNCHANGED <<slot, stopEvent, thread, coilVars, workVars>>

OpenFails(w) ==
    /\ wpc[w] = "open"
    /\ "open" \in Faulty
    /\ Abort(w)
    /\ UNCHANGED <<slotVars, coilVars>>

\* The buffer is filled, which reserves the outputs, and the task started.
FillBuffer(w) ==
    /\ wpc[w] = "fill"
    /\ OutputsFree
    /\ reserved' = w
    /\ output' = "live"
    /\ Go(w, "begin")
    /\ UNCHANGED <<slotVars, workVars>>

\* The outputs are taken, or a write or the start fails, which may leave them
\* reserved.
FillFails(w) ==
    /\ wpc[w] = "fill"
    /\ \/ ~OutputsFree /\ UNCHANGED reserved
       \/ OutputsFree /\ "stream" \in Faulty /\ reserved' \in {None, w}
    /\ Abort(w)
    /\ UNCHANGED <<slotVars, output>>

\* on_started of the first action; with the controller's Started.
Begin(w) ==
    /\ wpc[w] = "begin"
    /\ timing' = [timing EXCEPT ![w] = TRUE]
    /\ Go(w, "top")
    /\ UNCHANGED <<slotVars, coilVars, current, pending, keepSent, failed>>

\* The loop condition.
CheckStop(w) ==
    /\ wpc[w] = "top"
    /\ Go(w, IF stopEvent THEN "ramp" ELSE "pick")
    /\ UNCHANGED <<slotVars, coilVars, workVars>>

\* Mutant: an empty slot is taken too.
HasReplacement_Always == TRUE

HasReplacement == slot # None

NothingToPick(w) ==
    /\ wpc[w] = "pick"
    /\ slot = None
    /\ Go(w, "play")
    /\ UNCHANGED <<slotVars, coilVars, workVars>>

\* Mutant: the clock of the old action runs on.
TakeOver_KeepsClock(w, a) ==
    /\ current' = [current EXCEPT ![w] = a]
    /\ pending' = [pending EXCEPT ![w] = Append(@, a)]
    /\ keepSent' = [keepSent EXCEPT ![w] = FALSE]
    /\ UNCHANGED <<timing, failed>>

\* Mutant: the newest pending action is reported first.
TakeOver_Jumps(w, a) ==
    /\ current' = [current EXCEPT ![w] = a]
    /\ pending' = [pending EXCEPT ![w] = <<a>> \o @]
    /\ timing' = [timing EXCEPT ![w] = FALSE]
    /\ keepSent' = [keepSent EXCEPT ![w] = FALSE]
    /\ UNCHANGED failed

\* Mutant: the replacement is not remembered as pending.
TakeOver_Forgets(w, a) ==
    /\ current' = [current EXCEPT ![w] = a]
    /\ timing' = [timing EXCEPT ![w] = FALSE]
    /\ keepSent' = [keepSent EXCEPT ![w] = FALSE]
    /\ UNCHANGED <<pending, failed>>

\* Mutant: duration_sent is not reset.
TakeOver_Silent(w, a) ==
    /\ current' = [current EXCEPT ![w] = a]
    /\ pending' = [pending EXCEPT ![w] = Append(@, a)]
    /\ timing' = [timing EXCEPT ![w] = FALSE]
    /\ UNCHANGED <<keepSent, failed>>

\* From the next chunk on a is what is written; its own clock starts when
\* the device gets there.
TakeOver(w, a) ==
    /\ current' = [current EXCEPT ![w] = a]
    /\ pending' = [pending EXCEPT ![w] = Append(@, a)]
    /\ timing' = [timing EXCEPT ![w] = FALSE]
    /\ keepSent' = [keepSent EXCEPT ![w] = FALSE]
    /\ UNCHANGED failed

PickReplacement(w) ==
    /\ wpc[w] = "pick"
    /\ HasReplacement
    /\ BackendLockFree
    /\ slot' = None
    /\ TakeOver(w, slot)
    /\ Go(w, "play")
    /\ UNCHANGED <<task, stopEvent, thread, coilVars>>

\* The device has reached the first sample of the oldest pending action.
DeviceReached(w) ==
    /\ wpc[w] = "play"
    /\ pending[w] # <<>>
    /\ Go(w, "switch")
    /\ UNCHANGED <<slotVars, coilVars, workVars>>

\* Its on_started; with the controller's Started.
Play(w) ==
    /\ wpc[w] = "switch"
    /\ pending[w] # <<>>
    /\ timing' = [timing EXCEPT ![w] = @ \/ Head(pending[w]) = current[w]]
    /\ pending' = [pending EXCEPT ![w] = Tail(@)]
    /\ Go(w, "play")
    /\ UNCHANGED <<slotVars, coilVars, current, keepSent, failed>>

\* The keep time of the current action is over.
KeepTimeOver(w) ==
    /\ wpc[w] = "play"
    /\ timing[w]
    /\ ~keepSent[w]
    /\ Go(w, "keep")
    /\ UNCHANGED <<slotVars, coilVars, workVars>>

\* Its on_duration; with the controller's DurationElapsed.
Keep(w) ==
    /\ wpc[w] = "keep"
    /\ keepSent' = [keepSent EXCEPT ![w] = TRUE]
    /\ Go(w, "write")
    /\ UNCHANGED <<slotVars, coilVars, current, pending, timing, failed>>

WriteChunk(w) ==
    /\ wpc[w] \in {"play", "write"}
    /\ Go(w, "top")
    /\ UNCHANGED <<slotVars, coilVars, workVars>>

\* A write of a chunk or of the ramp raises.
StreamFails(w) ==
    /\ wpc[w] \in {"play", "write", "ramp"}
    /\ "stream" \in Faulty
    /\ Abort(w)
    /\ UNCHANGED <<slotVars, coilVars>>

\* The ramp is written and played to its final zero, unless the deadline comes
\* first.
RampDown(w) ==
    /\ wpc[w] = "ramp"
    /\ output' \in {"zero", output}
    /\ Go(w, "finally")
    /\ UNCHANGED <<slotVars, reserved, workVars>>

\* Mutant: a finished task stays registered.
Unregister_Stale(w) ==
    /\ wpc[w] = "finally"
    /\ BackendLockFree
    /\ Go(w, "close")
    /\ UNCHANGED <<slotVars, coilVars, workVars>>

Unregister(w) ==
    /\ wpc[w] = "finally"
    /\ BackendLockFree
    /\ task' = None
    /\ Go(w, "close")
    /\ UNCHANGED <<slot, stopEvent, thread, coilVars, workVars>>

\* Mutant: the task is stopped and not closed.
FreedBy_Leak(w) == reserved

FreedBy(w) == IF reserved = w THEN None ELSE reserved

\* Stopping and closing the task frees the outputs; an exception is kept
\* if it is the first.
CloseTask(w) ==
    /\ wpc[w] = "close"
    /\ reserved' = FreedBy(w)
    /\ \/ UNCHANGED failed
       \/ "close" \in Faulty /\ failed' = [failed EXCEPT ![w] = TRUE]
    /\ Go(w, "zero")
    /\ UNCHANGED <<slotVars, output, current, pending, timing, keepSent>>

ZeroOutput(w) ==
    /\ wpc[w] = "zero"
    /\ OutputsFree
    /\ output' = "zero"
    /\ Go(w, "report")
    /\ UNCHANGED <<slotVars, reserved, workVars>>

\* The best-effort zero may fail silently.
ZeroFails(w) ==
    /\ wpc[w] = "zero"
    /\ ~OutputsFree \/ "zero" \in Faulty
    /\ Go(w, "report")
    /\ UNCHANGED <<slotVars, coilVars, workVars>>

\* Mutant: the stop event is not looked at.
DoneReason_NoStop(w) == IF failed[w] THEN "fault" ELSE "completed"

\* error or "stopped" if self._stop.is_set() else error; what a driver raises
\* has a text, an error without one would count as none.
DoneReason(w) ==
    IF failed[w] THEN "fault" ELSE IF stopEvent THEN "stopped" ELSE "completed"

\* on_done of the current action, with the controller's Done; then only the
\* end of the thread is left.
Report(w) ==
    /\ wpc[w] = "report"
    /\ Go(w, "exit")
    /\ current' = [current EXCEPT ![w] = None]
    /\ pending' = [pending EXCEPT ![w] = <<>>]
    /\ timing' = [timing EXCEPT ![w] = FALSE]
    /\ keepSent' = [keepSent EXCEPT ![w] = FALSE]
    /\ failed' = [failed EXCEPT ![w] = FALSE]
    /\ UNCHANGED <<slotVars, coilVars>>

Exit(w) ==
    /\ wpc[w] = "exit"
    /\ Go(w, "dead")
    /\ UNCHANGED <<slotVars, coilVars, workVars>>

\* The steps in which the worker calls nothing of the controller's.
SilentStep(w) ==
    \/ OpenTask(w) \/ OpenFails(w) \/ FillBuffer(w) \/ FillFails(w)
    \/ CheckStop(w) \/ NothingToPick(w) \/ PickReplacement(w)
    \/ DeviceReached(w) \/ KeepTimeOver(w)
    \/ WriteChunk(w) \/ StreamFails(w) \/ RampDown(w)
    \/ Unregister(w) \/ CloseTask(w) \/ ZeroOutput(w) \/ ZeroFails(w) \/ Exit(w)
-----------------------------------------------------------------------------
\* Type invariant.
BackendTypeOK ==
    /\ task \in Actions \cup {None}
    /\ slot \in Actions \cup {None}
    /\ stopEvent \in BOOLEAN
    /\ thread \in Actions \cup {None}
    /\ line \in {"released", "low", "high"}
    /\ reserved \in Actions \cup {None}
    /\ output \in {"zero", "live"}
    /\ wpc \in [Actions -> WorkerPCs]
    /\ current \in [Actions -> Actions \cup {None}]
    /\ pending \in [Actions -> Seq(Actions)]
    /\ timing \in [Actions -> BOOLEAN]
    /\ keepSent \in [Actions -> BOOLEAN]
    /\ failed \in [Actions -> BOOLEAN]
    /\ call \in [Callers -> CallPCs]
    /\ joining \in [Callers -> Actions \cup {None}]
=============================================================================
