-------------------------- MODULE FieldController --------------------------
(* src/raft_control/controller.py: action records, the active action and    *)
(* the enable and stop flags, used by several threads at once.  Each        *)
(* "with self._lock" block is one step; a call that keeps the lock across    *)
(* backend work (enable) or releases it (stop, disable, close) is several.  *)
(* The backend is open here: its calls may return or raise, and its         *)
(* callbacks may come, in any order.  HardwareControl and SimulatedControl  *)
(* close the system with a real backend.                                    *)
EXTENDS ActionTypes

CONSTANTS
    Methods,            \* which of stop(), disable() and close() the callers use
    Validity            \* which requests they send: TRUE valid, FALSE invalid

ASSUME UsageAssumption ==
    /\ Methods \subseteq {"stop", "disable", "close"}
    /\ Validity \subseteq BOOLEAN

VARIABLES
    enabled,            \* self.enabled
    active,             \* self._active
    stopping,           \* self._stopping
    issued,             \* number of action identifiers handed out
    status,             \* record.status
    timestamps,         \* the Stamped keys of record.timestamps
    tail,               \* record.tail_active
    replacement,        \* record.replacement_action_id
    pc,                 \* where each caller is
    op,                 \* the public method it is in
    target              \* the local variable of stop()

recordVars == <<issued, status, timestamps, tail, replacement>>
callVars == <<pc, op, target>>
ctlVars == <<enabled, active, stopping, recordVars, callVars>>

CallerPCs == {"idle", "enabling", "stopping", "marking", "disabling", "closing"}

\* Mutant: a stop also marks a rejected record.
Settled_NotRejected == {"completed", "failed", "stopped"}

\* The statuses stop() leaves alone.
Settled == {"completed", "failed", "rejected", "stopped"}

\* The statuses whose timestamp tells apart what the current one does not.
Stamped == {"validated", "started", "duration_elapsed", "rejected"}

Recorded == 1 .. issued

\* enable() keeps self._lock while the backend works; every other holder
\* releases it within one step.
LockFree == \A c \in Callers : pc[c] # "enabling"

ControllerInit ==
    /\ enabled = FALSE
    /\ active = None
    /\ stopping = FALSE
    /\ issued = 0
    /\ status = [a \in Actions |-> "none"]
    /\ timestamps = [a \in Actions |-> {}]
    /\ tail = [a \in Actions |-> FALSE]
    /\ replacement = [a \in Actions |-> None]
    /\ pc = [c \in Callers |-> "idle"]
    /\ op = [c \in Callers |-> "none"]
    /\ target = [c \in Callers |-> None]

-----------------------------------------------------------------------------
\* _emit: the new status and its timestamp.
Emit(a, s) ==
    /\ status' = [status EXCEPT ![a] = s]
    /\ timestamps' = [timestamps EXCEPT ![a] = @ \cup ({s} \cap Stamped)]

Move(c, to) == pc' = [pc EXCEPT ![c] = to]

\* The call is over: its locals are gone.
Return(c) ==
    /\ Move(c, "idle")
    /\ op' = [op EXCEPT ![c] = "none"]
    /\ target' = [target EXCEPT ![c] = None]

\* enable() takes the lock and calls the backend.
Enable(c) ==
    /\ pc[c] = "idle"
    /\ LockFree
    /\ Move(c, "enabling")
    /\ op' = [op EXCEPT ![c] = "enable"]
    /\ UNCHANGED <<enabled, active, stopping, recordVars, target>>

EnableReturns(c) ==
    /\ pc[c] = "enabling"
    /\ enabled' = TRUE
    /\ Return(c)
    /\ UNCHANGED <<active, stopping, recordVars>>

EnableRaises(c) ==
    /\ pc[c] = "enabling"
    /\ Return(c)
    /\ UNCHANGED <<enabled, active, stopping, recordVars>>

-----------------------------------------------------------------------------
MaySend(c) ==
    /\ pc[c] = "idle"
    /\ LockFree
    /\ issued < MaxActions

\* The identifier the next record gets.
Fresh == issued + 1

MustReject(valid) == ~valid \/ ~enabled \/ stopping

\* send() of an invalid request, or while disabled or stopping.
Reject(c, valid) ==
    /\ MaySend(c)
    /\ MustReject(valid)
    /\ issued' = Fresh
    /\ Emit(Fresh, "rejected")
    /\ UNCHANGED <<enabled, active, stopping, tail, replacement, callVars>>

\* send() with nothing active: the caller of this action also starts the
\* backend, which may raise; the record and _active are written before that.
AdmitFirst(c) ==
    /\ MaySend(c)
    /\ ~MustReject(TRUE)
    /\ active = None
    /\ issued' = Fresh
    /\ active' = Fresh
    /\ status' = [status EXCEPT ![Fresh] = "queued"]
    /\ timestamps' = [timestamps EXCEPT ![Fresh] = {"validated"}]
    /\ UNCHANGED <<enabled, stopping, tail, replacement, callVars>>

\* Mutant: _active is not handed over.
ReplaceActive_KeepsOld(a) ==
    /\ UNCHANGED active
    /\ status' = [status EXCEPT ![a] = "queued", ![active] = "replaced"]
    /\ tail' = [tail EXCEPT ![active] = FALSE]
    /\ replacement' = [replacement EXCEPT ![active] = a]

\* _replace_active: the old record passes through "completed" to "replaced",
\* the new one, just queued, becomes active.
ReplaceActive(a) ==
    /\ active' = a
    /\ status' = [status EXCEPT ![a] = "queued", ![active] = "replaced"]
    /\ tail' = [tail EXCEPT ![active] = FALSE]
    /\ replacement' = [replacement EXCEPT ![active] = a]

\* send() while an action is active: likewise for backend.replace.
AdmitReplacing(c) ==
    /\ MaySend(c)
    /\ ~MustReject(TRUE)
    /\ active # None
    /\ issued' = Fresh
    /\ timestamps' = [timestamps EXCEPT ![Fresh] = {"validated"}]
    /\ ReplaceActive(Fresh)
    /\ UNCHANGED <<enabled, stopping, callVars>>

-----------------------------------------------------------------------------
\* First block of stop(), also as the first step of disable() and close():
\* m is the method, t the action that stop() names, or else the active one;
\* None, if anything is active, is an identifier that has no record.
StopBegin(c, m, t) ==
    /\ pc[c] = "idle"
    /\ LockFree
    /\ t \in (IF m = "stop" THEN Recorded \cup {active, None} ELSE {active})
    /\ stopping' = TRUE
    /\ Move(c, "stopping")
    /\ op' = [op EXCEPT ![c] = m]
    /\ target' = [target EXCEPT ![c] = t]
    /\ UNCHANGED <<enabled, active, recordVars>>

\* backend.stop() has returned.
StopReturns(c) ==
    /\ pc[c] = "stopping"
    /\ LockFree
    /\ stopping' = FALSE
    /\ Move(c, "marking")
    /\ UNCHANGED <<enabled, active, recordVars, op, target>>

\* Mutant: only the active action can be marked.
MarkStopped_OnlyActive(a) ==
    IF a # None /\ a = active /\ status[a] \notin Settled
    THEN Emit(a, "stopped")
    ELSE UNCHANGED <<status, timestamps>>

\* The named record, unless it has ended already.
MarkStopped(a) ==
    IF a # None /\ status[a] \notin Settled
    THEN Emit(a, "stopped")
    ELSE UNCHANGED <<status, timestamps>>

\* Last block of stop().
StopMark(c) ==
    /\ pc[c] = "marking"
    /\ LockFree
    /\ MarkStopped(target[c])
    /\ active' = None
    /\ IF op[c] = "stop"
       THEN Return(c)
       ELSE Move(c, "disabling") /\ UNCHANGED <<op, target>>
    /\ UNCHANGED <<enabled, stopping, issued, tail, replacement>>

\* Second part of disable(); close() goes on to backend.close().
DisableOff(c) ==
    /\ pc[c] = "disabling"
    /\ LockFree
    /\ enabled' = FALSE
    /\ IF op[c] = "close"
       THEN Move(c, "closing") /\ UNCHANGED <<op, target>>
       ELSE Return(c)
    /\ UNCHANGED <<active, stopping, recordVars>>

\* Mutant: enabled is cleared before the backend is asked.
DisableRaises_ClearsFirst(c) ==
    /\ pc[c] = "disabling"
    /\ LockFree
    /\ Return(c)
    /\ enabled' = FALSE
    /\ UNCHANGED <<active, stopping, recordVars>>

\* backend.disable() raised.
DisableRaises(c) ==
    /\ pc[c] = "disabling"
    /\ LockFree
    /\ Return(c)
    /\ UNCHANGED <<enabled, active, stopping, recordVars>>

CloseReturns(c) ==
    /\ pc[c] = "closing"
    /\ Return(c)
    /\ UNCHANGED <<enabled, active, stopping, recordVars>>

-----------------------------------------------------------------------------
\* _started: unconditional.
Started(a) ==
    /\ LockFree
    /\ Emit(a, "started")
    /\ UNCHANGED <<enabled, active, stopping, issued, tail, replacement, callVars>>

\* Mutant: the guard of _duration is dropped.
MayElapse_Always(a) == TRUE

\* A replaced action's keep time concerns nobody.
MayElapse(a) == active = a

\* _duration.
DurationElapsed(a) ==
    /\ LockFree
    /\ IF MayElapse(a)
       THEN /\ tail' = [tail EXCEPT ![a] = TRUE]
            /\ Emit(a, "duration_elapsed")
       ELSE UNCHANGED <<tail, status, timestamps>>
    /\ UNCHANGED <<enabled, active, stopping, issued, replacement, callVars>>

\* Mutant: the reason becomes the status.
DoneStatus_Raw(a, reason) == Emit(a, reason)

\* What _done makes of the record of a.
DoneStatus(a, reason) ==
    CASE reason = "fault" -> Emit(a, "failed")
      [] reason = "completed" /\ status[a] # "stopped" -> Emit(a, "completed")
      [] OTHER -> UNCHANGED <<status, timestamps>>

\* A replaced action that is no longer active needs nothing from _done.
Superseded(a) == active # a /\ status[a] = "replaced"

\* Mutant: a failure leaves _active alone.
ActiveAfterDone_IgnoresFault(a, reason) ==
    IF reason = "completed" /\ active = a THEN None ELSE active

ActiveAfterDone(a, reason) ==
    IF reason # "stopped" /\ active = a THEN None ELSE active

\* _done: "stopped" leaves status and _active to stop().
Done(a, reason) ==
    /\ LockFree
    /\ IF Superseded(a)
       THEN UNCHANGED <<active, status, timestamps, tail>>
       ELSE /\ tail' = [tail EXCEPT ![a] = FALSE]
            /\ DoneStatus(a, reason)
            /\ active' = ActiveAfterDone(a, reason)
    /\ UNCHANGED <<enabled, stopping, issued, replacement, callVars>>

-----------------------------------------------------------------------------
\* A backend has callbacks only for the actions it was given.
Admitted == {a \in Actions : "validated" \in timestamps[a]}

CallerAction(c) ==
    \/ Enable(c) \/ EnableReturns(c) \/ EnableRaises(c)
    \/ \E valid \in Validity : Reject(c, valid)
    \/ AdmitFirst(c) \/ AdmitReplacing(c)
    \/ \E m \in Methods, t \in Actions \cup {None} : StopBegin(c, m, t)
    \/ StopReturns(c) \/ StopMark(c)
    \/ DisableOff(c) \/ DisableRaises(c) \/ CloseReturns(c)

ControllerNext ==
    \/ \E c \in Callers : CallerAction(c)
    \/ \E a \in Admitted :
        \/ Started(a) \/ DurationElapsed(a)
        \/ \E reason \in DoneReasons : Done(a, reason)

ControllerSpec == ControllerInit /\ [][ControllerNext]_ctlVars
-----------------------------------------------------------------------------
\* Type invariant; identifiers beyond issued have no record yet.
ControllerTypeOK ==
    /\ enabled \in BOOLEAN
    /\ active \in Actions \cup {None}
    /\ stopping \in BOOLEAN
    /\ issued \in 0 .. MaxActions
    /\ status \in [Actions -> Statuses]
    /\ timestamps \in [Actions -> SUBSET Stamped]
    /\ tail \in [Actions -> BOOLEAN]
    /\ replacement \in [Actions -> Actions \cup {None}]
    /\ pc \in [Callers -> CallerPCs]
    /\ op \in [Callers -> {"none", "enable", "stop", "disable", "close"}]
    /\ target \in [Callers -> Actions \cup {None}]

\* The statuses of an action that may still produce output.
Live == {"queued", "started", "duration_elapsed"}

\* Whatever the order of late callbacks, concurrent stops and replacements,
\* _active never names an action that was rejected, replaced, stopped or
\* failed: the next send would "replace" an action that is already over
\* (_replace_active, _done and stop() each have to keep _active in step).
ActiveIsLive == active # None => status[active] \in Live

\* Replacements form chains: each action is replaced at most once, by a later
\* one that replaces no other, and the active action ends its chain
\* (replacement_action_id, which clients follow from action to action).
ReplacementChain ==
    /\ \A a \in Actions : replacement[a] # None =>
            a < replacement[a] /\ replacement[a] \in Admitted
    /\ \A a, b \in Actions :
            replacement[a] = replacement[b] /\ replacement[a] # None => a = b
    /\ active # None => replacement[active] = None

\* Only an action whose keep time is over and that nothing has replaced is in
\* its tail: a keep-time callback that comes after the replacement must not
\* revive the tail of the old record (_duration, _replace_active).
TailAfterKeepTime ==
    \A a \in Actions : tail[a] =>
        "duration_elapsed" \in timestamps[a] /\ replacement[a] = None

\* A rejected request is never queued, started or stopped afterwards, although
\* clients stop and poll its identifier like any other (send, stop).
RejectedIsFinal ==
    \A a \in Actions : "rejected" \in timestamps[a] =>
        status[a] = "rejected" /\ timestamps[a] = {"rejected"} /\ a # active
=============================================================================
