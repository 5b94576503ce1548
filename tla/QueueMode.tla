------------------------------ MODULE QueueMode ------------------------------
(* scripts/field_control_gui.py with --queue: the handlers of the buttons    *)
(* and of the polling timer, all in the thread of the window, over a          *)
(* controller whose backend calls back at any time.  A call of a remote       *)
(* controller may raise, before it is carried out or after.  The heartbeats of  *)
(* the window are the server's business (Server).                             *)
EXTENDS FieldController, Sequences

CONSTANTS
    Gui,                \* the thread of the window
    Remote              \* TRUE: the controller is remote and every call may raise

ASSUME GuiAssumption ==
    /\ Callers = {Gui}
    /\ {"stop", "disable"} \subseteq Methods
    /\ Remote \in BOOLEAN

VARIABLES
    guiEnabled,         \* enabled
    activeId,           \* active_action_id
    activeStatus,       \* active_action_status, "none" for None
    queue,              \* queued_actions; of an action only its validity matters
    polls,              \* identifiers for which root.after will call poll_status
    handler,            \* what the thread is doing
    trouble             \* a call has raised in the window's thread since the last disable()

guiVars == <<guiEnabled, activeId, activeStatus, queue, polls, handler, trouble>>
vars == <<ctlVars, guiVars>>

Init ==
    /\ ControllerInit
    /\ guiEnabled = FALSE
    /\ activeId = None
    /\ activeStatus = "none"
    /\ queue = <<>>
    /\ polls = {}
    /\ handler = "none"
    /\ trouble = FALSE

\* Mutant: a started action does not count.
Running_QueuedOnly == {"queued"}

\* What an action that has not come to the end of its keep time reports.
Running == {"queued", "started"}

Free == handler = "none" /\ pc[Gui] = "idle"

\* A call raises; the handler shows the error and is over.
CallRaises ==
    /\ Remote
    /\ handler' = "none"
    /\ trouble' = TRUE

-----------------------------------------------------------------------------
PressEnable ==
    /\ Free
    /\ Enable(Gui)
    /\ handler' = "enable"
    /\ UNCHANGED <<guiEnabled, activeId, activeStatus, queue, polls, trouble>>

Enabled ==
    /\ handler = "enable"
    /\ EnableReturns(Gui)
    /\ \/ guiEnabled' = TRUE /\ handler' = "none" /\ UNCHANGED trouble
       \/ CallRaises /\ UNCHANGED guiEnabled
    /\ UNCHANGED <<activeId, activeStatus, queue, polls>>

\* A remote controller answers with the error, at which the client does not
\* look.
NotEnabled ==
    /\ handler = "enable"
    /\ EnableRaises(Gui)
    /\ handler' = "none"
    /\ guiEnabled' = (guiEnabled \/ Remote)
    /\ UNCHANGED <<activeId, activeStatus, queue, polls, trouble>>

-----------------------------------------------------------------------------
\* transmit_action: send() of the controller,
Transmit(valid) ==
    /\ \/ Reject(Gui, valid)
       \/ valid /\ (AdmitFirst(Gui) \/ AdmitReplacing(Gui))
    /\ handler' = "sent"
    /\ UNCHANGED trouble

TransmitRaises == CallRaises /\ UNCHANGED ctlVars

\* send() may raise after the record was made: a remote one for any reason, a
\* local one when the backend refuses the action, whose record stays queued.
SendMayRaise == Remote \/ status[issued] = "queued"

\* and then a look at the record, which may have changed since.
Transmitted ==
    /\ handler = "sent"
    /\ \/ /\ activeId' = issued
          /\ activeStatus' = status[issued]
          /\ polls' = polls \cup (IF status[issued] \in Running THEN {issued} ELSE {})
          /\ handler' = "none"
          /\ UNCHANGED trouble
       \/ /\ SendMayRaise
          /\ handler' = "none"
          /\ trouble' = TRUE
          /\ UNCHANGED <<activeId, activeStatus, polls>>
    /\ UNCHANGED <<ctlVars, guiEnabled, queue>>

\* send_action, bounded by the number of requests.
PressSend(valid) ==
    /\ Free
    /\ guiEnabled
    /\ issued + Len(queue) < MaxActions
    /\ IF activeStatus \in Running
       THEN queue' = Append(queue, valid) /\ UNCHANGED <<ctlVars, handler, trouble>>
       ELSE (Transmit(valid) \/ TransmitRaises) /\ UNCHANGED queue
    /\ UNCHANGED <<guiEnabled, activeId, activeStatus, polls>>

-----------------------------------------------------------------------------
\* Mutant: only a queued action is polled again.
PollAgain_QueuedOnly(s) == s = "queued"

PollAgain(s) == s \in Running

\* Mutant: a fresh action's end is waited for, not its keep time.
MayFollow_Completed(s) == s = "completed"

\* A queued action may follow one of status s.
MayFollow(s) == s = "duration_elapsed"

\* poll_status reads the record of the active action; a timer of an older
\* action is ignored.
Poll(a) ==
    /\ Free
    /\ a \in polls
    /\ IF a = activeId
       THEN /\ activeStatus' = status[a]
            /\ polls' = IF PollAgain(status[a]) THEN polls ELSE polls \ {a}
            /\ handler' = IF MayFollow(status[a]) /\ queue # <<>> THEN "next" ELSE "none"
       ELSE polls' = polls \ {a} /\ UNCHANGED <<activeStatus, handler>>
    /\ UNCHANGED <<ctlVars, guiEnabled, activeId, queue, trouble>>

PollRaises(a) ==
    /\ Free
    /\ a \in polls \cap {activeId}
    /\ CallRaises
    /\ polls' = polls \ {a}
    /\ UNCHANGED <<ctlVars, guiEnabled, activeId, activeStatus, queue>>

\* The oldest queued action is taken out and transmitted.
TransmitNext ==
    /\ handler = "next"
    /\ queue' = Tail(queue)
    /\ Transmit(Head(queue)) \/ TransmitRaises
    /\ UNCHANGED <<guiEnabled, activeId, activeStatus, polls>>

-----------------------------------------------------------------------------
\* What remains of the last action when stop_hardware or disable_hardware ends.
Reset ==
    /\ guiEnabled' = FALSE
    /\ activeId' = None
    /\ activeStatus' = "none"
    /\ UNCHANGED <<queue, polls>>

\* stop_hardware: the queue is cleared; stop(), then disable().
PressStop ==
    /\ Free
    /\ StopBegin(Gui, "stop", IF activeId = None THEN active ELSE activeId)
    /\ queue' = <<>>
    /\ handler' = "stop"
    /\ UNCHANGED <<guiEnabled, activeId, activeStatus, polls, trouble>>

StopGoesOn ==
    /\ handler = "stop"
    /\ StopBegin(Gui, "disable", active)
    /\ handler' = "disable"
    /\ UNCHANGED <<guiEnabled, activeId, activeStatus, queue, polls, trouble>>

\* Of a remote controller disable() may raise where stop() has not.
StopRaises ==
    /\ handler = "stop"
    /\ pc[Gui] = "idle"
    /\ CallRaises
    /\ Reset
    /\ UNCHANGED ctlVars

\* disable_hardware.
PressDisable ==
    /\ Free
    /\ StopBegin(Gui, "disable", active)
    /\ queue' = <<>>
    /\ handler' = "disable"
    /\ UNCHANGED <<guiEnabled, activeId, activeStatus, polls, trouble>>

\* Either call may raise before anything is done.
PressRaises ==
    /\ Free
    /\ CallRaises
    /\ queue' = <<>>
    /\ guiEnabled' = FALSE
    /\ activeId' = None
    /\ activeStatus' = "none"
    /\ UNCHANGED <<ctlVars, polls>>

\* The controller's stop() and disable(), up to the end of the latter.
CallGoesOn ==
    /\ handler \in {"stop", "disable"}
    /\ StopReturns(Gui) \/ StopMark(Gui)
    /\ UNCHANGED guiVars

Disabled ==
    /\ handler = "disable"
    /\ DisableOff(Gui)
    /\ handler' = "none"
    /\ trouble' \in {FALSE, Remote}
    /\ Reset

\* Of a local controller the exception ends the handler, of a remote one the
\* answer does not tell.
NotDisabled ==
    /\ handler = "disable"
    /\ DisableRaises(Gui)
    /\ handler' = "none"
    /\ IF Remote
       THEN Reset /\ UNCHANGED trouble
       ELSE trouble' = TRUE /\ UNCHANGED <<guiEnabled, activeId, activeStatus, queue, polls>>

-----------------------------------------------------------------------------
\* The callbacks of a backend as PlaysInOrder and SettledIsFinal of
\* HardwareControl have them: nothing more comes of an action when a later one
\* plays, or when it has ended.
BackendStep ==
    /\ \E a \in Admitted :
        /\ status[a] \notin Settled
        /\ \A b \in Admitted : b > a => "started" \notin timestamps[b]
        /\ \/ "started" \notin timestamps[a] /\ Started(a)
           \/ timestamps[a] \cap {"started", "duration_elapsed"} = {"started"} /\ DurationElapsed(a)
           \/ a = active /\ Done(a, "fault")
    /\ UNCHANGED guiVars

\* A handler that has begun goes on.
HandlerStep ==
    \/ Enabled \/ NotEnabled \/ Transmitted \/ TransmitNext
    \/ StopGoesOn \/ StopRaises \/ CallGoesOn \/ Disabled \/ NotDisabled

PollStep == \E a \in polls : Poll(a) \/ PollRaises(a)

Next ==
    \/ PressEnable \/ PressStop \/ PressDisable \/ PressRaises
    \/ \E valid \in Validity : PressSend(valid)
    \/ HandlerStep \/ PollStep \/ BackendStep

Spec == Init /\ [][Next]_vars

\* The window's event loop runs, and its timers come between the buttons.
FairSpec == Spec /\ WF_vars(HandlerStep) /\ SF_vars(PollStep)

-----------------------------------------------------------------------------
\* Queue mode never replaces an action before its keep time is over, though it
\* decides from the status it has read last, unless a call has raised ("submits
\* the next one when the active action reaches duration_elapsed").
QueueIsSequential ==
    [][\A a \in Actions :
        replacement[a] # replacement'[a] /\ ~trouble => "duration_elapsed" \in timestamps[a]]_vars

\* While the window takes an action for running, and so queues what is sent,
\* a timer is set that will look at it again; else the queue would only grow.
RunningIsPolled ==
    activeStatus \in Running /\ ~trouble => activeId \in polls

\* Once the keep time of a polled action is over the queue moves on, unless
\* the action ends otherwise or a call raises.
QueueMovesOn ==
    \A a \in Actions :
        activeId = a /\ a \in polls /\ status[a] = "duration_elapsed" /\ queue # <<>>
            ~> activeId # a \/ queue = <<>> \/ trouble \/ status[a] # "duration_elapsed"

\* README.md: "submits the next one when the active action reaches
\* `duration_elapsed`", also when it has reached it before the window looks at
\* it for the first time.
QueueNeverSticks ==
    \A a \in Actions :
        activeId = a /\ status[a] = "duration_elapsed" /\ queue # <<>>
            ~> activeId # a \/ queue = <<>> \/ trouble \/ status[a] # "duration_elapsed"
=============================================================================
