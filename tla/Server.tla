------------------------------- MODULE Server -------------------------------
(* src/raft_control/server.py: one thread per client connection, and the    *)
(* heartbeat watchdog, all calling one FieldController.  Messages are the    *)
(* requests the thread takes from its connection; a client may vanish        *)
(* between any two of them.  Of the backend only its failures matter here.   *)
EXTENDS FieldController

CONSTANTS
    Watchdog,           \* the watchdog's thread; the other callers serve clients
    DriverFails         \* TRUE: enabling and disabling the backend may raise

ASSUME ServerAssumption ==
    /\ Watchdog \in Callers
    /\ {"stop", "disable"} \subseteq Methods
    /\ DriverFails \in BOOLEAN

VARIABLES
    srv,                \* where each thread is in _client() or _watchdog()
    controls,           \* controls_hardware of each connection
    heartbeat           \* self._last_heartbeat: "none", "fresh", or older than
                        \* the timeout: "stale"

srvVars == <<srv, controls, heartbeat>>
vars == <<ctlVars, srvVars>>

Conns == Callers \ {Watchdog}

Init ==
    /\ ControllerInit
    /\ srv = [c \in Callers |-> IF c = Watchdog THEN "sleep" ELSE "gone"]
    /\ controls = [c \in Callers |-> FALSE]
    /\ heartbeat = "none"

Goto(c, to) == srv' = [srv EXCEPT ![c] = to]

\* serve_forever accepts a connection and gives it a thread.
Accept(c) ==
    /\ srv[c] = "gone"
    /\ Goto(c, "recv")
    /\ controls' = [controls EXCEPT ![c] = FALSE]
    /\ UNCHANGED <<ctlVars, heartbeat>>

\* The request of an open connection makes it a controlling one.
Control(c) ==
    /\ srv[c] = "recv"
    /\ controls' = [controls EXCEPT ![c] = TRUE]

-----------------------------------------------------------------------------
\* _dispatch.  Requests that only read (hello, status, recent) change nothing.

Heartbeat(c) ==
    /\ Control(c)
    /\ pc[c] = "idle"
    /\ heartbeat' = "fresh"
    /\ UNCHANGED <<ctlVars, srv>>

\* enable counts as a heartbeat; the controller is called after the client
\* lock is released.
EnableRequest(c) ==
    /\ Control(c)
    /\ pc[c] = "idle"
    /\ heartbeat' = "fresh"
    /\ Goto(c, "enable")
    /\ UNCHANGED ctlVars

EnableCall(c) ==
    /\ srv[c] = "enable"
    /\ Enable(c)
    /\ Goto(c, "recv")
    /\ UNCHANGED <<controls, heartbeat>>

SendRequest(c) ==
    /\ Control(c)
    /\ \/ \E valid \in Validity : Reject(c, valid)
       \/ AdmitFirst(c)
       \/ AdmitReplacing(c)
    /\ UNCHANGED <<srv, heartbeat>>

StopRequest(c, t) ==
    /\ Control(c)
    /\ StopBegin(c, "stop", t)
    /\ UNCHANGED <<srv, heartbeat>>

DisableRequest(c) ==
    /\ Control(c)
    /\ StopBegin(c, "disable", active)
    /\ UNCHANGED <<srv, heartbeat>>

-----------------------------------------------------------------------------
\* Mutant: every connection that ends is cleaned up after.
MustCleanUp_Always(c) == TRUE

\* Mutant: nor after one whose heartbeat somebody else has forgotten.
MustCleanUp_Watched(c) == controls[c] /\ heartbeat # "none"

\* "A read-only viewer must never stop the experiment when it exits."
MustCleanUp(c) == controls[c]

\* The connection is closed or breaks, at the latest when the answer is sent.
Disconnect(c) ==
    /\ srv[c] = "recv"
    /\ pc[c] = "idle"
    /\ Goto(c, IF MustCleanUp(c) THEN "forget" ELSE "gone")
    /\ UNCHANGED <<ctlVars, controls, heartbeat>>

\* The finally block of _client: forget the heartbeat, stop, disable.
ForgetHeartbeat(c) ==
    /\ srv[c] = "forget"
    /\ heartbeat' = "none"
    /\ Goto(c, "stop")
    /\ UNCHANGED <<ctlVars, controls>>

\* The watchdog calls the same two methods.
CallStop(c) ==
    /\ srv[c] = "stop"
    /\ StopBegin(c, "stop", active)
    /\ Goto(c, "disable")
    /\ UNCHANGED <<controls, heartbeat>>

\* Mutant: only the stop is made.
CallDisable_Skipped(c) ==
    /\ srv[c] = "disable"
    /\ pc[c] = "idle"
    /\ Goto(c, "disabled")
    /\ UNCHANGED <<ctlVars, controls, heartbeat>>

CallDisable(c) ==
    /\ srv[c] = "disable"
    /\ StopBegin(c, "disable", active)
    /\ Goto(c, "disabled")
    /\ UNCHANGED <<controls, heartbeat>>

\* Mutant: the thread ends while its call goes on.
CleanedUp_Early(c) ==
    /\ c # Watchdog
    /\ srv[c] = "disabled"
    /\ Goto(c, "gone")
    /\ UNCHANGED <<ctlVars, controls, heartbeat>>

CleanedUp(c) ==
    /\ c # Watchdog
    /\ srv[c] = "disabled"
    /\ pc[c] = "idle"
    /\ Goto(c, "gone")
    /\ UNCHANGED <<ctlVars, controls, heartbeat>>

-----------------------------------------------------------------------------
\* heartbeat_timeout_s passes without a new heartbeat.
Expire ==
    /\ heartbeat = "fresh"
    /\ heartbeat' = "stale"
    /\ UNCHANGED <<ctlVars, srv, controls>>

\* Mutant: the watchdog minds a running action only.
MustCutOff_Active == heartbeat = "stale" /\ active # None

MustCutOff == heartbeat = "stale"

\* _watchdog wakes up and finds the heartbeat too old; what arrives from then
\* on is not looked at again.
WatchdogFires ==
    /\ srv[Watchdog] = "sleep"
    /\ MustCutOff
    /\ Goto(Watchdog, "stop")
    /\ UNCHANGED <<ctlVars, controls, heartbeat>>

\* After stop and disable the heartbeat is forgotten, whatever it is now.
WatchdogForgets ==
    /\ srv[Watchdog] = "disabled"
    /\ pc[Watchdog] = "idle"
    /\ heartbeat' = "none"
    /\ Goto(Watchdog, "sleep")
    /\ UNCHANGED <<ctlVars, controls>>

-----------------------------------------------------------------------------
\* A call of the controller goes on.
CallGoesOn(c) ==
    /\ EnableReturns(c) \/ StopReturns(c) \/ StopMark(c) \/ DisableOff(c)
    /\ UNCHANGED srvVars

\* backend.enable or backend.disable raises.  A request is answered with the
\* error; the clean-up and the watchdog have no handler, and their threads end.
CallRaises(c) ==
    /\ DriverFails
    /\ EnableRaises(c) \/ DisableRaises(c)
    /\ Goto(c, IF srv[c] = "disabled" THEN "gone" ELSE srv[c])
    /\ UNCHANGED <<controls, heartbeat>>

BackendFails ==
    /\ \E a \in Admitted : Done(a, "fault")
    /\ UNCHANGED srvVars

\* What a thread does of itself.
ThreadStep(c) ==
    \/ EnableCall(c) \/ CallGoesOn(c) \/ CallRaises(c)
    \/ ForgetHeartbeat(c) \/ CallStop(c) \/ CallDisable(c) \/ CleanedUp(c)

Request(c) ==
    \/ Heartbeat(c) \/ EnableRequest(c) \/ SendRequest(c)
    \/ (\E t \in Actions \cup {None} : StopRequest(c, t))
    \/ DisableRequest(c)

WatchdogStep == WatchdogFires \/ WatchdogForgets

Next ==
    \/ \E c \in Conns : Accept(c) \/ Request(c) \/ Disconnect(c)
    \/ \E c \in Callers : ThreadStep(c)
    \/ WatchdogStep
    \/ Expire
    \/ BackendFails

Spec == Init /\ [][Next]_vars

\* Threads go on, and are granted a lock that is released again and again.
FairSpec ==
    /\ Spec
    /\ \A c \in Callers : SF_vars(ThreadStep(c))
    /\ WF_vars(WatchdogStep)

-----------------------------------------------------------------------------
\* Type invariant.
ServerTypeOK ==
    /\ srv \in [Callers -> {"recv", "enable", "forget", "stop", "disable", "disabled", "gone",
                            "sleep"}]
    /\ controls \in [Callers -> BOOLEAN]
    /\ heartbeat \in {"none", "fresh", "stale"}
    /\ \A c \in Conns : srv[c] # "sleep"
    /\ \A c \in Callers : pc[c] # "idle" => srv[c] \in {"recv", "disable", "disabled"}

\* Only a connection that has asked for it, or the watchdog, stops anything.
ViewersAreHarmless ==
    [][\A c \in Conns : pc[c] = "idle" /\ pc'[c] # "idle" => controls'[c]]_vars

NobodyLeft == \A c \in Conns : srv[c] = "gone"

\* When the last connection is gone and cleaned up after, nothing plays,
\* however the clean-ups, the requests of the others and the watchdog
\* interleave, and even if the driver then refuses to be disabled.
NothingPlaysUnattended == NobodyLeft => active = None

\* Likewise, and unless the driver refuses, the controller is disabled.
DisabledUnattended == NobodyLeft => ~enabled

\* Clients that have gone silent are cut off: the controller is disabled,
\* unless a newer heartbeat or enable comes first.  (What comes while the
\* watchdog is cutting off the last silence is forgotten with it.)
SilenceIsCutOff ==
    heartbeat = "stale" /\ srv[Watchdog] = "sleep" ~> ~enabled \/ heartbeat = "fresh"
=============================================================================
