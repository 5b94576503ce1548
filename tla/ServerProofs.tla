---------------------------- MODULE ServerProofs ----------------------------
(* The server's threads use the controller as any callers may, so what is    *)
(* proved of FieldController holds of it for every number of clients.        *)
EXTENDS Server, FieldControllerProofs

USE ServerAssumption DEF ServerAssumption, Conns

-----------------------------------------------------------------------------
\* Every request, clean-up and watchdog step is a call of the controller, or
\* nothing to it.
LEMMA ServerStepRefines ==
    ASSUME ControllerTypeOK, [Next]_vars
    PROVE  [ControllerNext]_ctlVars
  <1>0. active \in Actions \cup {None}
    BY DEF ControllerTypeOK
  <1>1. ASSUME NEW c \in Callers, Request(c) PROVE CallerAction(c) \/ UNCHANGED ctlVars
    <2>1. CASE SendRequest(c)
      BY <2>1 DEF SendRequest, CallerAction
    <2>2. ASSUME NEW t \in Actions \cup {None}, StopRequest(c, t) PROVE CallerAction(c)
      BY <2>2 DEF StopRequest, CallerAction
    <2>3. CASE DisableRequest(c)
      BY <1>0, <2>3 DEF DisableRequest, CallerAction
    <2>4. CASE Heartbeat(c) \/ EnableRequest(c)
      BY <2>4 DEF Heartbeat, EnableRequest
    <2> QED
      BY <1>1, <2>1, <2>2, <2>3, <2>4 DEF Request
  <1>2. ASSUME NEW c \in Callers, ThreadStep(c) PROVE CallerAction(c) \/ UNCHANGED ctlVars
    <2>1. CASE CallStop(c) \/ CallDisable(c)
      BY <1>0, <2>1 DEF CallStop, CallDisable, CallerAction
    <2>2. CASE EnableCall(c) \/ CallGoesOn(c) \/ CallRaises(c)
      BY <2>2 DEF EnableCall, CallGoesOn, CallRaises, CallerAction
    <2>3. CASE ForgetHeartbeat(c) \/ CleanedUp(c)
      BY <2>3 DEF ForgetHeartbeat, CleanedUp
    <2> QED
      BY <1>2, <2>1, <2>2, <2>3 DEF ThreadStep
  <1>3. CASE BackendFails
    BY <1>3 DEF BackendFails, ControllerNext, DoneReasons
  <1>4. ASSUME NEW c \in Callers, Accept(c) \/ Disconnect(c) PROVE UNCHANGED ctlVars
    BY <1>4 DEF Accept, Disconnect
  <1>5. CASE WatchdogStep \/ Expire
    BY <1>5 DEF WatchdogStep, WatchdogFires, WatchdogForgets, Expire
  <1>6. CASE UNCHANGED vars
    BY <1>6 DEF vars
  <1> QED
    BY <1>1, <1>2, <1>3, <1>4, <1>5, <1>6 DEF Next, ControllerNext

\* The server, with any number of clients, keeps to the controller's
\* specification.
THEOREM ServerImplementsController == Spec => ControllerSpec
  <1>1. Init => ControllerInit /\ ControllerTypeOK
    BY InitTyped DEF Init
  <1>2. ControllerTypeOK /\ [Next]_vars => [ControllerNext]_ctlVars /\ ControllerTypeOK'
    BY ServerStepRefines, StepTyped
  <1> QED
    BY <1>1, <1>2, PTL DEF Spec, ControllerSpec

\* Under any number of clients and a watchdog that cuts them off, _active
\* names an action that is not over.
THEOREM ServerActiveIsLive == Spec => []ActiveIsLive
  BY ServerImplementsController, ActiveIsAlwaysLive, PTL

\* The clients' records form replacement chains.
THEOREM ServerChains == Spec => []ReplacementChain
  BY ServerImplementsController, ReplacementsAreChains, PTL

-----------------------------------------------------------------------------
\* A thread is busy with a call of the controller only where it makes one.
LEMMA ServerTypeKept == ControllerTypeOK /\ ServerTypeOK /\ [Next]_vars => ServerTypeOK'
  <1> SUFFICES ASSUME ControllerTypeOK, ServerTypeOK, [Next]_vars PROVE ServerTypeOK'
    OBVIOUS
  <1> USE DEF ServerTypeOK, Goto, ControllerTypeOK
  <1>1. ASSUME NEW c \in Conns, Request(c) PROVE ServerTypeOK'
    <2>1. CASE Heartbeat(c) \/ EnableRequest(c)
      BY <2>1 DEF Heartbeat, EnableRequest, Control, ctlVars, callVars
    <2>2. CASE SendRequest(c)
      BY <2>2 DEF SendRequest, Control, Reject, AdmitFirst, AdmitReplacing, callVars
    <2>3. CASE DisableRequest(c) \/ \E t \in Actions \cup {None} : StopRequest(c, t)
      BY <2>3 DEF StopRequest, DisableRequest, Control, StopBegin, Move
    <2> HIDE DEF ServerTypeOK
    <2> QED
      BY <1>1, <2>1, <2>2, <2>3 DEF Request
  <1>2. ASSUME NEW c \in Callers, ThreadStep(c) PROVE ServerTypeOK'
    <2>1. CASE CallStop(c) \/ CallDisable(c)
      BY <2>1 DEF CallStop, CallDisable, StopBegin, Move
    <2>2. CASE EnableCall(c)
      BY <2>2 DEF EnableCall, Enable, Move
    <2>3. CASE CallGoesOn(c)
      BY <2>3 DEF CallGoesOn, EnableReturns, StopReturns, StopMark, DisableOff, Return, Move,
         srvVars
    <2>4. CASE CallRaises(c)
      BY <2>4 DEF CallRaises, EnableRaises, DisableRaises, Return, Move
    <2>5. CASE ForgetHeartbeat(c) \/ CleanedUp(c)
      BY <2>5 DEF ForgetHeartbeat, CleanedUp, ctlVars, callVars
    <2> HIDE DEF ServerTypeOK
    <2> QED
      BY <1>2, <2>1, <2>2, <2>3, <2>4, <2>5 DEF ThreadStep
  <1>3. CASE BackendFails
    BY <1>3 DEF BackendFails, Done, srvVars, callVars
  <1>4. ASSUME NEW c \in Conns, Accept(c) \/ Disconnect(c) PROVE ServerTypeOK'
    BY <1>4 DEF Accept, Disconnect, ctlVars, callVars
  <1>5. CASE WatchdogStep \/ Expire
    BY <1>5 DEF WatchdogStep, WatchdogFires, WatchdogForgets, Expire, ctlVars, callVars
  <1>6. CASE UNCHANGED vars
    BY <1>6 DEF vars, ctlVars, callVars, srvVars
  <1> HIDE DEF ServerTypeOK
  <1> QED
    BY <1>1, <1>2, <1>3, <1>4, <1>5, <1>6 DEF Next

\* Types of the server's state; no thread waits for a request or sleeps while
\* its clean-up's call still runs.
THEOREM ServerTyping == Spec => []ServerTypeOK
  <1>1. Init => ControllerTypeOK /\ ServerTypeOK
    BY InitTyped DEF Init, ControllerInit, ServerTypeOK
  <1>2. ControllerTypeOK /\ ServerTypeOK /\ [Next]_vars => ControllerTypeOK' /\ ServerTypeOK'
    BY ServerTypeKept, ServerStepRefines, StepTyped
  <1> QED
    BY <1>1, <1>2, PTL DEF Spec
-----------------------------------------------------------------------------
\* Who has asked for something is known to have done so, and the last call of
\* a clean-up is disable().
ThreadsInOrder ==
    /\ \A c \in Conns : (srv[c] \notin {"recv", "gone"} \/ pc[c] # "idle") => controls[c]
    /\ \A c \in Callers : pc[c] = "enabling" => srv[c] = "recv"
    /\ \A c \in Callers : srv[c] = "disabled" /\ pc[c] # "idle" => op[c] = "disable"
    /\ srv[Watchdog] \notin {"recv", "enable", "forget"}

\* The clean-up of c, at the latest, has a step of its disable() still to make.
Owes(c, steps) ==
    /\ controls[c]
    /\ \/ srv[c] \in {"recv", "enable", "forget", "stop", "disable"}
       \/ srv[c] = "disabled" /\ pc[c] \in steps

OwesStop(c) == Owes(c, {"stopping", "marking"})

OwesDisable(c) == Owes(c, {"stopping", "marking", "disabling"})

\* Whatever plays, and whoever enabled, somebody still has to end it.
ServerInv ==
    /\ ControllerTypeOK
    /\ ServerTypeOK
    /\ ThreadsInOrder
    /\ active # None => \E c \in Conns : OwesStop(c)
    /\ enabled /\ ~DriverFails => \E c \in Conns : OwesDisable(c)

\* What a step has to do to keep the two debts.
Settles ==
    /\ \A c \in Conns : OwesStop(c) => OwesStop(c)' \/ active' = None
    /\ active' # None => active # None \/ \E c \in Conns : OwesStop(c)'
    /\ \A c \in Conns : OwesDisable(c) => OwesDisable(c)' \/ ~enabled' \/ DriverFails
    /\ enabled' => enabled \/ \E c \in Conns : OwesDisable(c)'

LEMMA SettlesKeeps ==
    ASSUME ServerInv, ControllerTypeOK', ServerTypeOK', ThreadsInOrder', Settles
    PROVE  ServerInv'
  <1>1. active' # None => \E c \in Conns : OwesStop(c)'
    BY DEF ServerInv, Settles
  <1>2. enabled' /\ ~DriverFails => \E c \in Conns : OwesDisable(c)'
    BY DEF ServerInv, Settles, ControllerTypeOK
  <1> QED
    BY <1>1, <1>2 DEF ServerInv

\* Requests: who sends or enables is still connected.
LEMMA RequestSettles ==
    ASSUME ServerInv, NEW c \in Conns, Request(c)
    PROVE  ThreadsInOrder' /\ Settles
  <1> USE DEF ServerInv, ControllerTypeOK, ServerTypeOK, ThreadsInOrder, Settles, Owes, OwesStop,
              OwesDisable, Goto, Control
  <1>1. CASE Heartbeat(c) \/ EnableRequest(c)
    BY <1>1 DEF Heartbeat, EnableRequest, ctlVars, callVars
  <1>2. CASE SendRequest(c)
    <2>1. UNCHANGED <<enabled, callVars, srv, heartbeat>> /\ Control(c)
      BY <1>2 DEF SendRequest, Reject, AdmitFirst, AdmitReplacing
    <2> QED
      BY <2>1 DEF callVars
  <1>3. CASE DisableRequest(c) \/ \E t \in Actions \cup {None} : StopRequest(c, t)
    <2>1. /\ pc[c] = "idle" /\ pc' = [pc EXCEPT ![c] = "stopping"]
          /\ UNCHANGED <<enabled, active, srv>> /\ Control(c)
          /\ \A d \in Callers : d # c => op'[d] = op[d]
      BY <1>3 DEF StopRequest, DisableRequest, StopBegin, Move
    <2> QED
      BY <2>1
  <1> HIDE DEF ServerInv, ThreadsInOrder, Settles
  <1> QED
    BY <1>1, <1>2, <1>3 DEF Request

\* The clean-up and the watchdog: stop() and disable() still to be called.
LEMMA CleanUpSettles ==
    ASSUME ServerInv, NEW c \in Callers,
           ForgetHeartbeat(c) \/ CallStop(c) \/ CallDisable(c) \/ CleanedUp(c)
    PROVE  ThreadsInOrder' /\ Settles
  <1> USE DEF ServerInv, ControllerTypeOK, ServerTypeOK, ThreadsInOrder, Settles, Owes, OwesStop,
              OwesDisable, Goto
  <1>1. CASE ForgetHeartbeat(c) \/ CleanedUp(c)
    BY <1>1 DEF ForgetHeartbeat, CleanedUp, ctlVars, callVars
  <1>2. CASE CallStop(c)
    BY <1>2 DEF CallStop, StopBegin, Move
  <1>3. CASE CallDisable(c)
    BY <1>3 DEF CallDisable, StopBegin, Move
  <1> HIDE DEF ServerInv, ThreadsInOrder, Settles
  <1> QED
    BY <1>1, <1>2, <1>3

\* Calls in progress: the step that a clean-up has to make is made there.
LEMMA CallSettles ==
    ASSUME ServerInv, NEW c \in Callers, EnableCall(c) \/ CallGoesOn(c) \/ CallRaises(c)
    PROVE  ThreadsInOrder' /\ Settles
  <1> USE DEF ServerInv, ControllerTypeOK, ServerTypeOK, ThreadsInOrder, Settles, Owes, OwesStop,
              OwesDisable, Goto
  <1>1. CASE EnableCall(c)
    BY <1>1 DEF EnableCall, Enable, Move
  <1>2. CASE EnableReturns(c) /\ UNCHANGED srvVars
    <2>1. c \in Conns /\ OwesDisable(c)'
      BY <1>2 DEF EnableReturns, Return, Move, srvVars
    <2> QED
      BY <1>2, <2>1 DEF EnableReturns, Return, Move, srvVars
  <1>3. CASE StopReturns(c) /\ UNCHANGED srvVars
    BY <1>3 DEF StopReturns, Move, srvVars
  <1>4. CASE StopMark(c) /\ UNCHANGED srvVars
    BY <1>4 DEF StopMark, Return, Move, srvVars
  <1>5. CASE DisableOff(c) /\ UNCHANGED srvVars
    BY <1>5 DEF DisableOff, Return, Move, srvVars
  <1>6. CASE CallRaises(c)
    BY <1>6 DEF CallRaises, EnableRaises, DisableRaises, Return, Move
  <1> HIDE DEF ServerInv, ThreadsInOrder, Settles
  <1> QED
    BY <1>1, <1>2, <1>3, <1>4, <1>5, <1>6 DEF CallGoesOn

\* Everything else leaves the calls alone.
LEMMA OtherSettles ==
    ASSUME ServerInv,
           \/ \E c \in Conns : Accept(c) \/ Disconnect(c)
           \/ WatchdogStep \/ Expire \/ BackendFails \/ UNCHANGED vars
    PROVE  ThreadsInOrder' /\ Settles
  <1> USE DEF ServerInv, ControllerTypeOK, ServerTypeOK, ThreadsInOrder, Settles, Owes, OwesStop,
              OwesDisable, Goto
  <1>1. ASSUME NEW c \in Conns, Accept(c) PROVE ThreadsInOrder' /\ Settles
    BY <1>1 DEF Accept, ctlVars, callVars
  <1>2. ASSUME NEW c \in Conns, Disconnect(c) PROVE ThreadsInOrder' /\ Settles
    BY <1>2 DEF Disconnect, MustCleanUp, ctlVars, callVars
  <1>3. CASE WatchdogStep \/ Expire \/ UNCHANGED vars
    BY <1>3 DEF WatchdogStep, WatchdogFires, WatchdogForgets, Expire, vars, ctlVars, callVars,
       srvVars
  <1>4. CASE BackendFails
    BY <1>4 DEF BackendFails, Done, ActiveAfterDone, srvVars, callVars
  <1> HIDE DEF ServerInv, ThreadsInOrder, Settles
  <1> QED
    BY <1>1, <1>2, <1>3, <1>4

\* The inductive invariant of the server: as long as anything plays, or the
\* controller is enabled, somebody's clean-up is still due.
THEOREM ServerInvariant == Spec => []ServerInv
  <1>1. Init => ServerInv
    BY InitTyped DEF Init, ControllerInit, ServerInv, ServerTypeOK, ThreadsInOrder
  <1>2. ServerInv /\ [Next]_vars => ServerInv'
    <2> SUFFICES ASSUME ServerInv, [Next]_vars PROVE ServerInv'
      OBVIOUS
    <2>1. ControllerTypeOK' /\ ServerTypeOK'
      BY ServerTypeKept, ServerStepRefines, StepTyped DEF ServerInv
    <2>2. ThreadsInOrder' /\ Settles
      BY RequestSettles, CleanUpSettles, CallSettles, OtherSettles DEF Next, ThreadStep
    <2> QED
      BY <2>1, <2>2, SettlesKeeps
  <1> QED
    BY <1>1, <1>2, PTL DEF Spec

\* Nothing plays once the last connection is gone, however many clients there
\* were and whether or not the driver can be disabled.
THEOREM UnattendedIsQuiet == Spec => []NothingPlaysUnattended
  <1>1. ServerInv => NothingPlaysUnattended
    BY DEF ServerInv, NothingPlaysUnattended, NobodyLeft, OwesStop, Owes
  <1> QED
    BY <1>1, ServerInvariant, PTL

\* The controller is disabled once the last connection is gone, if the driver
\* does not fail.
THEOREM UnattendedIsDisabled == ~DriverFails => (Spec => []DisabledUnattended)
  <1> SUFFICES ASSUME ~DriverFails PROVE Spec => []DisabledUnattended
    OBVIOUS
  <1>1. ServerInv => DisabledUnattended
    BY DEF ServerInv, DisabledUnattended, NobodyLeft, OwesDisable, Owes
  <1> QED
    BY <1>1, ServerInvariant, PTL

\* Whoever makes the controller do something has asked for something, also when
\* it only leaves: a connection that has just looked makes no call to stop or
\* disable when it ends.
THEOREM ViewersStayHarmless == Spec => ViewersAreHarmless
  <1>1. ServerInv' => \A c \in Conns : pc[c] = "idle" /\ pc'[c] # "idle" => controls'[c]
    BY DEF ServerInv, ThreadsInOrder
  <1> QED
    BY <1>1, ServerInvariant, PTL DEF ViewersAreHarmless
=============================================================================
