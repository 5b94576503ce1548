----------------------- MODULE SimulatedControlProofs -----------------------
(* FieldController with SimulationBackend, for every number of requests and  *)
(* callers, although any number of its threads may overlap.                  *)
EXTENDS SimulatedControl, FieldControllerProofs

-----------------------------------------------------------------------------
\* The steps between on_started and the final zero, and those in which the
\* output may be live because of w.
Playing == WorkerPCs \ {"none", "begin", "dead"}
Streaming == Playing \ {"report"}

Running(w) == wpc[w] \notin {"none", "dead"}

\* The backend only holds actions that the controller admitted.
SimHeld ==
    /\ slot # None => slot \in Admitted
    /\ \A w \in Actions :
        /\ Running(w) => w \in Admitted /\ current[w] \in Admitted
        /\ taken[w] # None => taken[w] \in Admitted
        /\ wpc[w] = "switch" => taken[w] # None
        /\ wpc[w] = "begin" => current[w] = w

\* A thread plays what has been reported as started, and the output is live
\* only while some thread still has its final zero to write.
SimPlays ==
    /\ \A w \in Actions : wpc[w] \in Playing => "started" \in timestamps[current[w]]
    /\ output = "live" => \E w \in Actions : wpc[w] \in Streaming

SimInv ==
    /\ ControllerInv
    /\ SimTypeOK
    /\ SimHeld
    /\ SimPlays
    /\ KeepTimeAfterStart

LEMMA SimInitInv == Init => SimInv
  <1> SUFFICES ASSUME Init PROVE SimInv
    OBVIOUS
  <1>1. ControllerInv
    BY InitInv DEF Init
  <1>2. SimTypeOK
    BY DEF Init, SimInit, SimTypeOK, WorkerPCs
  <1>3. SimHeld /\ SimPlays
    BY DEF Init, SimInit, SimHeld, SimPlays, Running, Playing, Streaming
  <1>4. KeepTimeAfterStart
    BY DEF Init, ControllerInit, KeepTimeAfterStart
  <1> QED
    BY <1>1, <1>2, <1>3, <1>4 DEF SimInv

-----------------------------------------------------------------------------
\* All that one step of the worker w may do to the backend.
SimFrame(w) ==
    /\ Running(w)
    /\ wpc'[w] \notin {"none", "begin"}
    /\ \A v \in Actions : v # w =>
            wpc'[v] = wpc[v] /\ current'[v] = current[v] /\ taken'[v] = taken[v]
    /\ slot' \in {slot, None}
    /\ taken'[w] \in {taken[w], slot, None}
    /\ wpc'[w] = "switch" => taken'[w] # None
    /\ wpc'[w] # "dead" =>
            current'[w] = IF wpc[w] = "switch" THEN taken[w] ELSE current[w]
    /\ output' = "live" =>
            \/ wpc'[w] \in Streaming
            \/ output = "live" /\ wpc[w] \notin Streaming

LEMMA SimFramed ==
    ASSUME SimTypeOK, SimHeld, NEW w \in Actions, WorkerStep(w)
    PROVE  SimTypeOK' /\ SimFrame(w)
  <1> USE DEF SimTypeOK, SimHeld, SimFrame, Running, Playing, Streaming, WorkerPCs, Go,
              postVars, simOutVars, simWorkVars
  <1>0. UNCHANGED call
    BY DEF WorkerStep
  <1>1. CASE CheckStop(w) \/ WriteOutput(w) \/ KeepTimeOver(w) \/ KeepTimeRuns(w) \/ Look(w)
    BY <1>0, <1>1 DEF CheckStop, WriteOutput, KeepTimeOver, KeepTimeRuns, Look
  <1>2. CASE Take(w) \/ Forget(w)
    BY <1>0, <1>2 DEF Take, Forget
  <1>3. CASE Clear(w) \/ ZeroOutput(w)
    BY <1>0, <1>3 DEF Clear, Taken, ZeroOutput
  <1>4. CASE Begin(w) \/ Keep(w)
    BY <1>0, <1>4 DEF Begin, Keep
  <1>5. CASE Switch(w)
    <2>1. taken[w] \in Actions
      BY <1>5 DEF Switch
    <2> QED
      BY <1>0, <1>5, <2>1 DEF Switch
  <1>6. CASE Report(w)
    BY <1>0, <1>6 DEF Report
  <1> HIDE DEF SimTypeOK, SimHeld, SimFrame
  <1> QED
    BY <1>1, <1>2, <1>3, <1>4, <1>5, <1>6
       DEF WorkerStep, SilentStep, WorkerBegins, WorkerKept, WorkerSwitches, WorkerReports

\* A worker's step is a callback for an admitted action, or nothing to the
\* controller.
LEMMA SimWorkerRefines ==
    ASSUME SimTypeOK, SimHeld, NEW w \in Actions, WorkerStep(w)
    PROVE  [ControllerNext]_ctlVars
  <1>1. CASE SilentStep(w) /\ UNCHANGED ctlVars
    BY <1>1
  <1>2. CASE WorkerBegins(w)
    <2>1. w \in Admitted
      BY <1>2 DEF WorkerBegins, Begin, SimHeld, Running
    <2> QED
      BY <1>2, <2>1 DEF WorkerBegins, ControllerNext
  <1>3. CASE WorkerKept(w)
    <2>1. current[w] \in Admitted
      BY <1>3 DEF WorkerKept, Keep, SimHeld, Running
    <2> QED
      BY <1>3, <2>1 DEF WorkerKept, ControllerNext
  <1>4. CASE WorkerSwitches(w)
    <2>1. taken[w] \in Admitted
      BY <1>4 DEF WorkerSwitches, Switch, SimHeld
    <2> QED
      BY <1>4, <2>1 DEF WorkerSwitches, ControllerNext
  <1>5. CASE WorkerReports(w)
    <2>1. current[w] \in Admitted
      BY <1>5 DEF WorkerReports, Report, SimHeld, Running
    <2> QED
      BY <1>5, <2>1 DEF WorkerReports, ControllerNext, DoneReasons
  <1> QED
    BY <1>1, <1>2, <1>3, <1>4, <1>5 DEF WorkerStep
-----------------------------------------------------------------------------
\* A callback takes no stamp away, and a thread reports a keep time only of
\* what it has reported as started.
LEMMA SimWorkerStamps ==
    ASSUME SimInv, NEW w \in Actions, SimFrame(w), WorkerStep(w)
    PROVE  /\ \A a \in Actions : timestamps[a] \subseteq timestamps'[a]
           /\ wpc'[w] \in Playing => "started" \in timestamps'[current'[w]]
           /\ KeepTimeAfterStart'
  <1>0. /\ ControllerTypeOK /\ SimTypeOK /\ SimHeld /\ SimPlays /\ KeepTimeAfterStart
        /\ Admitted \subseteq Actions
    BY DEF SimInv, ControllerInv, Admitted
  <1>1. ASSUME NEW a \in Actions, Started(a) PROVE
               /\ \A b \in Actions :
                     /\ timestamps[b] \subseteq timestamps'[b]
                     /\ "duration_elapsed" \in timestamps'[b] => "duration_elapsed" \in timestamps[b]
               /\ "started" \in timestamps'[a]
               /\ KeepTimeAfterStart'
    <2>1. Emit(a, "started") /\ "started" \in Statuses \ {"duration_elapsed"} /\ "started" \in Stamped
      BY <1>1 DEF Started, Statuses, Stamped
    <2>2. \A b \in Actions :
                     /\ timestamps[b] \subseteq timestamps'[b]
                     /\ "duration_elapsed" \in timestamps'[b] => "duration_elapsed" \in timestamps[b]
      BY <1>0, <2>1, EmitKeepsStamps
    <2>3. "started" \in timestamps'[a]
      BY <1>0, <2>1, EmitKeepsStamps
    <2> QED
      BY <1>0, <2>2, <2>3 DEF KeepTimeAfterStart
  <1>2. CASE SilentStep(w) /\ UNCHANGED ctlVars
    <2>1. wpc[w] # "switch" /\ wpc[w] \in Playing /\ UNCHANGED timestamps
      BY <1>0, <1>2 DEF SilentStep, CheckStop, WriteOutput, KeepTimeOver, KeepTimeRuns, Look, Take,
         Forget, Clear, ZeroOutput, Playing, WorkerPCs, ctlVars, recordVars
    <2>2. wpc'[w] # "dead" => current'[w] = current[w]
      BY <2>1 DEF SimFrame
    <2> QED
      BY <1>0, <2>1, <2>2 DEF SimPlays, KeepTimeAfterStart, Playing
  <1>3. CASE WorkerBegins(w)
    <2>1. Started(w) /\ wpc[w] = "begin" /\ current'[w] = w
      BY <1>0, <1>3 DEF WorkerBegins, Begin, SimHeld, simWorkVars
    <2> QED
      BY <1>1, <2>1
  <1>4. CASE WorkerKept(w)
    <2>1. /\ DurationElapsed(current[w]) /\ current[w] \in Actions /\ current'[w] = current[w]
          /\ "started" \in timestamps[current[w]]
      BY <1>0, <1>4 DEF WorkerKept, Keep, SimHeld, SimPlays, Running, Playing, WorkerPCs
    <2>2. \A b \in Actions :
             /\ timestamps[b] \subseteq timestamps'[b]
             /\ b # current[w] /\ "duration_elapsed" \in timestamps'[b]
                  => "duration_elapsed" \in timestamps[b]
      BY <1>0, <2>1, DurationStamps
    <2> QED
      BY <1>0, <2>1, <2>2 DEF KeepTimeAfterStart
  <1>5. CASE WorkerSwitches(w)
    <2>1. Started(taken[w]) /\ taken[w] \in Actions /\ current'[w] = taken[w]
      BY <1>0, <1>5 DEF WorkerSwitches, Switch, SimHeld, SimTypeOK
    <2> QED
      BY <1>1, <2>1
  <1>6. CASE WorkerReports(w)
    <2>1. Done(current[w], "stopped") /\ wpc'[w] = "dead"
      BY <1>0, <1>6 DEF WorkerReports, Report, SimTypeOK, Go
    <2>2. UNCHANGED timestamps
      BY <2>1 DEF Done, DoneStatus
    <2> QED
      BY <1>0, <2>1, <2>2 DEF KeepTimeAfterStart, Playing
  <1> QED
    BY <1>2, <1>3, <1>4, <1>5, <1>6 DEF WorkerStep
LEMMA SimWorkerKeeps ==
    ASSUME SimInv, NEW w \in Actions, WorkerStep(w)
    PROVE  SimInv'
  <1>0. ControllerTypeOK /\ SimTypeOK /\ SimHeld /\ SimPlays
    BY DEF SimInv, ControllerInv
  <1>1. SimTypeOK' /\ SimFrame(w)
    BY <1>0, SimFramed
  <1>2. ControllerInv' /\ Admitted \subseteq Admitted'
    BY <1>0, SimWorkerRefines, StepInv, AdmittedGrows DEF SimInv
  <1>3. /\ \A a \in Actions : timestamps[a] \subseteq timestamps'[a]
        /\ wpc'[w] \in Playing => "started" \in timestamps'[current'[w]]
        /\ KeepTimeAfterStart'
    BY <1>1, SimWorkerStamps
  <1>4. SimHeld'
    BY <1>0, <1>1, <1>2 DEF SimHeld, SimFrame, Running, SimTypeOK
  <1>5. SimPlays'
    <2>1. ASSUME NEW v \in Actions, wpc'[v] \in Playing
          PROVE  "started" \in timestamps'[current'[v]]
      <3>1. CASE v = w
        BY <1>3, <2>1, <3>1
      <3>2. CASE v # w
        <4>1. current'[v] = current[v] /\ wpc[v] \in Playing
          BY <1>1, <2>1, <3>2 DEF SimFrame
        <4>2. current[v] \in Actions
          BY <1>0, <4>1 DEF SimHeld, Running, Playing, Admitted
        <4> QED
          BY <1>0, <1>3, <4>1, <4>2 DEF SimPlays
      <3> QED
        BY <3>1, <3>2
    <2>2. ASSUME output' = "live" PROVE \E v \in Actions : wpc'[v] \in Streaming
      BY <1>0, <1>1, <2>2 DEF SimFrame, SimPlays
    <2> QED
      BY <2>1, <2>2 DEF SimPlays
  <1> QED
    BY <1>1, <1>2, <1>3, <1>4, <1>5 DEF SimInv

-----------------------------------------------------------------------------
\* A caller launches one worker or none, and only posts what was admitted.
SimCallerFrame ==
    \/ /\ Fresh \in Actions
       /\ Fresh \notin Admitted
       /\ Fresh \in Admitted'
       /\ wpc' = [wpc EXCEPT ![Fresh] = "begin"]
       /\ current' = [current EXCEPT ![Fresh] = Fresh]
       /\ slot' = None
       /\ UNCHANGED <<taken, output>>
    \/ /\ UNCHANGED <<wpc, current, taken, output>>
       /\ slot' = slot \/ slot' \in Admitted'

LEMMA SimCallerFramed ==
    ASSUME ControllerInv, SimTypeOK, NEW c \in Callers, CallBegin(c) \/ CallerStep(c)
    PROVE  /\ SimTypeOK'
           /\ SimCallerFrame
           /\ CallerAction(c) \/ UNCHANGED ctlVars
  <1> USE DEF SimTypeOK, SimCallerFrame, postVars, simOutVars, simWorkVars, simVars, WorkerPCs
  <1>1. CASE \/ SimEnable(c) \/ SimEnableReturns(c) \/ SimStopMark(c)
             \/ \E valid \in Validity : SimReject(c, valid)
    BY <1>1 DEF SimEnable, SimEnableReturns, SimStopMark, SimReject, CallerAction
  <1>2. CASE SimSendFirst(c)
    <2>0. issued < MaxActions
      BY <1>2 DEF SimSendFirst, AdmitFirst, MaySend
    <2>1. Fresh \in Actions /\ Fresh \notin Admitted
      <3>1. timestamps[Fresh] = {}
        BY <2>0, FreshFacts
      <3> QED
        BY <2>0, <3>1, FreshFacts DEF Admitted
    <2>2. Fresh \in Admitted'
      BY <1>2, <2>1 DEF SimSendFirst, AdmitFirst, ControllerInv, ControllerTypeOK, Admitted
    <2>3. Fresh # None
      BY <2>1, MaxActionsAssumption DEF Actions, None
    <2>4. /\ wpc' \in [Actions -> WorkerPCs]
          /\ current' \in [Actions -> Actions \cup {None}]
          /\ \A w \in Actions : current'[w] = None <=> wpc'[w] \in {"none", "dead"}
      BY <1>2, <2>1, <2>3 DEF SimSendFirst, CallStart
    <2>5. SimTypeOK'
      BY <1>2, <2>4 DEF SimSendFirst, CallStart
    <2> QED
      BY <1>2, <2>1, <2>2, <2>5 DEF SimSendFirst, CallStart, CallerAction
  <1>3. CASE SimSendReplacing(c)
    <2>0. issued < MaxActions
      BY <1>3 DEF SimSendReplacing, AdmitReplacing, MaySend
    <2>1. Fresh \in Actions
      BY <2>0, FreshFacts
    <2>2. Fresh \in Admitted'
      BY <1>3, <2>1 DEF SimSendReplacing, AdmitReplacing, ControllerInv, ControllerTypeOK, Admitted
    <2> QED
      BY <1>3, <2>1, <2>2 DEF SimSendReplacing, CallReplace, CallerAction
  <1>4. CASE \/ SimSetStop(c) \/ SimStopReturns(c) \/ SimDisableOff(c)
             \/ \E m \in Methods, t \in Actions \cup {None} : SimStop(c, m, t)
    BY <1>4 DEF SimSetStop, SimStopReturns, SimDisableOff, SimStop, CallSetStop, CallStopReturns,
       CallStop, CallerAction
  <1> HIDE DEF SimTypeOK, SimCallerFrame
  <1> QED
    BY <1>1, <1>2, <1>3, <1>4 DEF CallBegin, CallerStep

LEMMA SimCallerKeeps ==
    ASSUME SimInv, NEW c \in Callers, CallBegin(c) \/ CallerStep(c)
    PROVE  SimInv'
  <1>0. ControllerInv /\ ControllerTypeOK /\ SimTypeOK /\ SimHeld /\ SimPlays /\ KeepTimeAfterStart
    BY DEF SimInv, ControllerInv
  <1>1. /\ SimTypeOK' /\ SimCallerFrame
        /\ CallerAction(c) \/ UNCHANGED ctlVars
    BY <1>0, SimCallerFramed
  <1>2. ControllerInv' /\ Admitted \subseteq Admitted'
    BY <1>0, <1>1, StepInv, AdmittedGrows DEF ControllerNext
  <1>3. \A a \in Actions :
           /\ timestamps[a] \subseteq timestamps'[a]
           /\ "duration_elapsed" \in timestamps'[a] => "duration_elapsed" \in timestamps[a]
    BY <1>0, <1>1, CallerKeepsStamps DEF ctlVars, recordVars
  <1>4. SimHeld'
    BY <1>0, <1>1, <1>2 DEF SimHeld, SimCallerFrame, Running, SimTypeOK
  <1>5. SimPlays'
    <2>1. ASSUME NEW v \in Actions, wpc'[v] \in Playing
          PROVE  "started" \in timestamps'[current'[v]]
      <3>1. wpc[v] \in Playing /\ current'[v] = current[v]
        BY <1>0, <1>1, <2>1 DEF SimCallerFrame, Playing, SimTypeOK
      <3>2. current[v] \in Actions
        BY <1>0, <3>1 DEF SimHeld, Running, Playing, Admitted
      <3> QED
        BY <1>0, <1>3, <3>1, <3>2 DEF SimPlays
    <2>2. ASSUME output' = "live" PROVE \E v \in Actions : wpc'[v] \in Streaming
      <3>1. PICK v \in Actions : wpc[v] \in Streaming
        BY <1>0, <1>1, <2>2 DEF SimPlays, SimCallerFrame
      <3>2. v \in Admitted
        BY <1>0, <3>1 DEF SimHeld, Running, Streaming, Playing
      <3>3. wpc'[v] = wpc[v]
        BY <1>0, <1>1, <3>2 DEF SimCallerFrame, SimTypeOK
      <3> QED
        BY <3>1, <3>3
    <2> QED
      BY <2>1, <2>2 DEF SimPlays
  <1>6. KeepTimeAfterStart'
    BY <1>0, <1>3 DEF KeepTimeAfterStart
  <1> QED
    BY <1>1, <1>2, <1>4, <1>5, <1>6 DEF SimInv

\* The inductive invariant of the simulation.
THEOREM SimulatedInvariant == Spec => []SimInv
  <1>1. SimInv /\ [Next]_vars => SimInv'
    <2> SUFFICES ASSUME SimInv, [Next]_vars PROVE SimInv'
      OBVIOUS
    <2>1. CASE UNCHANGED vars
      <3>1. UNCHANGED ctlVars /\ ControllerInv
        BY <2>1 DEF vars, SimInv
      <3>2. ControllerInv'
        BY <3>1, StepInv
      <3>3. SimTypeOK' /\ SimHeld' /\ SimPlays' /\ KeepTimeAfterStart'
        BY <2>1 DEF SimInv, vars, ctlVars, recordVars, simVars, postVars, simOutVars, simWorkVars,
           SimTypeOK, SimHeld, SimPlays, KeepTimeAfterStart, Admitted, Running
      <3> QED
        BY <3>2, <3>3 DEF SimInv
    <2> QED
      BY <2>1, SimWorkerKeeps, SimCallerKeeps DEF Next
  <1> QED
    BY <1>1, SimInitInv, PTL DEF Spec

\* The simulation keeps to the controller's specification: its threads, of
\* which several may live at once, call back for admitted actions only.
THEOREM SimulatedImplementsController == Spec => ControllerSpec
  <1>1. Init => ControllerInit
    BY DEF Init
  <1>2. SimInv /\ [Next]_vars => [ControllerNext]_ctlVars
    BY SimWorkerRefines, SimCallerFramed DEF SimInv, Next, ControllerNext, vars
  <1> QED
    BY <1>1, <1>2, SimulatedInvariant, PTL DEF Spec, ControllerSpec

\* Types of the simulation's state.
THEOREM SimulatedTyping == Spec => []SimTypeOK
  BY SimulatedInvariant, PTL DEF SimInv

\* However many threads overlap, the output is zero when the last has ended.
THEOREM SimulationEndsQuiet == Spec => []QuietWhenIdle
  <1>1. SimInv => QuietWhenIdle
    BY DEF SimInv, SimTypeOK, SimPlays, QuietWhenIdle, Workers, Streaming, Playing
  <1> QED
    BY <1>1, SimulatedInvariant, PTL

\* No keep time is over before its action has been reported as started.
THEOREM SimulationKeepsTime == Spec => []KeepTimeAfterStart
  BY SimulatedInvariant, PTL DEF SimInv
=============================================================================
