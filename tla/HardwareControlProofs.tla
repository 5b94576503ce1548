----------------------- MODULE HardwareControlProofs -----------------------
(* FieldController with NIDAQmxBackend, for every number of requests and    *)
(* callers, every set of failing driver operations, with and without join   *)
(* timeouts.                                                                *)
EXTENDS HardwareControl, FieldControllerProofs

USE MaxActionsAssumption, UsageAssumption, FaultyAssumption
    DEF Actions, None, MaxActionsAssumption, UsageAssumption, FaultyAssumption

-----------------------------------------------------------------------------
LEMMA BackendInitTyped == BackendInit => BackendTypeOK
  <1> SUFFICES ASSUME BackendInit PROVE BackendTypeOK
    OBVIOUS
  <1>1. pending \in [Actions -> Seq(Actions)]
    <2>1. <<>> \in Seq(Actions)
      OBVIOUS
    <2> QED
      BY <2>1 DEF BackendInit
  <1>2. wpc \in [Actions -> WorkerPCs] /\ call \in [Callers -> CallPCs]
    BY DEF BackendInit, WorkerPCs, CallPCs
  <1>3. current \in [Actions -> Actions \cup {None}] /\ joining \in [Callers -> Actions \cup {None}]
    BY DEF BackendInit
  <1> QED
    BY <1>1, <1>2, <1>3 DEF BackendInit, BackendTypeOK

\* Steps of the worker keep the types.
LEMMA WorkerTyped ==
    ASSUME BackendTypeOK, NEW w \in Actions, WorkerStep(w), UNCHANGED <<line, backCallVars>>
    PROVE  BackendTypeOK'
  <1> USE DEF BackendTypeOK, WorkerPCs, Go, slotVars, coilVars, workVars, backCallVars
  <1>1. ASSUME OpenTask(w) PROVE BackendTypeOK'
    BY <1>1 DEF OpenTask
  <1>2. ASSUME OpenFails(w) PROVE BackendTypeOK'
    BY <1>2 DEF OpenFails, Abort
  <1>3. ASSUME FillBuffer(w) PROVE BackendTypeOK'
    BY <1>3 DEF FillBuffer
  <1>4. ASSUME FillFails(w) PROVE BackendTypeOK'
    BY <1>4 DEF FillFails, Abort
  <1>5. ASSUME CheckStop(w) PROVE BackendTypeOK'
    BY <1>5 DEF CheckStop
  <1>6. ASSUME NothingToPick(w) PROVE BackendTypeOK'
    BY <1>6 DEF NothingToPick
  <1>7. ASSUME PickReplacement(w) PROVE BackendTypeOK'
    <2>1. slot \in Actions
      BY <1>7 DEF PickReplacement, HasReplacement
    <2>2. Append(pending[w], slot) \in Seq(Actions)
      BY <2>1
    <2> QED
      BY <1>7, <2>1, <2>2 DEF PickReplacement, TakeOver
  <1>8. ASSUME DeviceReached(w) PROVE BackendTypeOK'
    BY <1>8 DEF DeviceReached
  <1>9. ASSUME KeepTimeOver(w) PROVE BackendTypeOK'
    BY <1>9 DEF KeepTimeOver
  <1>10. ASSUME WriteChunk(w) PROVE BackendTypeOK'
    BY <1>10 DEF WriteChunk
  <1>11. ASSUME StreamFails(w) PROVE BackendTypeOK'
    BY <1>11 DEF StreamFails, Abort
  <1>12. ASSUME RampDown(w) PROVE BackendTypeOK'
    BY <1>12 DEF RampDown
  <1>13. ASSUME Unregister(w) PROVE BackendTypeOK'
    BY <1>13 DEF Unregister
  <1>14. ASSUME CloseTask(w) PROVE BackendTypeOK'
    BY <1>14 DEF CloseTask, FreedBy
  <1>15. ASSUME ZeroOutput(w) PROVE BackendTypeOK'
    BY <1>15 DEF ZeroOutput
  <1>16. ASSUME ZeroFails(w) PROVE BackendTypeOK'
    BY <1>16 DEF ZeroFails
  <1>17. ASSUME Exit(w) PROVE BackendTypeOK'
    BY <1>17 DEF Exit
  <1>18. ASSUME Begin(w) PROVE BackendTypeOK'
    BY <1>18 DEF Begin
  <1>19. ASSUME Play(w) PROVE BackendTypeOK'
    <2>1. Tail(pending[w]) \in Seq(Actions)
      BY <1>19 DEF Play
    <2> QED
      BY <1>19, <2>1 DEF Play
  <1>20. ASSUME Keep(w) PROVE BackendTypeOK'
    BY <1>20 DEF Keep
  <1>21. ASSUME Report(w) PROVE BackendTypeOK'
    BY <1>21 DEF Report
  <1> HIDE DEF BackendTypeOK, WorkerPCs, Go, slotVars, coilVars, workVars, backCallVars
  <1> QED
    BY <1>1, <1>2, <1>3, <1>4, <1>5, <1>6, <1>7, <1>8, <1>9, <1>10, <1>11, <1>12, <1>13,
       <1>14, <1>15, <1>16, <1>17, <1>18, <1>19, <1>20, <1>21
       DEF WorkerStep, SilentStep, WorkerBegins, WorkerPlays, WorkerKept, WorkerReports

\* What a caller's step does to the backend, apart from launching a worker.
LEMMA CallerTyped ==
    ASSUME BackendTypeOK, ControllerTypeOK, NEW c \in Callers, CallBegin(c) \/ CallerStep(c)
    PROVE  BackendTypeOK'
  <1> USE DEF BackendTypeOK, CallPCs, CallMove, slotVars, coilVars, workVars, backCallVars, lineVars
  <1>1. ASSUME CtlEnable(c) PROVE BackendTypeOK'
    BY <1>1 DEF CtlEnable, CallInitialize
  <1>2. ASSUME NEW valid \in Validity, CtlReject(c, valid) PROVE BackendTypeOK'
    BY <1>2 DEF CtlReject, backVars
  <1>3. ASSUME CtlSendFirst(c) PROVE BackendTypeOK'
    <2>1. Fresh \in Actions
      BY <1>3, FreshIsAction DEF CtlSendFirst, AdmitFirst, MaySend
    <2>2. CASE CallStart(Fresh)
      BY <2>1, <2>2 DEF CallStart, WorkerPCs
    <2>3. CASE CallStartRaises
      BY <2>3 DEF CallStartRaises, backVars
    <2> QED
      BY <1>3, <2>2, <2>3 DEF CtlSendFirst
  <1>4. ASSUME CtlSendReplacing(c) PROVE BackendTypeOK'
    <2>1. Fresh \in Actions
      BY <1>4, FreshIsAction DEF CtlSendReplacing, AdmitReplacing, MaySend
    <2>2. CASE CallReplace(Fresh)
      BY <2>1, <2>2 DEF CallReplace
    <2>3. CASE CallReplaceRaises
      BY <2>3 DEF CallReplaceRaises, backVars
    <2> QED
      BY <1>4, <2>2, <2>3 DEF CtlSendReplacing
  <1>5. ASSUME NEW m \in Methods, NEW t \in Actions \cup {None}, CtlStop(c, m, t)
        PROVE  BackendTypeOK'
    BY <1>5 DEF CtlStop
  <1>6. ASSUME CtlEnableZero(c) PROVE BackendTypeOK'
    BY <1>6 DEF CtlEnableZero, CallWriteZero
  <1>7. ASSUME CtlEnableClose(c) PROVE BackendTypeOK'
    BY <1>7 DEF CtlEnableClose, CallCloseZero
  <1>8. ASSUME CtlEnableReturns(c) PROVE BackendTypeOK'
    BY <1>8 DEF CtlEnableReturns, CallRaiseLine
  <1>9. ASSUME CtlEnableRaises(c) PROVE BackendTypeOK'
    BY <1>9 DEF CtlEnableRaises, CallEnableFails
  <1>10. ASSUME CtlSetStop(c) PROVE BackendTypeOK'
    BY <1>10 DEF CtlSetStop, CallSetStop
  <1>11. ASSUME CtlGrabThread(c) PROVE BackendTypeOK'
    BY <1>11 DEF CtlGrabThread, CallGrabThread
  <1>12. ASSUME CtlStopReturns(c) PROVE BackendTypeOK'
    BY <1>12 DEF CtlStopReturns, CallStopReturns
  <1>13. ASSUME CtlStopMark(c) \/ CtlDisableRaises(c) PROVE BackendTypeOK'
    BY <1>13 DEF CtlStopMark, CtlDisableRaises, backVars
  <1>14. ASSUME CtlDisableOff(c) PROVE BackendTypeOK'
    BY <1>14 DEF CtlDisableOff, CallLowerLine
  <1>15. ASSUME CtlCloseReturns(c) PROVE BackendTypeOK'
    BY <1>15 DEF CtlCloseReturns, CallReleaseLine, CallStopReturns
  <1> HIDE DEF BackendTypeOK, CallPCs, CallMove, slotVars, coilVars, workVars, backCallVars, lineVars
  <1> QED
    BY <1>1, <1>2, <1>3, <1>4, <1>5, <1>6, <1>7, <1>8, <1>9, <1>10, <1>11, <1>12, <1>13,
       <1>14, <1>15 DEF CallBegin, CallerStep

-----------------------------------------------------------------------------
\* Where in run() the task is registered, where it holds the outputs, and
\* where the loop has been left.
Registered == {"fill", "begin", "top", "pick", "play", "switch", "keep", "write", "ramp",
               "finally"}
Reserving == (Registered \ {"fill"}) \cup {"close"}
Leaving == {"finally", "close", "zero", "report"}

\* The loop was left by a stop or by an exception.
StopSeen(w) == wpc[w] = "ramp" \/ (wpc[w] \in Leaving /\ ~failed[w]) => stopEvent

\* The actions that wait for the device.
Waiting(queue) == {queue[i] : i \in 1 .. Len(queue)}

\* All that one step of the worker w may do.
WorkerFrame(w) ==
    /\ wpc[w] \notin {"none", "dead"}
    /\ wpc[w] = "exit" => wpc'[w] = "dead"
    /\ wpc'[w] \notin {"none", "open"}
    /\ wpc'[w] \in Registered => wpc[w] \in Registered \cup {"open"}
    /\ \A v \in Actions : v # w =>
            /\ wpc'[v] = wpc[v] /\ current'[v] = current[v]
            /\ pending'[v] = pending[v] /\ failed'[v] = failed[v]
    /\ UNCHANGED <<thread, stopEvent>>
    /\ slot' \in {slot, None}
    /\ \/ task' = w /\ wpc[w] = "open" /\ wpc'[w] = "fill"
       \/ task' = None
       \/ task' = task /\ (wpc[w] \in Registered => wpc'[w] \in Registered)
    /\ \/ reserved' = w /\ wpc'[w] \in Reserving
       \/ reserved' = None
       \/ reserved' = reserved /\ reserved # w
       \/ reserved' = reserved /\ (wpc[w] \in Reserving => wpc'[w] \in Reserving)
    /\ StopSeen(w) => StopSeen(w)'
    /\ \/ current'[w] = current[w]
       \/ slot # None /\ current'[w] = slot
       \/ wpc'[w] \in {"exit", "dead"}
    /\ \A i \in 1 .. Len(pending'[w]) :
            pending'[w][i] \in Waiting(pending[w]) \/ (slot # None /\ pending'[w][i] = slot)

LEMMA WorkerFramed ==
    ASSUME BackendTypeOK, NEW w \in Actions, WorkerStep(w)
    PROVE  WorkerFrame(w)
  <1> USE DEF BackendTypeOK, WorkerFrame, Go, slotVars, coilVars, workVars, Registered,
              Reserving, Leaving, StopSeen
  <1>0. UNCHANGED pending => \A i \in 1 .. Len(pending'[w]) : pending'[w][i] \in Waiting(pending[w])
    BY DEF Waiting
  <1>1. ASSUME OpenTask(w) PROVE WorkerFrame(w)
    BY <1>0, <1>1 DEF OpenTask
  <1>2. ASSUME OpenFails(w) PROVE WorkerFrame(w)
    BY <1>0, <1>2 DEF OpenFails, Abort
  <1>3. ASSUME FillBuffer(w) PROVE WorkerFrame(w)
    BY <1>0, <1>3 DEF FillBuffer
  <1>4. ASSUME FillFails(w) PROVE WorkerFrame(w)
    BY <1>0, <1>4 DEF FillFails, Abort
  <1>5. ASSUME CheckStop(w) PROVE WorkerFrame(w)
    BY <1>0, <1>5 DEF CheckStop
  <1>6. ASSUME NothingToPick(w) PROVE WorkerFrame(w)
    BY <1>0, <1>6 DEF NothingToPick
  <1>7. ASSUME PickReplacement(w) PROVE WorkerFrame(w)
    <2>1. slot \in Actions /\ pending'[w] = Append(pending[w], slot) /\ pending[w] \in Seq(Actions)
      BY <1>0, <1>7 DEF PickReplacement, HasReplacement, TakeOver
    <2>2. \A i \in 1 .. Len(pending'[w]) :
              pending'[w][i] = slot \/ pending'[w][i] \in Waiting(pending[w])
      BY <2>1 DEF Waiting
    <2> QED
      BY <1>0, <1>7, <2>1, <2>2 DEF PickReplacement, HasReplacement, TakeOver
  <1>8. ASSUME DeviceReached(w) PROVE WorkerFrame(w)
    BY <1>0, <1>8 DEF DeviceReached
  <1>9. ASSUME KeepTimeOver(w) PROVE WorkerFrame(w)
    BY <1>0, <1>9 DEF KeepTimeOver
  <1>10. ASSUME WriteChunk(w) PROVE WorkerFrame(w)
    BY <1>0, <1>10 DEF WriteChunk
  <1>11. ASSUME StreamFails(w) PROVE WorkerFrame(w)
    BY <1>0, <1>11 DEF StreamFails, Abort
  <1>12. ASSUME RampDown(w) PROVE WorkerFrame(w)
    BY <1>0, <1>12 DEF RampDown
  <1>13. ASSUME Unregister(w) PROVE WorkerFrame(w)
    BY <1>0, <1>13 DEF Unregister
  <1>14. ASSUME CloseTask(w) PROVE WorkerFrame(w)
    BY <1>0, <1>14 DEF CloseTask, FreedBy
  <1>15. ASSUME ZeroOutput(w) PROVE WorkerFrame(w)
    BY <1>0, <1>15 DEF ZeroOutput
  <1>16. ASSUME ZeroFails(w) PROVE WorkerFrame(w)
    BY <1>0, <1>16 DEF ZeroFails
  <1>17. ASSUME Exit(w) PROVE WorkerFrame(w)
    BY <1>0, <1>17 DEF Exit
  <1>18. ASSUME Begin(w) PROVE WorkerFrame(w)
    BY <1>0, <1>18 DEF Begin
  <1>19. ASSUME Play(w) PROVE WorkerFrame(w)
    <2>1. pending'[w] = Tail(pending[w]) /\ pending[w] \in Seq(Actions) /\ pending[w] # <<>>
      BY <1>0, <1>19 DEF Play
    <2>2. \A i \in 1 .. Len(pending'[w]) : pending'[w][i] \in Waiting(pending[w])
      BY <2>1 DEF Waiting
    <2> QED
      BY <1>0, <1>19, <2>2 DEF Play
  <1>20. ASSUME Keep(w) PROVE WorkerFrame(w)
    BY <1>0, <1>20 DEF Keep
  <1>21. ASSUME Report(w) PROVE WorkerFrame(w)
    <2>1. pending'[w] = <<>>
      BY <1>0, <1>21 DEF Report
    <2> QED
      BY <1>0, <1>21, <2>1 DEF Report
  <1> HIDE DEF BackendTypeOK, WorkerFrame, Go, slotVars, coilVars, workVars
  <1> QED
    BY <1>1, <1>2, <1>3, <1>4, <1>5, <1>6, <1>7, <1>8, <1>9, <1>10, <1>11, <1>12, <1>13,
       <1>14, <1>15, <1>16, <1>17, <1>18, <1>19, <1>20, <1>21
       DEF WorkerStep, SilentStep, WorkerBegins, WorkerPlays, WorkerKept, WorkerReports

-----------------------------------------------------------------------------
\* Owners of the task and of the outputs are in the code that owns them, the
\* only live worker is the thread the backend knows, and the loop is left for
\* a reason.
WorkerInv ==
    /\ \A w \in Workers : w = thread
    /\ task # None => wpc[task] \in Registered
    /\ reserved # None => wpc[reserved] \in Reserving
    /\ \A w \in Actions : StopSeen(w)

\* The backend only holds actions that the controller admitted.
HeldAdmitted ==
    /\ slot # None => slot \in Admitted
    /\ \A w \in Workers : wpc[w] # "exit" => w \in Admitted /\ current[w] \in Admitted
    /\ \A w \in Actions : \A i \in 1 .. Len(pending[w]) : pending[w][i] \in Admitted

HardwareInv ==
    /\ ControllerInv
    /\ BackendTypeOK
    /\ WorkerInv
    /\ HeldAdmitted

LEMMA WorkerKeepsWorkerInv ==
    ASSUME BackendTypeOK, WorkerInv, NEW w \in Actions, WorkerFrame(w)
    PROVE  WorkerInv'
  <1> USE DEF WorkerFrame, BackendTypeOK
  <1>1. \A v \in Workers' : v = thread'
    BY DEF WorkerInv, Workers, Alive
  <1>2. task' # None => wpc'[task'] \in Registered
    BY DEF WorkerInv, Registered
  <1>3. reserved' # None => wpc'[reserved'] \in Reserving
    BY DEF WorkerInv, Reserving, Registered
  <1>4. ASSUME NEW v \in Actions PROVE StopSeen(v)'
    <2>1. CASE v = w
      BY <2>1 DEF WorkerInv
    <2>2. CASE v # w
      BY <2>2 DEF WorkerInv, StopSeen
    <2> QED
      BY <2>1, <2>2
  <1> QED
    BY <1>1, <1>2, <1>3, <1>4 DEF WorkerInv

\* A caller launches one worker, once the last has ended, or none.
CallerFrame ==
    \/ /\ Fresh \in Actions
       /\ MayStart
       /\ thread' = Fresh
       /\ wpc' = [wpc EXCEPT ![Fresh] = "open"]
       /\ current' = [current EXCEPT ![Fresh] = Fresh]
       /\ UNCHANGED <<task, reserved, pending, failed>>
       /\ slot' = None
       /\ Fresh \in Admitted'
    \/ /\ UNCHANGED <<wpc, current, pending, failed, thread, task, reserved>>
       /\ stopEvent => stopEvent'
       /\ slot' = slot \/ slot' \in Admitted'

LEMMA CallerFramed ==
    ASSUME BackendTypeOK, ControllerTypeOK, NEW c \in Callers, CallBegin(c) \/ CallerStep(c)
    PROVE  CallerFrame
  <1> USE DEF CallerFrame, slotVars, coilVars, workVars, backVars
  <1>1. ASSUME CtlEnable(c) PROVE CallerFrame
    BY <1>1 DEF CtlEnable, CallInitialize
  <1>2. ASSUME NEW valid \in Validity, CtlReject(c, valid) PROVE CallerFrame
    BY <1>2 DEF CtlReject
  <1>3. ASSUME CtlSendFirst(c) PROVE CallerFrame
    <2>1. Fresh \in Actions
      BY <1>3, FreshIsAction DEF CtlSendFirst, AdmitFirst, MaySend
    <2>2. Fresh \in Admitted'
      BY <1>3, <2>1 DEF CtlSendFirst, AdmitFirst, ControllerTypeOK, Admitted
    <2>3. CASE CallStart(Fresh)
      BY <2>1, <2>2, <2>3 DEF CallStart
    <2>4. CASE CallStartRaises
      BY <2>4 DEF CallStartRaises
    <2> QED
      BY <1>3, <2>3, <2>4 DEF CtlSendFirst
  <1>4. ASSUME CtlSendReplacing(c) PROVE CallerFrame
    <2>1. Fresh \in Actions
      BY <1>4, FreshIsAction DEF CtlSendReplacing, AdmitReplacing, MaySend
    <2>2. Fresh \in Admitted'
      BY <1>4, <2>1 DEF CtlSendReplacing, AdmitReplacing, ControllerTypeOK, Admitted
    <2>3. CASE CallReplace(Fresh)
      BY <2>2, <2>3 DEF CallReplace
    <2>4. CASE CallReplaceRaises
      BY <2>4 DEF CallReplaceRaises
    <2> QED
      BY <1>4, <2>3, <2>4 DEF CtlSendReplacing
  <1>5. ASSUME NEW m \in Methods, NEW t \in Actions \cup {None}, CtlStop(c, m, t)
        PROVE  CallerFrame
    BY <1>5 DEF CtlStop
  <1>6. ASSUME CtlEnableZero(c) PROVE CallerFrame
    BY <1>6 DEF CtlEnableZero, CallWriteZero
  <1>7. ASSUME CtlEnableClose(c) PROVE CallerFrame
    BY <1>7 DEF CtlEnableClose, CallCloseZero
  <1>8. ASSUME CtlEnableReturns(c) PROVE CallerFrame
    BY <1>8 DEF CtlEnableReturns, CallRaiseLine
  <1>9. ASSUME CtlEnableRaises(c) PROVE CallerFrame
    BY <1>9 DEF CtlEnableRaises, CallEnableFails
  <1>10. ASSUME CtlSetStop(c) PROVE CallerFrame
    BY <1>10 DEF CtlSetStop, CallSetStop
  <1>11. ASSUME CtlGrabThread(c) PROVE CallerFrame
    BY <1>11 DEF CtlGrabThread, CallGrabThread
  <1>12. ASSUME CtlStopReturns(c) PROVE CallerFrame
    BY <1>12 DEF CtlStopReturns, CallStopReturns
  <1>13. ASSUME CtlStopMark(c) \/ CtlDisableRaises(c) PROVE CallerFrame
    BY <1>13 DEF CtlStopMark, CtlDisableRaises
  <1>14. ASSUME CtlDisableOff(c) PROVE CallerFrame
    BY <1>14 DEF CtlDisableOff
  <1>15. ASSUME CtlCloseReturns(c) PROVE CallerFrame
    BY <1>15 DEF CtlCloseReturns, CallReleaseLine, CallStopReturns
  <1> HIDE DEF CallerFrame
  <1> QED
    BY <1>1, <1>2, <1>3, <1>4, <1>5, <1>6, <1>7, <1>8, <1>9, <1>10, <1>11, <1>12, <1>13,
       <1>14, <1>15 DEF CallBegin, CallerStep

LEMMA CallerKeepsWorkerInv ==
    ASSUME BackendTypeOK, WorkerInv, CallerFrame
    PROVE  WorkerInv'
  <1>1. CASE /\ Fresh \in Actions /\ MayStart /\ thread' = Fresh
             /\ wpc' = [wpc EXCEPT ![Fresh] = "open"]
             /\ UNCHANGED <<task, reserved, failed>>
    <2>1. \A w \in Actions : wpc[w] \in {"none", "dead"}
      BY <1>1 DEF MayStart, WorkerInv, Workers, Alive
    <2>2. task = None /\ reserved = None
      BY <2>1 DEF WorkerInv, BackendTypeOK, Registered, Reserving
    <2>3. \A w \in Actions : w # Fresh => wpc'[w] \in {"none", "dead"}
      BY <1>1, <2>1 DEF BackendTypeOK
    <2>4. wpc'[Fresh] = "open"
      BY <1>1 DEF BackendTypeOK
    <2>5. \A w \in Workers' : w = thread'
      BY <1>1, <2>3 DEF Workers, Alive
    <2>6. \A w \in Actions : StopSeen(w)'
      BY <2>3, <2>4 DEF StopSeen, Leaving
    <2> QED
      BY <1>1, <2>2, <2>5, <2>6 DEF WorkerInv
  <1>2. CASE /\ UNCHANGED <<wpc, failed, thread, task, reserved>>
             /\ stopEvent => stopEvent'
    BY <1>2 DEF WorkerInv, Workers, Alive, StopSeen
  <1> QED
    BY <1>1, <1>2 DEF CallerFrame
-----------------------------------------------------------------------------
\* Every step of a caller is a step of the controller, or none to it.
LEMMA CallerActs ==
    ASSUME NEW c \in Callers, CallBegin(c) \/ CallerStep(c)
    PROVE  CallerAction(c) \/ UNCHANGED ctlVars
  BY DEF CallBegin, CallerStep, CallerAction, CtlEnable, CtlEnableZero, CtlEnableClose,
     CtlEnableReturns, CtlEnableRaises, CtlReject, CtlSendFirst, CtlSendReplacing, CtlStop,
     CtlSetStop, CtlGrabThread, CtlStopReturns, CtlStopMark, CtlDisableOff,
     CtlDisableRaises, CtlCloseReturns

\* Every step of a worker is a callback for an admitted action, or nothing to
\* the controller.
LEMMA WorkerRefines ==
    ASSUME BackendTypeOK, HeldAdmitted, NEW w \in Actions, WorkerStep(w)
    PROVE  [ControllerNext]_ctlVars
  <1>1. CASE SilentStep(w) /\ UNCHANGED ctlVars
    BY <1>1
  <1>2. CASE WorkerBegins(w)
    <2>1. w \in Admitted
      BY <1>2 DEF WorkerBegins, Begin, HeldAdmitted, Workers, Alive
    <2> QED
      BY <1>2, <2>1 DEF WorkerBegins, ControllerNext
  <1>3. CASE WorkerPlays(w)
    <2>1. pending[w] \in Seq(Actions) /\ pending[w] # <<>>
      BY <1>3 DEF WorkerPlays, Play, BackendTypeOK
    <2>2. Head(pending[w]) = pending[w][1] /\ 1 \in 1 .. Len(pending[w])
      BY <2>1
    <2>3. Head(pending[w]) \in Admitted
      BY <2>2 DEF HeldAdmitted
    <2> QED
      BY <1>3, <2>3 DEF WorkerPlays, ControllerNext
  <1>4. CASE WorkerKept(w)
    <2>1. current[w] \in Admitted
      BY <1>4 DEF WorkerKept, Keep, HeldAdmitted, Workers, Alive
    <2> QED
      BY <1>4, <2>1 DEF WorkerKept, ControllerNext
  <1>5. CASE WorkerReports(w)
    <2>1. current[w] \in Admitted
      BY <1>5 DEF WorkerReports, Report, HeldAdmitted, Workers, Alive
    <2>2. DoneReason(w) \in DoneReasons
      BY DEF DoneReason, DoneReasons
    <2> QED
      BY <1>5, <2>1, <2>2 DEF WorkerReports, ControllerNext
  <1> QED
    BY <1>1, <1>2, <1>3, <1>4, <1>5 DEF WorkerStep

\* The implementation step.
LEMMA StepRefines ==
    ASSUME BackendTypeOK, HeldAdmitted, [Next]_vars
    PROVE  [ControllerNext]_ctlVars
  <1>1. CASE UNCHANGED vars
    BY <1>1 DEF vars
  <1> QED
    BY <1>1, CallerActs, WorkerRefines DEF Next, ControllerNext

-----------------------------------------------------------------------------
LEMMA WorkerKeepsHeld ==
    ASSUME BackendTypeOK, BackendTypeOK', HeldAdmitted, Admitted \subseteq Admitted',
           NEW w \in Actions, WorkerFrame(w)
    PROVE  HeldAdmitted'
  <1>1. slot' # None => slot' \in Admitted'
    BY DEF HeldAdmitted, WorkerFrame
  <1>2. ASSUME NEW v \in Workers', wpc'[v] # "exit" PROVE v \in Admitted' /\ current'[v] \in Admitted'
    <2>0. v \in Actions /\ v \in Workers /\ wpc[v] # "exit"
      BY <1>2 DEF WorkerFrame, Workers, Alive
    <2>1. v \in Admitted /\ current[v] \in Admitted
      BY <2>0 DEF HeldAdmitted
    <2>2. current'[v] = current[v] \/ (slot # None /\ current'[v] = slot)
      BY <1>2, <2>0 DEF WorkerFrame, Workers, Alive
    <2> QED
      BY <2>1, <2>2 DEF HeldAdmitted
  <1>3. ASSUME NEW v \in Actions, NEW i \in 1 .. Len(pending'[v])
        PROVE  pending'[v][i] \in Admitted'
    <2>1. CASE v # w
      BY <1>3, <2>1 DEF HeldAdmitted, WorkerFrame
    <2>2. CASE v = w
      <3>1. Waiting(pending[w]) \subseteq Admitted
        BY DEF HeldAdmitted, Waiting
      <3>2. \/ pending'[w][i] \in Waiting(pending[w])
            \/ slot # None /\ pending'[w][i] = slot
        BY <1>3, <2>2 DEF WorkerFrame
      <3> QED
        BY <2>2, <3>1, <3>2 DEF HeldAdmitted
    <2> QED
      BY <2>1, <2>2
  <1> QED
    BY <1>1, <1>2, <1>3 DEF HeldAdmitted

LEMMA CallerKeepsHeld ==
    ASSUME BackendTypeOK, HeldAdmitted, Admitted \subseteq Admitted', CallerFrame
    PROVE  HeldAdmitted'
  <1>1. CASE /\ Fresh \in Actions /\ slot' = None
             /\ wpc' = [wpc EXCEPT ![Fresh] = "open"]
             /\ current' = [current EXCEPT ![Fresh] = Fresh]
             /\ UNCHANGED pending
             /\ Fresh \in Admitted'
    <2>1. ASSUME NEW v \in Workers', wpc'[v] # "exit"
          PROVE  v \in Admitted' /\ current'[v] \in Admitted'
      BY <1>1, <2>1 DEF HeldAdmitted, BackendTypeOK, Workers, Alive
    <2> QED
      BY <1>1, <2>1 DEF HeldAdmitted
  <1>2. CASE /\ UNCHANGED <<wpc, current, pending>>
             /\ slot' = slot \/ slot' \in Admitted'
    <2>1. Workers' = Workers
      BY <1>2 DEF Workers, Alive
    <2> QED
      BY <1>2, <2>1 DEF HeldAdmitted
  <1> QED
    BY <1>1, <1>2 DEF CallerFrame
-----------------------------------------------------------------------------
LEMMA HardwareInitInv == Init => HardwareInv
  <1> SUFFICES ASSUME Init PROVE HardwareInv
    OBVIOUS
  <1>1. ControllerInv /\ BackendTypeOK
    BY InitInv, BackendInitTyped DEF Init
  <1>2. Workers = {} /\ task = None /\ reserved = None /\ slot = None
    BY DEF Init, BackendInit, Workers, Alive
  <1>3. \A w \in Actions : StopSeen(w)
    BY DEF Init, BackendInit, StopSeen, Leaving
  <1>4. \A w \in Actions : Len(pending[w]) = 0
    BY DEF Init, BackendInit
  <1>5. HeldAdmitted
    BY <1>2, <1>4 DEF HeldAdmitted
  <1> QED
    BY <1>1, <1>2, <1>3, <1>5 DEF HardwareInv, WorkerInv

LEMMA HardwareStepInv == HardwareInv /\ [Next]_vars => HardwareInv'
  <1> SUFFICES ASSUME HardwareInv, [Next]_vars PROVE HardwareInv'
    OBVIOUS
  <1>0. /\ ControllerInv /\ ControllerTypeOK
        /\ BackendTypeOK /\ WorkerInv /\ HeldAdmitted
    BY DEF HardwareInv, ControllerInv
  <1>1. [ControllerNext]_ctlVars
    BY <1>0, StepRefines
  <1>2. ControllerInv' /\ Admitted \subseteq Admitted'
    BY <1>0, <1>1, StepInv, AdmittedGrows
  <1>3. ASSUME NEW c \in Callers, CallBegin(c) \/ CallerStep(c)
        PROVE  BackendTypeOK' /\ WorkerInv' /\ HeldAdmitted'
    <2>1. CallerFrame
      BY <1>0, <1>3, CallerFramed
    <2> QED
      BY <1>0, <1>2, <1>3, <2>1, CallerTyped, CallerKeepsWorkerInv, CallerKeepsHeld
  <1>4. ASSUME NEW w \in Actions, WorkerStep(w), UNCHANGED <<line, backCallVars>>
        PROVE  BackendTypeOK' /\ WorkerInv' /\ HeldAdmitted'
    <2>1. WorkerFrame(w)
      BY <1>0, <1>4, WorkerFramed
    <2>2. BackendTypeOK'
      BY <1>0, <1>4, WorkerTyped
    <2> QED
      BY <1>0, <1>2, <2>1, <2>2, WorkerKeepsWorkerInv, WorkerKeepsHeld
  <1>5. CASE UNCHANGED vars
    <2>1. BackendTypeOK'
      BY <1>0, <1>5 DEF vars, backVars, slotVars, coilVars, workVars, backCallVars, BackendTypeOK
    <2>2. WorkerInv'
      BY <1>0, <1>5 DEF vars, backVars, slotVars, coilVars, workVars, WorkerInv, Workers, Alive,
         StopSeen
    <2>3. HeldAdmitted'
      BY <1>0, <1>5 DEF vars, backVars, slotVars, workVars, ctlVars, recordVars, HeldAdmitted,
         Workers, Alive, Admitted
    <2> QED
      BY <1>2, <2>1, <2>2, <2>3 DEF HardwareInv
  <1> QED
    BY <1>2, <1>3, <1>4, <1>5 DEF HardwareInv, Next

\* The inductive invariant of the composition.
THEOREM HardwareInvariant == Spec => []HardwareInv
  BY HardwareInitInv, HardwareStepInv, PTL DEF Spec

\* The controller in the hands of the NI-DAQmx backend does only what the
\* controller with an arbitrary backend may do: the backend calls back for
\* actions it was given, and enable(), stop() and disable() keep their order.
THEOREM HardwareImplementsController == Spec => ControllerSpec
  <1>1. Init => ControllerInit
    BY DEF Init
  <1>2. HardwareInv /\ [Next]_vars => [ControllerNext]_ctlVars
    BY StepRefines DEF HardwareInv
  <1> QED
    BY <1>1, <1>2, HardwareInvariant, PTL DEF Spec, ControllerSpec

\* Types of the backend's state.
THEOREM BackendTyping == Spec => []BackendTypeOK
  BY HardwareInvariant, PTL DEF HardwareInv

\* With real hardware, too, _active names an action that is not over.
THEOREM HardwareActiveIsLive == Spec => []ActiveIsLive
  BY HardwareImplementsController, ActiveIsAlwaysLive, PTL

\* There is never more than one worker thread, not even when a join times out:
\* start() refuses while the last one lives.
THEOREM WorkersAreSingle == Spec => []OneWorker
  <1>1. HardwareInv => OneWorker
    BY DEF HardwareInv, WorkerInv, OneWorker, Workers
  <1> QED
    BY <1>1, HardwareInvariant, PTL

\* The registered task and the reserved outputs belong to the thread that
\* stop() would join.
THEOREM OwnersAreLive == Spec => []OwnerIsLive
  <1>1. HardwareInv => OwnerIsLive
    <2> SUFFICES ASSUME HardwareInv PROVE OwnerIsLive
      OBVIOUS
    <2>1. task # None => Alive(task)
      BY DEF HardwareInv, WorkerInv, BackendTypeOK, Alive, Registered
    <2>2. reserved # None => Alive(reserved)
      BY DEF HardwareInv, WorkerInv, BackendTypeOK, Alive, Reserving, Registered
    <2>3. \A w \in Actions : Alive(w) => w = thread
      BY DEF HardwareInv, WorkerInv, Workers
    <2> QED
      BY <2>1, <2>2, <2>3 DEF OwnerIsLive, Alive
  <1> QED
    BY <1>1, HardwareInvariant, PTL
-----------------------------------------------------------------------------
\* A status is written to one record at a time, or to two by a replacement.
LEMMA NotCompleted ==
    ASSUME ControllerTypeOK, NeverCompleted, NEW a \in Actions,
           NEW s \in Statuses \ {"completed"}, Emit(a, s)
    PROVE  NeverCompleted'
  BY DEF NeverCompleted, ControllerTypeOK, Emit

LEMMA CallerNeverCompletes ==
    ASSUME ControllerInv, NeverCompleted, NEW c \in Callers, CallerAction(c)
    PROVE  NeverCompleted'
  <1>0. ControllerTypeOK
    BY DEF ControllerInv
  <1>1. ASSUME NEW valid \in Validity, Reject(c, valid) PROVE NeverCompleted'
    <2>1. Fresh \in Actions /\ Emit(Fresh, "rejected")
      BY <1>0, <1>1, FreshIsAction DEF Reject, MaySend
    <2> QED
      BY <1>0, <2>1, NotCompleted DEF Statuses
  <1>2. CASE AdmitFirst(c)
    BY <1>0, <1>2 DEF AdmitFirst, ControllerTypeOK, NeverCompleted
  <1>3. CASE AdmitReplacing(c)
    BY <1>0, <1>3 DEF AdmitReplacing, ReplaceActive, ControllerTypeOK, NeverCompleted
  <1>4. CASE StopMark(c)
    <2>1. target[c] \in Actions \cup {None}
      BY <1>0 DEF ControllerTypeOK
    <2>2. (target[c] \in Actions /\ Emit(target[c], "stopped")) \/ UNCHANGED status
      BY <1>4, <2>1 DEF StopMark, MarkStopped
    <2> QED
      BY <1>0, <2>1, <2>2, NotCompleted DEF Statuses, NeverCompleted
  <1>5. CASE \/ Enable(c) \/ EnableReturns(c) \/ EnableRaises(c) \/ StopReturns(c)
             \/ DisableOff(c) \/ DisableRaises(c) \/ CloseReturns(c)
             \/ \E m \in Methods, t \in Actions \cup {None} : StopBegin(c, m, t)
    BY <1>5 DEF Enable, EnableReturns, EnableRaises, StopReturns, DisableOff, DisableRaises,
       CloseReturns, StopBegin, recordVars, NeverCompleted
  <1> QED
    BY <1>1, <1>2, <1>3, <1>4, <1>5 DEF CallerAction

\* The loop is left by a stop or a fault only, so on_done never reports that
\* an action completed.
LEMMA WorkerNeverCompletes ==
    ASSUME HardwareInv, NeverCompleted, NEW w \in Actions, WorkerStep(w)
    PROVE  NeverCompleted'
  <1>0. ControllerTypeOK /\ BackendTypeOK /\ HeldAdmitted /\ StopSeen(w)
    BY DEF HardwareInv, ControllerInv, WorkerInv
  <1>1. CASE SilentStep(w) /\ UNCHANGED ctlVars
    BY <1>1 DEF ctlVars, recordVars, NeverCompleted
  <1>2. ASSUME NEW a \in Actions, Started(a) PROVE NeverCompleted'
    BY <1>0, <1>2, NotCompleted DEF Started, Statuses
  <1>3. CASE WorkerBegins(w)
    BY <1>2, <1>3 DEF WorkerBegins
  <1>4. CASE WorkerPlays(w)
    <2>1. Head(pending[w]) \in Actions
      BY <1>0, <1>4 DEF WorkerPlays, Play, BackendTypeOK
    <2> QED
      BY <1>2, <1>4, <2>1 DEF WorkerPlays
  <1>5. CASE WorkerKept(w)
    <2>1. current[w] \in Actions
      BY <1>0, <1>5 DEF WorkerKept, Keep, HeldAdmitted, Workers, Alive, Admitted
    <2>2. Emit(current[w], "duration_elapsed") \/ UNCHANGED status
      BY <1>5 DEF WorkerKept, DurationElapsed
    <2> QED
      BY <1>0, <2>1, <2>2, NotCompleted DEF Statuses, NeverCompleted
  <1>6. CASE WorkerReports(w)
    <2>1. current[w] \in Actions
      BY <1>0, <1>6 DEF WorkerReports, Report, HeldAdmitted, Workers, Alive, Admitted
    <2>2. DoneReason(w) \in {"fault", "stopped"}
      BY <1>0, <1>6 DEF WorkerReports, Report, StopSeen, Leaving, DoneReason
    <2>3. DoneStatus(current[w], DoneReason(w)) \/ UNCHANGED status
      BY <1>6 DEF WorkerReports, Done
    <2>4. CASE DoneReason(w) = "fault"
      BY <1>0, <2>1, <2>3, <2>4, NotCompleted DEF DoneStatus, Statuses, NeverCompleted
    <2>5. CASE DoneReason(w) = "stopped"
      BY <2>3, <2>5 DEF DoneStatus, NeverCompleted
    <2> QED
      BY <2>2, <2>4, <2>5
  <1> QED
    BY <1>1, <1>3, <1>4, <1>5, <1>6 DEF WorkerStep

\* A stream ends by a stop, a replacement or a fault: no record rests at
\* "completed".
THEOREM NothingCompletes == Spec => []NeverCompleted
  <1>1. Init => NeverCompleted
    BY DEF Init, ControllerInit, NeverCompleted
  <1>2. HardwareInv /\ NeverCompleted /\ [Next]_vars => NeverCompleted'
    <2> SUFFICES ASSUME HardwareInv, NeverCompleted, [Next]_vars PROVE NeverCompleted'
      OBVIOUS
    <2>1. ASSUME NEW c \in Callers, CallBegin(c) \/ CallerStep(c) PROVE NeverCompleted'
      <3>1. CallerAction(c) \/ UNCHANGED ctlVars
        BY <2>1, CallerActs
      <3> QED
        BY <3>1, CallerNeverCompletes DEF HardwareInv, ctlVars, recordVars, NeverCompleted
    <2>2. CASE UNCHANGED vars
      BY <2>2 DEF vars, ctlVars, recordVars, NeverCompleted
    <2> QED
      BY <2>1, <2>2, WorkerNeverCompletes DEF Next
  <1> QED
    BY <1>1, <1>2, HardwareInvariant, PTL DEF Spec

-----------------------------------------------------------------------------
\* The amplifier-enable line is high only while the controller is enabled, in
\* whatever order callers enable, disable and close.
THEOREM AmplifierFollowsEnabled == Spec => []AmplifierImpliesEnabled
  <1>1. Init => AmplifierImpliesEnabled
    BY DEF Init, BackendInit, AmplifierImpliesEnabled
  <1>2. AmplifierImpliesEnabled /\ [Next]_vars => AmplifierImpliesEnabled'
    <2> SUFFICES ASSUME AmplifierImpliesEnabled, [Next]_vars PROVE AmplifierImpliesEnabled'
      OBVIOUS
    <2> USE DEF AmplifierImpliesEnabled
    <2>1. ASSUME NEW c \in Callers, CallBegin(c) PROVE AmplifierImpliesEnabled'
      BY <2>1 DEF CallBegin, CtlEnable, Enable, CallInitialize, CtlReject, Reject, CtlSendFirst,
         AdmitFirst, CallStart, CallStartRaises, CtlSendReplacing, AdmitReplacing, CallReplace,
         CallReplaceRaises, CtlStop, StopBegin, backVars
    <2>2. ASSUME NEW c \in Callers, CtlEnableReturns(c) PROVE AmplifierImpliesEnabled'
      BY <2>2 DEF CtlEnableReturns, EnableReturns
    <2>3. ASSUME NEW c \in Callers, CtlDisableOff(c) PROVE AmplifierImpliesEnabled'
      BY <2>3 DEF CtlDisableOff, CallLowerLine
    <2>4. ASSUME NEW c \in Callers, CtlCloseReturns(c) PROVE AmplifierImpliesEnabled'
      BY <2>4 DEF CtlCloseReturns, CallReleaseLine
    <2>5. ASSUME NEW c \in Callers,
                 \/ CtlEnableZero(c) \/ CtlEnableClose(c) \/ CtlEnableRaises(c)
                 \/ CtlSetStop(c) \/ CtlGrabThread(c) \/ CtlStopReturns(c)
                 \/ CtlStopMark(c) \/ CtlDisableRaises(c)
          PROVE  AmplifierImpliesEnabled'
      BY <2>5 DEF CtlEnableZero, CallWriteZero, CtlEnableClose, CallCloseZero, CtlEnableRaises,
         EnableRaises, CallEnableFails, CtlSetStop, CallSetStop, CtlGrabThread, CallGrabThread,
         CtlStopReturns, StopReturns, CtlStopMark, StopMark, CtlDisableRaises, DisableRaises,
         ctlVars, backVars
    <2>6. ASSUME NEW w \in Actions, WorkerStep(w), UNCHANGED line
          PROVE  AmplifierImpliesEnabled'
      BY <2>6 DEF WorkerStep, WorkerBegins, WorkerPlays, WorkerKept, WorkerReports, Started,
         DurationElapsed, Done, ctlVars
    <2>7. CASE UNCHANGED vars
      BY <2>7 DEF vars, ctlVars, backVars
    <2> QED
      BY <2>1, <2>2, <2>3, <2>4, <2>5, <2>6, <2>7 DEF Next, CallerStep
  <1> QED
    BY <1>1, <1>2, PTL DEF Spec
-----------------------------------------------------------------------------
\* The live worker is the only one, so its step has to be looked at for it alone.
LEMMA OnlyWorker ==
    ASSUME BackendTypeOK, WorkerInv, NEW w \in Actions, WorkerFrame(w)
    PROVE  /\ Workers = {w} /\ w = thread /\ thread' = thread /\ Workers' \subseteq {w}
           /\ \A v \in Actions : v # w =>
                  /\ wpc[v] \in {"none", "dead"} /\ wpc'[v] = wpc[v] /\ pending'[v] = pending[v]
  <1>1. w \in Workers
    BY DEF WorkerFrame, Workers, Alive
  <1>2. \A v \in Workers : v = w
    BY <1>1 DEF WorkerInv
  <1>3. \A v \in Actions : v # w => wpc[v] \in {"none", "dead"}
    BY <1>2 DEF Workers, Alive
  <1> QED
    BY <1>1, <1>2, <1>3 DEF WorkerFrame, WorkerInv, Workers, Alive

\* What a call does to the worker's side: it launches a worker, posts a
\* replacement, or leaves it alone.
CallFrame ==
    /\ issued' \in {issued, Fresh}
    /\ pending' = pending
    /\ \/ /\ issued < MaxActions /\ issued' = Fresh /\ MayStart
          /\ thread' = Fresh /\ slot' = None
          /\ wpc' = [wpc EXCEPT ![Fresh] = "open"]
          /\ current' = [current EXCEPT ![Fresh] = Fresh]
          /\ status'[Fresh] = "queued"
       \/ /\ issued < MaxActions /\ issued' = Fresh /\ slot' = Fresh
          /\ UNCHANGED <<thread, wpc, current>>
          /\ status'[Fresh] = "queued"
       \/ UNCHANGED <<thread, wpc, current, slot>>

LEMMA CallFramed ==
    ASSUME ControllerInv, NEW c \in Callers, CallBegin(c) \/ CallerStep(c)
    PROVE  CallFrame
  <1> USE DEF CallFrame, slotVars, coilVars, workVars, backVars, ctlVars, recordVars
  <1>1. CASE CtlEnable(c) \/ CtlEnableZero(c) \/ CtlEnableClose(c)
    BY <1>1 DEF CtlEnable, Enable, CallInitialize, CtlEnableZero, CallWriteZero, CtlEnableClose,
       CallCloseZero
  <1>2. CASE CtlEnableReturns(c) \/ CtlEnableRaises(c)
    BY <1>2 DEF CtlEnableReturns, EnableReturns, CallRaiseLine, CtlEnableRaises, EnableRaises,
       CallEnableFails
  <1>3. ASSUME NEW valid \in Validity, CtlReject(c, valid) PROVE CallFrame
    BY <1>3 DEF CtlReject, Reject
  <1>4. CASE CtlSendFirst(c)
    <2>1. issued < MaxActions /\ status' = [status EXCEPT ![Fresh] = "queued"]
      BY <1>4 DEF CtlSendFirst, AdmitFirst, MaySend
    <2>2. status'[Fresh] = "queued"
      BY <2>1, FreshFacts DEF ControllerInv, ControllerTypeOK
    <2> QED
      BY <1>4, <2>1, <2>2 DEF CtlSendFirst, AdmitFirst, CallStart, CallStartRaises
  <1>5. CASE CtlSendReplacing(c)
    <2>1. /\ issued < MaxActions /\ active # None
          /\ status' = [status EXCEPT ![Fresh] = "queued", ![active] = "replaced"]
      BY <1>5 DEF CtlSendReplacing, AdmitReplacing, MaySend, ReplaceActive
    <2>2. Fresh \in Actions /\ Fresh # active
      BY <2>1, FreshFacts, ActiveFacts
    <2>3. status'[Fresh] = "queued"
      BY <2>1, <2>2 DEF ControllerInv, ControllerTypeOK
    <2> QED
      BY <1>5, <2>1, <2>3 DEF CtlSendReplacing, AdmitReplacing, CallReplace, CallReplaceRaises
  <1>6. ASSUME NEW m \in Methods, NEW t \in Actions \cup {None}, CtlStop(c, m, t) PROVE CallFrame
    BY <1>6 DEF CtlStop, StopBegin
  <1>7. CASE CtlSetStop(c) \/ CtlGrabThread(c) \/ CtlStopReturns(c)
    BY <1>7 DEF CtlSetStop, CallSetStop, CtlGrabThread, CallGrabThread, CtlStopReturns,
       StopReturns, CallStopReturns
  <1>8. CASE CtlStopMark(c) \/ CtlDisableOff(c) \/ CtlDisableRaises(c) \/ CtlCloseReturns(c)
    BY <1>8 DEF CtlStopMark, StopMark, CtlDisableOff, DisableOff, CtlDisableRaises, DisableRaises,
       CtlCloseReturns, CloseReturns, CallReleaseLine, CallStopReturns
  <1> HIDE DEF CallFrame
  <1> QED
    BY <1>1, <1>2, <1>3, <1>4, <1>5, <1>6, <1>7, <1>8 DEF CallBegin, CallerStep
-----------------------------------------------------------------------------
\* What ends stays ended, as long as stop() waits for the worker.

\* The worker may still report something.
InRun(w) == wpc[w] \notin {"none", "exit", "dead"}

\* The actions it may report of.
HeldBy(w) == {w, current[w]} \cup Waiting(pending[w]) \cup ({slot} \ {None})

\* What is still being played was sent after the action that the stop() of c
\* is about to mark.
Newer(c) == \A w \in Actions : InRun(w) => \A a \in HeldBy(w) : target[c] < a

\* A worker holds no action that has ended: a stop() marks its action when the
\* worker it met is gone, and any worker since then has newer actions.
SettledInv ==
    /\ \A w \in Actions : wpc[w] = "none" => pending[w] = <<>>
    /\ \A w \in Actions : wpc[w] # "none" => w <= issued
    /\ \A w \in Actions : InRun(w) => \A a \in HeldBy(w) : status[a] \notin Settled
    /\ \A c \in Callers :
        pc[c] = "stopping" /\ call[c] = "join" => joining[c] = thread \/ Newer(c)
    /\ \A c \in Callers : pc[c] = "marking" => Newer(c)

LEMMA HeldIsAdmitted ==
    ASSUME HeldAdmitted, NEW w \in Actions, InRun(w), NEW a \in HeldBy(w)
    PROVE  a \in Admitted
  <1>1. w \in Workers /\ wpc[w] # "exit"
    BY DEF InRun, Workers, Alive
  <1> QED
    BY <1>1 DEF HeldBy, HeldAdmitted, Waiting

\* A worker in run() only gets what was in the slot, which it held already.
LEMMA WorkerHolds ==
    ASSUME BackendTypeOK, NEW w \in Actions, WorkerFrame(w), InRun(w)'
    PROVE  InRun(w) /\ HeldBy(w)' \subseteq HeldBy(w)
  <1>1. wpc[w] \notin {"none", "exit", "dead"} /\ wpc'[w] \notin {"none", "exit", "dead"}
    BY DEF WorkerFrame, InRun
  <1>2. current'[w] = current[w] \/ (slot # None /\ current'[w] = slot)
    BY <1>1 DEF WorkerFrame
  <1>3. Waiting(pending'[w]) \subseteq Waiting(pending[w]) \cup ({slot} \ {None})
    <2>1. ASSUME NEW i \in 1 .. Len(pending'[w])
          PROVE  pending'[w][i] \in Waiting(pending[w]) \cup ({slot} \ {None})
      BY DEF WorkerFrame
    <2> QED
      BY <2>1 DEF Waiting
  <1>4. slot' \in {slot, None}
    BY DEF WorkerFrame
  <1> QED
    BY <1>1, <1>2, <1>3, <1>4 DEF InRun, HeldBy

\* All that one step of the worker w may write to the records.
WorkerWrites(w) ==
    /\ UNCHANGED <<issued, callVars>>
    /\ \A a \in Actions :
        \/ status'[a] = status[a]
        \/ a \in HeldBy(w) /\ InRun(w) /\ (status'[a] \notin Settled \/ ~InRun(w)')

LEMMA WorkerWritesHeld ==
    ASSUME ControllerTypeOK, BackendTypeOK, HeldAdmitted, NEW w \in Actions, WorkerStep(w)
    PROVE  WorkerWrites(w)
  <1> USE DEF WorkerWrites
  <1>0. WorkerFrame(w)
    BY WorkerFramed
  <1>1. ASSUME NEW a \in Actions, Started(a), a \in HeldBy(w), InRun(w) PROVE WorkerWrites(w)
    <2>1. Emit(a, "started") /\ "started" \in Statuses /\ "started" \notin Settled
      BY <1>1 DEF Started, Statuses, Settled
    <2> QED
      BY <1>1, <2>1, EmitFacts DEF Started
  <1>2. CASE SilentStep(w) /\ UNCHANGED ctlVars
    BY <1>2 DEF ctlVars, recordVars
  <1>3. CASE WorkerBegins(w)
    BY <1>1, <1>3 DEF WorkerBegins, Begin, HeldBy, InRun
  <1>4. CASE WorkerPlays(w)
    <2>1. pending[w] \in Seq(Actions) /\ pending[w] # <<>> /\ InRun(w)
      BY <1>4 DEF WorkerPlays, Play, BackendTypeOK, InRun
    <2>2. Head(pending[w]) \in Actions /\ Head(pending[w]) = pending[w][1]
      BY <2>1
    <2>3. 1 \in 1 .. Len(pending[w])
      BY <2>1
    <2>4. Head(pending[w]) \in HeldBy(w)
      BY <2>2, <2>3 DEF HeldBy, Waiting
    <2> QED
      BY <1>1, <1>4, <2>1, <2>2, <2>4 DEF WorkerPlays
  <1>5. CASE WorkerKept(w)
    <2>1. InRun(w) /\ current[w] \in HeldBy(w) /\ DurationElapsed(current[w])
      BY <1>5 DEF WorkerKept, Keep, InRun, HeldBy
    <2>2. current[w] \in Actions
      BY <2>1, HeldIsAdmitted DEF Admitted
    <2>3. Emit(current[w], "duration_elapsed") \/ UNCHANGED status
      BY <2>1 DEF DurationElapsed
    <2>4. "duration_elapsed" \in Statuses /\ "duration_elapsed" \notin Settled
      BY DEF Statuses, Settled
    <2> QED
      BY <2>1, <2>2, <2>3, <2>4, EmitFacts DEF DurationElapsed
  <1>6. CASE WorkerReports(w)
    <2>1. InRun(w) /\ ~InRun(w)' /\ current[w] \in HeldBy(w) /\ Done(current[w], DoneReason(w))
      BY <1>6 DEF WorkerReports, Report, Go, BackendTypeOK, InRun, HeldBy
    <2>2. current[w] \in Actions
      BY <2>1, HeldIsAdmitted DEF Admitted
    <2>3. DoneReason(w) \in DoneReasons
      BY DEF DoneReason, DoneReasons
    <2>4. Emit(current[w], "failed") \/ Emit(current[w], "completed") \/ UNCHANGED status
      BY <2>1, <2>2, <2>3, DoneEmits DEF Done
    <2>5. {"failed", "completed"} \subseteq Statuses
      BY DEF Statuses
    <2> QED
      BY <2>1, <2>2, <2>4, <2>5, EmitFacts DEF Done
  <1> QED
    BY <1>2, <1>3, <1>4, <1>5, <1>6 DEF WorkerStep

LEMMA WorkerKeepsSettled ==
    ASSUME BackendTypeOK, ControllerTypeOK, WorkerInv, HeldAdmitted, SettledInv, NEW w \in Actions,
           WorkerStep(w), UNCHANGED <<line, backCallVars>>
    PROVE  /\ SettledInv'
           /\ \A a \in Actions : status[a] \in Settled => status'[a] = status[a]
  <1>1. WorkerFrame(w) /\ WorkerWrites(w)
    BY WorkerFramed, WorkerWritesHeld
  <1>2. \A v \in Actions : v # w => wpc'[v] = wpc[v] /\ pending'[v] = pending[v] /\ ~InRun(v)'
    BY <1>1, OnlyWorker DEF InRun
  <1>3. ASSUME NEW v \in Actions, InRun(v)', NEW a \in HeldBy(v)'
        PROVE  v = w /\ InRun(w) /\ a \in HeldBy(w) /\ a \in Actions
    <2>1. v = w
      BY <1>2, <1>3
    <2>2. InRun(w) /\ a \in HeldBy(w)
      BY <1>1, <1>3, <2>1, WorkerHolds
    <2> QED
      BY <2>1, <2>2, HeldIsAdmitted DEF Admitted
  <1>4. \A v \in Actions : wpc'[v] = "none" => pending'[v] = <<>>
    BY <1>1, <1>2 DEF WorkerFrame, SettledInv
  <1>5. \A v \in Actions : wpc'[v] # "none" => v <= issued'
    BY <1>1, <1>2 DEF WorkerFrame, WorkerWrites, SettledInv
  <1>6. ASSUME NEW v \in Actions, InRun(v)', NEW a \in HeldBy(v)' PROVE status'[a] \notin Settled
    BY <1>1, <1>3, <1>6 DEF WorkerWrites, SettledInv
  <1>7. /\ UNCHANGED <<pc, target, call, joining, thread>>
        /\ \A c \in Callers : Newer(c) => Newer(c)'
    BY <1>1, <1>3 DEF WorkerFrame, WorkerWrites, callVars, backCallVars, Newer
  <1>8. SettledInv'
    BY <1>4, <1>5, <1>6, <1>7 DEF SettledInv
  <1>9. \A a \in Actions : status[a] \in Settled => status'[a] = status[a]
    BY <1>1 DEF WorkerWrites, SettledInv
  <1> QED
    BY <1>8, <1>9

\* All that a step of the caller c may write to the records and to the locals
\* of stop().
CallerWrites(c) ==
    /\ \A a \in Actions :
        \/ status'[a] = status[a]
        \/ a > issued
        \/ a = active /\ status'[a] = "replaced"
        \/ pc[c] = "marking" /\ a = target[c] /\ status[a] \notin Settled
    /\ \A d \in Callers : d # c =>
        /\ pc'[d] = pc[d] /\ target'[d] = target[d]
        /\ call'[d] = call[d] /\ joining'[d] = joining[d]
    /\ pc'[c] = "marking" =>
        /\ target'[c] = target[c]
        /\ pc[c] = "marking" \/ (pc[c] = "stopping" /\ call[c] = "join" /\ Joined(c))
    /\ pc'[c] = "stopping" /\ call'[c] = "join" =>
        /\ target'[c] = target[c] /\ pc[c] = "stopping" /\ thread' = thread
        /\ joining'[c] = thread \/ (call[c] = "join" /\ joining'[c] = joining[c])

LEMMA CallerWritesFramed ==
    ASSUME ControllerInv, BackendTypeOK, NEW c \in Callers, CallBegin(c) \/ CallerStep(c)
    PROVE  CallerWrites(c)
  <1>0. ControllerTypeOK
    BY DEF ControllerInv
  <1> USE DEF CallerWrites, BackendTypeOK, ControllerTypeOK, CallMove, Move, Return, slotVars,
              workVars, backVars, ctlVars, recordVars, callVars
  <1>1. CASE CtlEnable(c)
    BY <1>0, <1>1 DEF CtlEnable, Enable, CallInitialize
  <1>2. CASE CtlEnableZero(c) \/ CtlEnableClose(c)
    BY <1>0, <1>2 DEF CtlEnableZero, CallWriteZero, CtlEnableClose, CallCloseZero
  <1>3. CASE CtlEnableReturns(c) \/ CtlEnableRaises(c)
    BY <1>0, <1>3 DEF CtlEnableReturns, EnableReturns, CallRaiseLine, CtlEnableRaises, EnableRaises,
       CallEnableFails
  <1>4. ASSUME NEW valid \in Validity, CtlReject(c, valid) PROVE CallerWrites(c)
    <2>1. issued < MaxActions /\ status' = [status EXCEPT ![Fresh] = "rejected"]
      BY <1>4 DEF CtlReject, Reject, MaySend, Emit
    <2>2. \A a \in Actions : status'[a] = status[a] \/ a > issued
      BY <1>0, <2>1, FreshFacts
    <2> QED
      BY <1>4, <2>2 DEF CtlReject, Reject, MaySend, backCallVars
  <1>5. CASE CtlSendFirst(c)
    <2>1. issued < MaxActions /\ status' = [status EXCEPT ![Fresh] = "queued"]
      BY <1>5 DEF CtlSendFirst, AdmitFirst, MaySend
    <2>2. \A a \in Actions : status'[a] = status[a] \/ a > issued
      BY <1>0, <2>1, FreshFacts
    <2> QED
      BY <1>5, <2>2 DEF CtlSendFirst, AdmitFirst, MaySend, CallStart, CallStartRaises, backCallVars
  <1>6. CASE CtlSendReplacing(c)
    <2>1. /\ issued < MaxActions /\ active # None
          /\ status' = [status EXCEPT ![Fresh] = "queued", ![active] = "replaced"]
      BY <1>6 DEF CtlSendReplacing, AdmitReplacing, MaySend, ReplaceActive
    <2>2. \A a \in Actions : \/ status'[a] = status[a] \/ a > issued
                             \/ a = active /\ status'[a] = "replaced"
      BY <1>0, <2>1, FreshFacts
    <2> QED
      BY <1>6, <2>2 DEF CtlSendReplacing, AdmitReplacing, MaySend, CallReplace, CallReplaceRaises,
         backCallVars
  <1>7. ASSUME NEW m \in Methods, NEW t \in Actions \cup {None}, CtlStop(c, m, t)
        PROVE  CallerWrites(c)
    BY <1>0, <1>7 DEF CtlStop, StopBegin
  <1>8. CASE CtlSetStop(c) \/ CtlGrabThread(c)
    BY <1>0, <1>8 DEF CtlSetStop, CallSetStop, CtlGrabThread, CallGrabThread
  <1>9. CASE CtlStopReturns(c)
    BY <1>0, <1>9 DEF CtlStopReturns, StopReturns, CallStopReturns
  <1>10. CASE CtlStopMark(c)
    <2>1. /\ pc[c] = "marking" /\ pc'[c] \in {"idle", "disabling"} /\ UNCHANGED <<call, joining>>
          /\ \A d \in Callers : d # c => pc'[d] = pc[d] /\ target'[d] = target[d]
      BY <1>0, <1>10 DEF CtlStopMark, StopMark, backCallVars
    <2>2. status' = status \/ (/\ target[c] \in Actions /\ status[target[c]] \notin Settled
                               /\ status' = [status EXCEPT ![target[c]] = "stopped"])
      BY <1>0, <1>10 DEF CtlStopMark, StopMark, MarkStopped, Emit
    <2>3. \A a \in Actions : status'[a] = status[a] \/ (a = target[c] /\ status[a] \notin Settled)
      BY <1>0, <2>2
    <2> QED
      BY <2>1, <2>3
  <1>11. CASE CtlDisableOff(c) \/ CtlDisableRaises(c)
    BY <1>0, <1>11 DEF CtlDisableOff, DisableOff, CtlDisableRaises, DisableRaises, backCallVars
  <1>12. CASE CtlCloseReturns(c)
    BY <1>0, <1>12 DEF CtlCloseReturns, CloseReturns, CallReleaseLine, CallStopReturns
  <1> HIDE DEF CallerWrites
  <1> QED
    BY <1>1, <1>2, <1>3, <1>4, <1>5, <1>6, <1>7, <1>8, <1>9, <1>10, <1>11, <1>12
       DEF CallBegin, CallerStep

\* What a worker holds after a call it held before, or it is the new request.
LEMMA CallerHolds ==
    ASSUME ControllerInv, BackendTypeOK, WorkerInv, SettledInv, CallFrame,
           NEW w \in Actions, InRun(w)', NEW a \in HeldBy(w)'
    PROVE  \/ issued < MaxActions /\ issued' = Fresh /\ a = Fresh /\ status'[a] = "queued"
           \/ InRun(w) /\ a \in HeldBy(w) /\ thread' = thread
  <1>1. CASE UNCHANGED <<thread, wpc, current, slot>>
    BY <1>1 DEF CallFrame, InRun, HeldBy
  <1>2. CASE /\ issued < MaxActions /\ issued' = Fresh /\ slot' = Fresh
             /\ status'[Fresh] = "queued"
             /\ UNCHANGED <<thread, wpc, current>>
    <2>1. a \in HeldBy(w) \cup {Fresh}
      BY <1>2 DEF CallFrame, HeldBy
    <2> QED
      BY <1>2, <2>1 DEF InRun
  <1>3. CASE /\ issued < MaxActions /\ issued' = Fresh /\ MayStart /\ slot' = None
             /\ status'[Fresh] = "queued"
             /\ wpc' = [wpc EXCEPT ![Fresh] = "open"]
             /\ current' = [current EXCEPT ![Fresh] = Fresh]
    <2>1. Fresh \in Actions /\ Fresh = issued + 1 /\ issued \in Nat
      BY <1>3, FreshFacts
    <2>2. w = Fresh
      BY <1>3, <2>1 DEF InRun, BackendTypeOK, MayStart, WorkerInv, Workers, Alive
    <2>3. wpc[Fresh] = "none"
      BY <2>1 DEF SettledInv
    <2>4. pending'[Fresh] = <<>> /\ Len(pending'[Fresh]) = 0
      BY <2>1, <2>3 DEF SettledInv, CallFrame
    <2>5. Waiting(pending'[Fresh]) = {}
      BY <2>4 DEF Waiting
    <2>6. current'[Fresh] = Fresh
      BY <1>3, <2>1 DEF BackendTypeOK
    <2>7. a \in {Fresh, current'[Fresh]} \cup Waiting(pending'[Fresh]) \cup ({slot'} \ {None})
      BY <2>2 DEF HeldBy
    <2>8. a = Fresh
      BY <1>3, <2>5, <2>6, <2>7
    <2> QED
      BY <1>3, <2>8
  <1> QED
    BY <1>1, <1>2, <1>3 DEF CallFrame

LEMMA CallerKeepsSettled ==
    ASSUME ControllerInv, BackendTypeOK, WorkerInv, HeldAdmitted, SettledInv, ~JoinTimeouts,
           NEW c \in Callers, CallBegin(c) \/ CallerStep(c)
    PROVE  /\ SettledInv'
           /\ \A a \in Actions : status[a] \in Settled => status'[a] = status[a]
  <1>0. ControllerTypeOK
    BY DEF ControllerInv
  <1>1. CallFrame /\ CallerWrites(c)
    BY CallFramed, CallerWritesFramed
  <1>2. issued \in Nat /\ issued' \in Nat /\ issued <= issued'
    BY <1>0, <1>1 DEF CallFrame, ControllerTypeOK, Fresh
  <1>3. \A w \in Actions : wpc'[w] = "none" => pending'[w] = <<>>
    BY <1>1, <1>2, FreshFacts DEF CallFrame, SettledInv, BackendTypeOK
  <1>4. ASSUME NEW w \in Actions, wpc'[w] # "none" PROVE w <= issued'
    <2>1. CASE wpc[w] # "none"
      BY <1>2, <2>1 DEF SettledInv
    <2>2. CASE wpc[w] = "none"
      <3>1. issued' = Fresh /\ w = Fresh
        BY <1>1, <1>4, <2>2 DEF CallFrame, BackendTypeOK
      <3> QED
        BY <1>2, <3>1
    <2> QED
      BY <2>1, <2>2
  <1>5. ASSUME NEW w \in Actions, InRun(w)', NEW a \in HeldBy(w)' PROVE status'[a] \notin Settled
    <2>1. CASE status'[a] = "queued"
      BY <2>1 DEF Settled
    <2>2. CASE InRun(w) /\ a \in HeldBy(w)
      <3>1. a \in Actions /\ a <= issued
        BY <2>2, HeldIsAdmitted, AdmittedFacts
      <3>2. ~(pc[c] = "marking" /\ a = target[c])
        BY <1>2, <2>2, <3>1 DEF SettledInv, Newer
      <3>3. status'[a] = status[a] \/ status'[a] = "replaced"
        BY <1>1, <1>2, <3>1, <3>2 DEF CallerWrites
      <3> QED
        BY <2>2, <3>3 DEF SettledInv, Settled
    <2> QED
      BY <1>1, <1>5, <2>1, <2>2, CallerHolds
  <1>6. ASSUME NEW d \in Callers, target'[d] = target[d],
               \/ Newer(d)
               \/ thread' # thread
               \/ \A w \in Actions : ~InRun(w)
        PROVE  Newer(d)'
    <2>1. target[d] <= issued /\ target[d] \in Nat
      BY <1>0 DEF ControllerInv, Unissued, ControllerTypeOK
    <2>2. ASSUME NEW w \in Actions, InRun(w)', NEW a \in HeldBy(w)' PROVE target[d] < a
      <3>1. CASE issued < MaxActions /\ a = Fresh
        BY <1>2, <2>1, <3>1, FreshFacts
      <3>2. CASE InRun(w) /\ a \in HeldBy(w) /\ thread' = thread
        BY <1>6, <3>2 DEF Newer
      <3> QED
        BY <1>1, <2>2, <3>1, <3>2, CallerHolds
    <2> QED
      BY <1>6, <2>2 DEF Newer
  <1>7. ASSUME NEW d \in Callers, pc[d] = "stopping", call[d] = "join", joining[d] = thread,
               Joined(d), NEW w \in Actions
        PROVE  ~InRun(w)
    BY <1>7 DEF Joined, WorkerInv, Workers, Alive, InRun
  <1>8. ASSUME NEW d \in Callers, pc'[d] = "stopping", call'[d] = "join"
        PROVE  joining'[d] = thread' \/ Newer(d)'
    <2>1. target'[d] = target[d] /\ (joining'[d] = thread' \/ thread' # thread \/ Newer(d))
      BY <1>1, <1>8 DEF CallerWrites, SettledInv
    <2> QED
      BY <1>6, <2>1
  <1>9. ASSUME NEW d \in Callers, pc'[d] = "marking" PROVE Newer(d)'
    <2>1. target'[d] = target[d]
      BY <1>1, <1>9 DEF CallerWrites
    <2>2. pc[d] = "marking" \/ (pc[d] = "stopping" /\ call[d] = "join" /\ Joined(d))
      BY <1>1, <1>9 DEF CallerWrites
    <2>3. Newer(d) \/ \A w \in Actions : ~InRun(w)
      BY <1>7, <2>2 DEF SettledInv
    <2> QED
      BY <1>6, <2>1, <2>3
  <1>10. ASSUME NEW a \in Actions, status[a] \in Settled PROVE status'[a] = status[a]
    <2>1. a <= issued
      BY <1>2, <1>10 DEF ControllerInv, Unissued, Settled
    <2>2. a # active
      BY <1>10, ActiveFacts DEF Live, Settled
    <2> QED
      BY <1>1, <1>2, <1>10, <2>1, <2>2 DEF CallerWrites
  <1> QED
    BY <1>3, <1>4, <1>5, <1>8, <1>9, <1>10 DEF SettledInv

\* A record that has failed, was stopped or rejected keeps that status, for any
\* number of callers whose stops, sends and disables interleave, if stop() waits
\* until the worker is gone: no callback comes after the mark, and a worker
\* started in the meantime holds newer actions only.
THEOREM SettledStaysSettled == ~JoinTimeouts => (Spec => SettledIsFinal)
  <1> SUFFICES ASSUME ~JoinTimeouts PROVE Spec => SettledIsFinal
    OBVIOUS
  <1>1. Init => SettledInv
    BY DEF Init, ControllerInit, BackendInit, SettledInv, InRun
  <1>2. HardwareInv /\ SettledInv /\ [Next]_vars =>
            /\ SettledInv'
            /\ \A a \in Actions : status[a] \in Settled => status'[a] = status[a]
    <2> SUFFICES ASSUME HardwareInv, SettledInv, [Next]_vars
                 PROVE  /\ SettledInv'
                        /\ \A a \in Actions : status[a] \in Settled => status'[a] = status[a]
      OBVIOUS
    <2>0. /\ BackendTypeOK /\ ControllerInv /\ ControllerTypeOK /\ WorkerInv /\ HeldAdmitted
      BY DEF HardwareInv, ControllerInv
    <2>1. CASE UNCHANGED vars
      BY <2>1 DEF vars, backVars, slotVars, workVars, backCallVars, ctlVars, recordVars, callVars,
         SettledInv, Newer, InRun, HeldBy
    <2> QED
      BY <2>0, <2>1, WorkerKeepsSettled, CallerKeepsSettled DEF Next
  <1> QED
    BY <1>1, <1>2, HardwareInvariant, PTL DEF Spec, SettledIsFinal

-----------------------------------------------------------------------------
\* What one operator can rely on: the calls come from one thread at a time.
OneCaller == \A c, d \in Callers : c = d

\* A call is in the backend where the controller believes it to be.
CallsAgree ==
    \A c \in Callers :
        /\ pc[c] \in {"idle", "marking", "disabling"} <=> call[c] = "out"
        /\ pc[c] = "enabling" <=> call[c] \in {"initialized", "zeroed", "unreserved"}
        /\ pc[c] \in {"stopping", "closing"} <=> call[c] \in {"set", "grab", "join"}

\* A worker's step leaves the calls alone, and _active until its last callback.
LEMMA WorkerLeaves ==
    ASSUME NEW w \in Actions, WorkerStep(w), BackendTypeOK
    PROVE  /\ UNCHANGED <<enabled, callVars>>
           /\ active' = active \/ wpc'[w] = "exit"
  <1>1. CASE SilentStep(w) /\ UNCHANGED ctlVars
    BY <1>1 DEF ctlVars
  <1>2. CASE WorkerBegins(w) \/ WorkerPlays(w) \/ WorkerKept(w)
    BY <1>2 DEF WorkerBegins, WorkerPlays, WorkerKept, Started, DurationElapsed
  <1>3. CASE WorkerReports(w)
    BY <1>3 DEF WorkerReports, Report, Go, Done, BackendTypeOK
  <1> QED
    BY <1>1, <1>2, <1>3 DEF WorkerStep

LEMMA CallerKeepsCalls ==
    ASSUME ControllerTypeOK, BackendTypeOK, CallsAgree,
           NEW c \in Callers, CallBegin(c) \/ CallerStep(c)
    PROVE  CallsAgree'
  <1> USE DEF CallsAgree, ControllerTypeOK, BackendTypeOK, CallMove, Move, Return, callVars,
              backCallVars, backVars, ctlVars
  <1>0. CASE CtlEnable(c)
    BY <1>0 DEF CtlEnable, Enable, CallInitialize
  <1>1. CASE CtlEnableZero(c) \/ CtlEnableClose(c)
    <2>1. /\ UNCHANGED pc
          /\ call[c] \in {"initialized", "zeroed"}
          /\ \E to \in {"zeroed", "unreserved"} : call' = [call EXCEPT ![c] = to]
      BY <1>1 DEF CtlEnableZero, CallWriteZero, CtlEnableClose, CallCloseZero
    <2> QED
      BY <2>1
  <1>2. CASE CtlEnableReturns(c) \/ CtlEnableRaises(c)
    BY <1>2 DEF CtlEnableReturns, EnableReturns, CallRaiseLine, CtlEnableRaises, EnableRaises,
       CallEnableFails
  <1>3. ASSUME NEW valid \in Validity, CtlReject(c, valid) PROVE CallsAgree'
    BY <1>3 DEF CtlReject, Reject
  <1>4. CASE CtlSendFirst(c) \/ CtlSendReplacing(c)
    BY <1>4 DEF CtlSendFirst, AdmitFirst, CallStart, CallStartRaises, CtlSendReplacing,
       AdmitReplacing, CallReplace, CallReplaceRaises
  <1>5. ASSUME NEW m \in Methods, NEW t \in Actions \cup {None}, CtlStop(c, m, t)
        PROVE  CallsAgree'
    BY <1>5 DEF CtlStop, StopBegin
  <1>6. CASE CtlSetStop(c) \/ CtlGrabThread(c)
    BY <1>6 DEF CtlSetStop, CallSetStop, CtlGrabThread, CallGrabThread
  <1>7. CASE CtlStopReturns(c)
    BY <1>7 DEF CtlStopReturns, StopReturns, CallStopReturns
  <1>8. CASE CtlStopMark(c) \/ CtlDisableRaises(c)
    BY <1>8 DEF CtlStopMark, StopMark, CtlDisableRaises, DisableRaises
  <1>9. CASE CtlDisableOff(c)
    BY <1>9 DEF CtlDisableOff, DisableOff
  <1>10. CASE CtlCloseReturns(c)
    BY <1>10 DEF CtlCloseReturns, CloseReturns, CallReleaseLine, CallStopReturns
  <1> HIDE DEF CallsAgree
  <1> QED
    BY <1>0, <1>1, <1>2, <1>3, <1>4, <1>5, <1>6, <1>7, <1>8, <1>9, <1>10 DEF CallBegin, CallerStep

\* For every number of callers.
LEMMA CallsInvariant == Spec => []CallsAgree
  <1>1. Init => CallsAgree
    BY DEF Init, ControllerInit, BackendInit, CallsAgree
  <1>2. HardwareInv /\ CallsAgree /\ [Next]_vars => CallsAgree'
    <2> SUFFICES ASSUME HardwareInv, CallsAgree, [Next]_vars PROVE CallsAgree'
      OBVIOUS
    <2>1. ControllerTypeOK /\ BackendTypeOK
      BY DEF HardwareInv, ControllerInv
    <2>2. CASE UNCHANGED <<callVars, backCallVars>>
      BY <2>2 DEF callVars, backCallVars, CallsAgree
    <2>3. ASSUME NEW w \in Actions, WorkerStep(w), UNCHANGED <<line, backCallVars>>
          PROVE  CallsAgree'
      <3>1. UNCHANGED callVars
        BY <2>1, <2>3, WorkerLeaves
      <3> QED
        BY <2>2, <2>3, <3>1
    <2>4. CASE UNCHANGED vars
      BY <2>2, <2>4 DEF vars, ctlVars, backVars
    <2> QED
      BY <2>1, <2>3, <2>4, CallerKeepsCalls DEF Next
  <1> QED
    BY <1>1, <1>2, HardwareInvariant, PTL DEF Spec

-----------------------------------------------------------------------------
\* From its first write until the end of its mark, stop() has the event set.
StopAsked ==
    \A c \in Callers : call[c] \in {"grab", "join"} \/ pc[c] = "marking" => stopEvent

\* A worker starts with an empty slot, and _active is only taken from one that
\* has been told to stop.
NewestInv ==
    /\ StopAsked
    /\ \A w \in Actions : wpc[w] = "open" => slot = None
    /\ \A w \in Actions : wpc[w] \in Registered \cup {"open"} /\ active = None => stopEvent
    /\ NewestWins

LEMMA WorkerKeepsNewest ==
    ASSUME BackendTypeOK, WorkerInv, NewestInv, NEW w \in Actions,
           WorkerStep(w), UNCHANGED <<line, backCallVars>>
    PROVE  NewestInv'
  <1>1. /\ WorkerFrame(w)
        /\ UNCHANGED <<pc, call, stopEvent>>
        /\ active' = active \/ wpc'[w] = "exit"
    BY WorkerFramed, WorkerLeaves DEF callVars, backCallVars, WorkerFrame
  <1>2. \A v \in Actions : v # w => wpc[v] \in {"none", "dead"} /\ wpc'[v] = wpc[v]
    BY <1>1, OnlyWorker
  <1>3. StopAsked'
    BY <1>1 DEF NewestInv, StopAsked
  <1>4. \A v \in Actions : wpc'[v] # "open"
    BY <1>1, <1>2 DEF WorkerFrame
  <1>5. \A v \in Actions : wpc'[v] \in Registered \cup {"open"} /\ active' = None => stopEvent'
    BY <1>1, <1>2 DEF WorkerFrame, NewestInv, Registered
  <1>6. NewestWins'
    <2> SUFFICES ASSUME task' # None, slot' # None PROVE slot' = active' \/ stopEvent'
      BY DEF NewestWins
    <2>1. slot' = slot /\ slot # None
      BY <1>1 DEF WorkerFrame
    <2>2. ~(task' = w /\ wpc[w] = "open")
      BY <2>1 DEF NewestInv
    <2>3. task' = task /\ (wpc[w] \in Registered => wpc'[w] \in Registered)
      BY <1>1, <2>2 DEF WorkerFrame
    <2>4. task \in Actions /\ wpc[task] \in Registered
      BY <2>3 DEF BackendTypeOK, WorkerInv
    <2>5. task = w
      BY <1>2, <2>4 DEF Registered
    <2>6. active' = active
      BY <1>1, <2>3, <2>4, <2>5 DEF Registered
    <2> QED
      BY <1>1, <2>1, <2>3, <2>6 DEF NewestInv, NewestWins
  <1> QED
    BY <1>3, <1>4, <1>5, <1>6 DEF NewestInv

LEMMA CallerKeepsNewest ==
    ASSUME OneCaller, ControllerInv, BackendTypeOK, WorkerInv, CallsAgree, NewestInv,
           NEW c \in Callers, CallBegin(c) \/ CallerStep(c)
    PROVE  NewestInv'
  <1>0. ControllerTypeOK /\ \A d \in Callers : d = c
    BY DEF ControllerInv, OneCaller
  <1> USE DEF NewestInv, StopAsked, NewestWins, ControllerTypeOK, BackendTypeOK, CallMove, Move,
              Return, callVars, slotVars, workVars, backCallVars, backVars, ctlVars, recordVars
  <1>1. CASE CtlEnable(c) \/ CtlEnableZero(c) \/ CtlEnableClose(c)
    BY <1>0, <1>1 DEF CtlEnable, Enable, CallInitialize, CtlEnableZero, CallWriteZero,
       CtlEnableClose, CallCloseZero
  <1>2. CASE CtlEnableReturns(c) \/ CtlEnableRaises(c)
    BY <1>0, <1>2 DEF CtlEnableReturns, EnableReturns, CallRaiseLine, CtlEnableRaises,
       EnableRaises, CallEnableFails
  <1>3. ASSUME NEW valid \in Validity, CtlReject(c, valid) PROVE NewestInv'
    <2>1. UNCHANGED <<active, pc, call, stopEvent, slot, task, wpc>>
      BY <1>3 DEF CtlReject, Reject
    <2> HIDE DEF NewestInv, StopAsked, NewestWins
    <2>2. StopAsked' /\ NewestWins'
      BY <2>1 DEF NewestInv, StopAsked, NewestWins
    <2> QED
      BY <2>1, <2>2 DEF NewestInv
  <1>4. CASE CtlSendFirst(c)
    <2>1. /\ issued < MaxActions /\ active' = Fresh /\ active = None
          /\ UNCHANGED <<pc, task>> /\ pc[c] = "idle"
      BY <1>4 DEF CtlSendFirst, AdmitFirst, MaySend, CallStart, CallStartRaises
    <2>2. Fresh # None
      BY <2>1, FreshFacts
    <2>3. CASE CallStart(Fresh)
      <3>1. /\ slot' = None /\ UNCHANGED call
        BY <2>3 DEF CallStart
      <3>2. call[c] = "out"
        BY <2>1 DEF CallsAgree
      <3> QED
        BY <1>0, <2>1, <2>2, <3>1, <3>2
    <2>4. CASE CallStartRaises
      BY <1>0, <2>1, <2>2, <2>4 DEF CallStartRaises
    <2> QED
      BY <1>4, <2>3, <2>4 DEF CtlSendFirst
  <1>5. CASE CtlSendReplacing(c)
    <2>1. issued < MaxActions /\ active' = Fresh /\ UNCHANGED pc
      BY <1>5 DEF CtlSendReplacing, AdmitReplacing, ReplaceActive, MaySend
    <2>2. Fresh # None
      BY <2>1, FreshFacts
    <2>3. CASE CallReplace(Fresh)
      <3>1. task \in Workers /\ wpc[task] # "open"
        BY <2>3 DEF CallReplace, WorkerInv, Registered, Workers, Alive
      <3>2. \A w \in Actions : wpc[w] # "open"
        BY <3>1 DEF WorkerInv, Workers, Alive
      <3> QED
        BY <2>1, <2>2, <2>3, <3>2 DEF CallReplace
    <2>4. CASE CallReplaceRaises
      BY <2>1, <2>2, <2>4 DEF CallReplaceRaises
    <2> QED
      BY <1>5, <2>3, <2>4 DEF CtlSendReplacing
  <1>6. ASSUME NEW m \in Methods, NEW t \in Actions \cup {None}, CtlStop(c, m, t)
        PROVE  NewestInv'
    BY <1>0, <1>6 DEF CtlStop, StopBegin
  <1>7. CASE CtlSetStop(c) \/ CtlGrabThread(c)
    BY <1>0, <1>7 DEF CtlSetStop, CallSetStop, CtlGrabThread, CallGrabThread
  <1>8. CASE CtlStopReturns(c)
    BY <1>0, <1>8 DEF CtlStopReturns, StopReturns, CallStopReturns
  <1>9. CASE CtlStopMark(c)
    <2>1. /\ stopEvent /\ stopEvent' = stopEvent /\ active' = None
          /\ UNCHANGED <<wpc, slot>>
      BY <1>9 DEF CtlStopMark, StopMark
    <2> QED
      BY <2>1
  <1>10. CASE CtlDisableOff(c) \/ CtlDisableRaises(c)
    BY <1>0, <1>10 DEF CtlDisableOff, DisableOff, CtlDisableRaises, DisableRaises
  <1>11. CASE CtlCloseReturns(c)
    BY <1>0, <1>11 DEF CtlCloseReturns, CloseReturns, CallReleaseLine, CallStopReturns
  <1> HIDE DEF NewestInv, StopAsked, NewestWins
  <1> QED
    BY <1>1, <1>2, <1>3, <1>4, <1>5, <1>6, <1>7, <1>8, <1>9, <1>10, <1>11
       DEF CallBegin, CallerStep

\* Of a burst of replacements the newest waits in the slot, unless the worker
\* has been told to stop, also when stop() does not wait for the worker: for
\* one caller at a time (two stop() calls that overlap could take _active from
\* the worker that was launched between their ends).
THEOREM NewestReplacementWins == OneCaller => (Spec => []NewestWins)
  <1> SUFFICES ASSUME OneCaller PROVE Spec => []NewestWins
    OBVIOUS
  <1>1. Init => NewestInv
    BY DEF Init, ControllerInit, BackendInit, NewestInv, StopAsked, NewestWins, Registered
  <1>2. HardwareInv /\ CallsAgree /\ NewestInv /\ [Next]_vars => NewestInv'
    <2> SUFFICES ASSUME HardwareInv, CallsAgree, NewestInv, [Next]_vars PROVE NewestInv'
      OBVIOUS
    <2>1. BackendTypeOK /\ ControllerInv /\ WorkerInv
      BY DEF HardwareInv
    <2>2. CASE UNCHANGED vars
      BY <2>2 DEF vars, backVars, slotVars, backCallVars, ctlVars, callVars, NewestInv, StopAsked,
         NewestWins
    <2> QED
      BY <2>1, <2>2, WorkerKeepsNewest, CallerKeepsNewest DEF Next
  <1>3. NewestInv => NewestWins
    BY DEF NewestInv
  <1> QED
    BY <1>1, <1>2, <1>3, HardwareInvariant, CallsInvariant, PTL DEF Spec

-----------------------------------------------------------------------------
\* One operator whose stops wait for the worker.  Each stop() waits for the
\* thread the backend knows, so between a stop and the disable that follows
\* it no worker is left.
IdleInv ==
    /\ \A c \in Callers : call[c] = "join" => joining[c] = thread
    /\ \A c \in Callers : pc[c] \in {"marking", "disabling"} => Workers = {}
    /\ DisabledIsIdle

\* The line is high while the controller is enabled, and an enable() that
\* comes after a disable() has the outputs at zero.
LineInv ==
    /\ enabled => line = "high"
    /\ \A c \in Callers : pc[c] = "enabling" => line # "released"
    /\ \A c \in Callers : pc[c] = "closing" => ~enabled
    /\ \A c \in Callers : call[c] \in {"zeroed", "unreserved"} /\ ~enabled => output = "zero"

OperatorInv == IdleInv /\ LineInv

LEMMA WorkerKeepsOperator ==
    ASSUME BackendTypeOK, WorkerInv, OperatorInv, NEW w \in Actions,
           WorkerStep(w), UNCHANGED <<line, backCallVars>>
    PROVE  OperatorInv'
  <1>1. WorkerFrame(w) /\ UNCHANGED <<enabled, pc, call, joining, thread, line>>
    BY WorkerFramed, WorkerLeaves DEF callVars, backCallVars, WorkerFrame
  <1>2. w \in Workers
    BY <1>1 DEF WorkerFrame, Workers, Alive
  <1>3. enabled /\ \A c \in Callers : pc[c] \notin {"marking", "disabling"}
    BY <1>2 DEF OperatorInv, IdleInv, DisabledIsIdle
  <1>4. IdleInv'
    BY <1>1, <1>3 DEF OperatorInv, IdleInv, DisabledIsIdle
  <1>5. LineInv'
    BY <1>1, <1>3 DEF OperatorInv, LineInv
  <1> QED
    BY <1>4, <1>5 DEF OperatorInv

LEMMA CallerKeepsOperator ==
    ASSUME OneCaller, ~JoinTimeouts, ControllerTypeOK, BackendTypeOK, WorkerInv, CallsAgree,
           OperatorInv, NEW c \in Callers, CallBegin(c) \/ CallerStep(c)
    PROVE  OperatorInv' /\ (line # "high" /\ line' = "high" => output = "zero")
  <1> DEFINE Kept == OperatorInv' /\ (line # "high" /\ line' = "high" => output = "zero")
  <1>0. \A d \in Callers : d = c
    BY DEF OneCaller
  <1>1. UNCHANGED wpc => Workers' = Workers
    BY DEF Workers, Alive
  <1> USE DEF OperatorInv, IdleInv, DisabledIsIdle, LineInv, CallsAgree, ControllerTypeOK,
              BackendTypeOK, CallMove, Move, Return, callVars, slotVars, lineVars, coilVars,
              workVars, backCallVars, backVars, ctlVars, recordVars
  <1>2. CASE CtlEnable(c)
    <2>1. /\ pc[c] = "idle" /\ pc'[c] = "enabling" /\ call'[c] = "initialized"
          /\ line' = IF line = "released" THEN "low" ELSE line
          /\ UNCHANGED <<enabled, wpc>>
      BY <1>2 DEF CtlEnable, Enable, CallInitialize
    <2> QED
      BY <1>0, <1>1, <2>1
  <1>3. CASE CtlEnableZero(c)
    <2>1. /\ call[c] = "initialized" /\ call'[c] = "zeroed" /\ output' = "zero"
          /\ UNCHANGED <<pc, enabled, wpc, line>>
      BY <1>3 DEF CtlEnableZero, CallWriteZero
    <2> QED
      BY <1>0, <1>1, <2>1
  <1>4. CASE CtlEnableClose(c)
    <2>1. /\ call[c] = "zeroed" /\ call'[c] = "unreserved"
          /\ UNCHANGED <<pc, enabled, wpc, line, output>>
      BY <1>4 DEF CtlEnableClose, CallCloseZero
    <2> QED
      BY <1>0, <1>1, <2>1
  <1>5. CASE CtlEnableReturns(c)
    <2>1. /\ pc[c] = "enabling" /\ pc'[c] = "idle" /\ enabled'
          /\ call[c] = "unreserved" /\ call'[c] = "out"
          /\ line' = IF line = "released" THEN line ELSE "high"
          /\ UNCHANGED <<wpc, output>>
      BY <1>5 DEF CtlEnableReturns, EnableReturns, CallRaiseLine
    <2> QED
      BY <1>0, <1>1, <2>1
  <1>6. CASE CtlEnableRaises(c)
    <2>1. /\ pc'[c] = "idle" /\ call'[c] = "out"
          /\ UNCHANGED <<enabled, wpc, line, output>>
      BY <1>6 DEF CtlEnableRaises, EnableRaises, CallEnableFails
    <2> QED
      BY <1>0, <1>1, <2>1
  <1>7. ASSUME NEW valid \in Validity, CtlReject(c, valid) PROVE Kept
    <2>1. UNCHANGED <<pc, call, joining, thread, enabled, wpc, line, output>>
      BY <1>7 DEF CtlReject, Reject
    <2> QED
      BY <1>1, <2>1
  <1>8. CASE CtlSendFirst(c)
    <2>1. /\ pc[c] = "idle" /\ enabled
          /\ UNCHANGED <<pc, call, enabled, line, output>>
      BY <1>8 DEF CtlSendFirst, AdmitFirst, MaySend, MustReject, CallStart, CallStartRaises
    <2> QED
      BY <1>0, <2>1
  <1>9. CASE CtlSendReplacing(c)
    <2>1. UNCHANGED <<pc, call, joining, thread, enabled, wpc, line, output>>
      BY <1>9 DEF CtlSendReplacing, AdmitReplacing, CallReplace, CallReplaceRaises
    <2> QED
      BY <1>1, <2>1
  <1>10. ASSUME NEW m \in Methods, NEW t \in Actions \cup {None}, CtlStop(c, m, t) PROVE Kept
    <2>1. /\ pc'[c] = "stopping" /\ call'[c] = "set"
          /\ UNCHANGED <<enabled, wpc, line, output>>
      BY <1>10 DEF CtlStop, StopBegin
    <2> QED
      BY <1>0, <1>1, <2>1
  <1>11. CASE CtlSetStop(c)
    <2>1. /\ call[c] = "set" /\ call'[c] = "grab"
          /\ UNCHANGED <<pc, enabled, wpc, line, output>>
      BY <1>11 DEF CtlSetStop, CallSetStop
    <2> QED
      BY <1>0, <1>1, <2>1
  <1>12. CASE CtlGrabThread(c)
    <2>1. /\ call[c] = "grab" /\ call'[c] = "join" /\ joining'[c] = thread
          /\ UNCHANGED <<pc, thread, enabled, wpc, line, output>>
      BY <1>12 DEF CtlGrabThread, CallGrabThread
    <2> QED
      BY <1>0, <1>1, <2>1
  <1>13. CASE CtlStopReturns(c)
    <2>1. /\ pc'[c] = "marking" /\ call'[c] = "out" /\ call[c] = "join"
          /\ ~Alive(joining[c])
          /\ UNCHANGED <<enabled, wpc, line, output>>
      BY <1>13 DEF CtlStopReturns, StopReturns, CallStopReturns, Joined
    <2>2. Workers = {}
      BY <2>1 DEF WorkerInv, Workers
    <2> QED
      BY <1>0, <1>1, <2>1, <2>2
  <1>14. CASE CtlStopMark(c)
    <2>1. /\ pc[c] = "marking" /\ pc'[c] \in {"idle", "disabling"}
          /\ UNCHANGED <<call, joining, thread, enabled, wpc, line, output>>
      BY <1>14 DEF CtlStopMark, StopMark
    <2> QED
      BY <1>0, <1>1, <2>1
  <1>15. CASE CtlDisableOff(c)
    <2>1. /\ pc[c] = "disabling" /\ pc'[c] \in {"idle", "closing"} /\ ~enabled'
          /\ call'[c] \in {"out", "set"} /\ line' \in {"low", line} \ {"high"}
          /\ UNCHANGED <<wpc, output>>
      BY <1>15 DEF CtlDisableOff, DisableOff, CallLowerLine
    <2> QED
      BY <1>0, <1>1, <2>1
  <1>16. CASE CtlDisableRaises(c)
    <2>1. /\ pc[c] = "disabling" /\ pc'[c] = "idle"
          /\ UNCHANGED <<call, joining, thread, enabled, wpc, line, output>>
      BY <1>16 DEF CtlDisableRaises, DisableRaises
    <2> QED
      BY <1>0, <1>1, <2>1
  <1>17. CASE CtlCloseReturns(c)
    <2>1. /\ pc[c] = "closing" /\ pc'[c] = "idle" /\ call'[c] = "out" /\ line' = "released"
          /\ UNCHANGED <<enabled, wpc, output>>
      BY <1>17 DEF CtlCloseReturns, CloseReturns, CallReleaseLine, CallStopReturns
    <2> QED
      BY <1>0, <1>1, <2>1
  <1> HIDE DEF OperatorInv
  <1> QED
    BY <1>2, <1>3, <1>4, <1>5, <1>6, <1>7, <1>8, <1>9, <1>10, <1>11, <1>12, <1>13, <1>14, <1>15,
       <1>16, <1>17 DEF CallBegin, CallerStep

LEMMA OperatorStepInv ==
    OneCaller /\ ~JoinTimeouts /\ HardwareInv /\ CallsAgree /\ OperatorInv /\ [Next]_vars =>
        OperatorInv' /\ (line # "high" /\ line' = "high" => output = "zero")
  <1> SUFFICES ASSUME OneCaller, ~JoinTimeouts, HardwareInv, CallsAgree, OperatorInv, [Next]_vars
               PROVE  OperatorInv' /\ (line # "high" /\ line' = "high" => output = "zero")
    OBVIOUS
  <1>1. ControllerTypeOK /\ BackendTypeOK /\ WorkerInv
    BY DEF HardwareInv, ControllerInv
  <1>2. CASE UNCHANGED vars
    BY <1>2 DEF vars, backVars, slotVars, coilVars, backCallVars, ctlVars, callVars, OperatorInv,
       IdleInv, LineInv, DisabledIsIdle, Workers, Alive
  <1> QED
    BY <1>1, <1>2, WorkerKeepsOperator, CallerKeepsOperator DEF Next

\* The invariant behind the theorems below.
THEOREM OperatorInvariant == OneCaller /\ ~JoinTimeouts => (Spec => []OperatorInv)
  <1> SUFFICES ASSUME OneCaller, ~JoinTimeouts PROVE Spec => []OperatorInv
    OBVIOUS
  <1>1. Init => OperatorInv
    BY DEF Init, ControllerInit, BackendInit, OperatorInv, IdleInv, LineInv, DisabledIsIdle,
       Workers, Alive
  <1>2. HardwareInv /\ CallsAgree /\ OperatorInv /\ [Next]_vars => OperatorInv'
    BY OperatorStepInv
  <1> QED
    BY <1>1, <1>2, HardwareInvariant, CallsInvariant, PTL DEF Spec

\* While the controller is disabled no worker streams, whatever fails, if one
\* operator calls and stop() waits for the worker.  (With a second caller it
\* is false: disable() gives up the lock between its stop and its last block.)
THEOREM DisabledStreamsNothing == OneCaller /\ ~JoinTimeouts => (Spec => []DisabledIsIdle)
  <1>1. OperatorInv => DisabledIsIdle
    BY DEF OperatorInv, IdleInv
  <1> QED
    BY <1>1, OperatorInvariant, PTL

\* enable() raises the amplifier line only over outputs that are at zero, also
\* when the worker before it failed to zero them, for one operator.
THEOREM AmplifierRisesAtZero == OneCaller /\ ~JoinTimeouts => (Spec => AmplifierOnAtZero)
  <1> SUFFICES ASSUME OneCaller, ~JoinTimeouts PROVE Spec => AmplifierOnAtZero
    OBVIOUS
  <1>1. HardwareInv /\ CallsAgree /\ OperatorInv /\ [Next]_vars =>
            (line # "high" /\ line' = "high" => output = "zero")
    BY OperatorStepInv
  <1> QED
    BY <1>1, HardwareInvariant, CallsInvariant, OperatorInvariant, PTL DEF Spec, AmplifierOnAtZero
-----------------------------------------------------------------------------
LEMMA WorkerKeepsOver ==
    ASSUME BackendTypeOK, WorkerInv, InactiveIsOver, NEW w \in Actions, WorkerStep(w)
    PROVE  InactiveIsOver'
  <1>1. WorkerFrame(w) /\ (active' = active \/ wpc'[w] = "exit")
    BY WorkerFramed, WorkerLeaves
  <1>2. w \in Workers /\ Workers' \subseteq {w}
    BY <1>1, OnlyWorker
  <1>3. ASSUME active' = None, active' = active PROVE w \notin Workers'
    <2>1. wpc[w] = "exit"
      BY <1>2, <1>3 DEF InactiveIsOver
    <2> QED
      BY <1>1, <2>1 DEF WorkerFrame, Workers, Alive
  <1> QED
    BY <1>1, <1>2, <1>3 DEF InactiveIsOver

\* Only the end of a stop() clears _active, and it has waited for the worker.
LEMMA CallerKeepsOver ==
    ASSUME ControllerInv, OperatorInv, InactiveIsOver,
           NEW c \in Callers, CallBegin(c) \/ CallerStep(c)
    PROVE  InactiveIsOver'
  <1>1. CASE UNCHANGED <<active, wpc>>
    BY <1>1 DEF InactiveIsOver, Workers, Alive
  <1>2. CASE CtlSendFirst(c) \/ CtlSendReplacing(c)
    <2>1. issued < MaxActions /\ active' = Fresh
      BY <1>2 DEF CtlSendFirst, AdmitFirst, CtlSendReplacing, AdmitReplacing, MaySend, ReplaceActive
    <2>2. Fresh # None
      BY <2>1, FreshFacts DEF Actions, None
    <2> QED
      BY <2>1, <2>2 DEF InactiveIsOver
  <1>3. CASE CtlStopMark(c)
    <2>1. Workers = {} /\ UNCHANGED wpc
      BY <1>3 DEF CtlStopMark, StopMark, OperatorInv, IdleInv, backVars
    <2> QED
      BY <2>1 DEF InactiveIsOver, Workers, Alive
  <1>4. CASE CtlEnable(c) \/ CtlEnableZero(c) \/ CtlEnableClose(c)
    BY <1>1, <1>4 DEF CtlEnable, Enable, CallInitialize, CtlEnableZero, CallWriteZero,
       CtlEnableClose, CallCloseZero, ctlVars, recordVars
  <1>5. CASE CtlEnableReturns(c) \/ CtlEnableRaises(c)
    BY <1>1, <1>5 DEF CtlEnableReturns, EnableReturns, CallRaiseLine, CtlEnableRaises,
       EnableRaises, CallEnableFails
  <1>6. ASSUME NEW valid \in Validity, CtlReject(c, valid) PROVE InactiveIsOver'
    BY <1>1, <1>6 DEF CtlReject, Reject, backVars
  <1>7. ASSUME NEW m \in Methods, NEW t \in Actions \cup {None}, CtlStop(c, m, t)
        PROVE  InactiveIsOver'
    BY <1>1, <1>7 DEF CtlStop, StopBegin
  <1>8. CASE CtlSetStop(c) \/ CtlGrabThread(c)
    BY <1>1, <1>8 DEF CtlSetStop, CallSetStop, CtlGrabThread, CallGrabThread, ctlVars
  <1>9. CASE CtlStopReturns(c) \/ CtlCloseReturns(c)
    BY <1>1, <1>9 DEF CtlStopReturns, StopReturns, CallStopReturns, CtlCloseReturns, CloseReturns,
       CallReleaseLine
  <1>10. CASE CtlDisableOff(c) \/ CtlDisableRaises(c)
    BY <1>1, <1>10 DEF CtlDisableOff, DisableOff, CtlDisableRaises, DisableRaises, backVars
  <1> QED
    BY <1>2, <1>3, <1>4, <1>5, <1>6, <1>7, <1>8, <1>9, <1>10 DEF CallBegin, CallerStep

\* For one operator whose stops wait for the worker, a controller with nothing
\* active finds its backend free, or about to be: the worker has made its last
\* callback.  The start() of the next send can then be refused only while the
\* thread ends.
THEOREM InactiveIsAlwaysOver == OneCaller /\ ~JoinTimeouts => (Spec => []InactiveIsOver)
  <1> SUFFICES ASSUME OneCaller, ~JoinTimeouts PROVE Spec => []InactiveIsOver
    OBVIOUS
  <1>1. Init => InactiveIsOver
    BY DEF Init, BackendInit, InactiveIsOver, Workers, Alive
  <1>2. HardwareInv /\ OperatorInv /\ InactiveIsOver /\ [Next]_vars => InactiveIsOver'
    <2> SUFFICES ASSUME HardwareInv, OperatorInv, InactiveIsOver, [Next]_vars
                 PROVE  InactiveIsOver'
      OBVIOUS
    <2>1. BackendTypeOK /\ ControllerInv /\ WorkerInv
      BY DEF HardwareInv
    <2>2. CASE UNCHANGED vars
      BY <2>2 DEF vars, ctlVars, backVars, InactiveIsOver, Workers, Alive
    <2> QED
      BY <2>1, <2>2, WorkerKeepsOver, CallerKeepsOver DEF Next
  <1> QED
    BY <1>1, <1>2, HardwareInvariant, OperatorInvariant, PTL DEF Spec
=============================================================================
