------------------------ MODULE HardwareOutputProofs ------------------------
(* What the coils get from NIDAQmxBackend, the keep times it reports of it,  *)
(* and the order it keeps, for every number of requests and callers and      *)
(* every set of failing driver operations.                                   *)
EXTENDS HardwareControlProofs

USE MaxActionsAssumption DEF Actions, None, MaxActionsAssumption

\* The places of run() between the first write and the final zero.
Zeroing == {"begin", "top", "pick", "play", "switch", "keep", "write", "ramp", "finally",
            "close", "zero"}

\* The output is live only while a worker has still to zero it, and never
\* under the zero task of an enable().
CoilInv ==
    /\ output = "live" /\ "zero" \notin Faulty => \E w \in Actions : wpc[w] \in Zeroing
    /\ \A c \in Callers : call[c] = "zeroed" => output = "zero"

\* All that one step of the worker w may do to the output.
CoilFrame(w) ==
    /\ output' \in {"zero", output} \/ (wpc'[w] \in Zeroing /\ OutputsFree)
    /\ wpc[w] \in Zeroing =>
            \/ wpc'[w] \in Zeroing
            \/ output' = "zero"
            \/ "zero" \in Faulty
            \/ wpc[w] = "zero" /\ ~OutputsFree /\ output' = output

LEMMA CoilFramed ==
    ASSUME BackendTypeOK, NEW w \in Actions, WorkerStep(w)
    PROVE  CoilFrame(w)
  <1> USE DEF BackendTypeOK, CoilFrame, Zeroing, Go, coilVars
  <1>1. CASE OpenTask(w) \/ OpenFails(w) \/ FillBuffer(w) \/ FillFails(w)
    BY <1>1 DEF OpenTask, OpenFails, FillBuffer, FillFails, Abort
  <1>2. CASE CheckStop(w) \/ NothingToPick(w) \/ PickReplacement(w) \/ DeviceReached(w)
    BY <1>2 DEF CheckStop, NothingToPick, PickReplacement, DeviceReached
  <1>3. CASE KeepTimeOver(w) \/ WriteChunk(w) \/ StreamFails(w) \/ RampDown(w)
    BY <1>3 DEF KeepTimeOver, WriteChunk, StreamFails, RampDown, Abort
  <1>4. CASE Unregister(w) \/ CloseTask(w) \/ ZeroOutput(w) \/ ZeroFails(w) \/ Exit(w)
    BY <1>4 DEF Unregister, CloseTask, ZeroOutput, ZeroFails, Exit
  <1>5. CASE Begin(w) \/ Play(w) \/ Keep(w) \/ Report(w)
    BY <1>5 DEF Begin, Play, Keep, Report
  <1> HIDE DEF BackendTypeOK, CoilFrame
  <1> QED
    BY <1>1, <1>2, <1>3, <1>4, <1>5
       DEF WorkerStep, SilentStep, WorkerBegins, WorkerPlays, WorkerKept, WorkerReports

\* A worker that may not zero the outputs finds them zero: its own task is
\* closed, so they are held by the zero task of an enable().
LEMMA HeldByEnable ==
    ASSUME BackendTypeOK, WorkerInv, CoilInv, NEW w \in Actions, wpc[w] = "zero", ~OutputsFree
    PROVE  output = "zero"
  <1>1. reserved = None
    <2> SUFFICES ASSUME reserved # None PROVE FALSE
      OBVIOUS
    <2>1. reserved \in Actions /\ wpc[reserved] \in Reserving
      BY DEF BackendTypeOK, WorkerInv
    <2>2. reserved \in Workers /\ w \in Workers /\ reserved # w
      BY <2>1 DEF Workers, Alive, Reserving, Registered
    <2> QED
      BY <2>2 DEF WorkerInv
  <1> QED
    BY <1>1 DEF OutputsFree, CoilInv

LEMMA WorkerKeepsCoils ==
    ASSUME BackendTypeOK, BackendTypeOK', WorkerInv, CoilInv, NEW w \in Actions,
           WorkerStep(w), UNCHANGED <<line, backCallVars>>
    PROVE  CoilInv'
  <1>1. CoilFrame(w) /\ WorkerFrame(w)
    BY CoilFramed, WorkerFramed
  <1>2. UNCHANGED call
    BY DEF backCallVars
  <1>3. ASSUME NEW c \in Callers, call'[c] = "zeroed" PROVE output' = "zero"
    BY <1>1, <1>2, <1>3 DEF CoilInv, CoilFrame, OutputsFree
  <1>4. ASSUME output' = "live", "zero" \notin Faulty
        PROVE  \E v \in Actions : wpc'[v] \in Zeroing
    <2>1. CASE wpc'[w] \in Zeroing
      BY <2>1
    <2>2. CASE wpc'[w] \notin Zeroing
      <3>1. output = "live"
        BY <1>1, <1>4, <2>2 DEF CoilFrame, BackendTypeOK
      <3>2. PICK v \in Actions : wpc[v] \in Zeroing
        BY <1>4, <3>1 DEF CoilInv
      <3>3. v # w
        BY <1>1, <1>4, <2>2, <3>1, <3>2, HeldByEnable DEF CoilFrame
      <3> QED
        BY <1>1, <3>2, <3>3 DEF WorkerFrame
    <2> QED
      BY <2>1, <2>2
  <1> QED
    BY <1>3, <1>4 DEF CoilInv

LEMMA CallerKeepsCoils ==
    ASSUME BackendTypeOK, ControllerTypeOK, WorkerInv, CoilInv,
           NEW c \in Callers, CallBegin(c) \/ CallerStep(c)
    PROVE  CoilInv'
  <1>1. CASE CtlEnableZero(c)
    BY <1>1 DEF CtlEnableZero, CallWriteZero, CoilInv
  <1>2. CASE ~CtlEnableZero(c)
    <2>1. /\ output' = output
          /\ \A d \in Callers : call'[d] = "zeroed" => call[d] = "zeroed"
      <3> USE DEF BackendTypeOK, CallMove, coilVars, backCallVars, backVars
      <3>1. CASE CtlEnable(c) \/ CtlEnableClose(c) \/ CtlEnableReturns(c) \/ CtlEnableRaises(c)
        BY <3>1 DEF CtlEnable, CallInitialize, CtlEnableClose, CallCloseZero, CtlEnableReturns,
           CallRaiseLine, CtlEnableRaises, CallEnableFails
      <3>2. CASE CtlSendFirst(c) \/ CtlSendReplacing(c) \/ \E valid \in Validity : CtlReject(c, valid)
        BY <3>2 DEF CtlSendFirst, CallStart, CallStartRaises, CtlSendReplacing, CallReplace,
           CallReplaceRaises, CtlReject
      <3>3. CASE \/ CtlSetStop(c) \/ CtlGrabThread(c) \/ CtlStopReturns(c)
                 \/ \E m \in Methods, t \in Actions \cup {None} : CtlStop(c, m, t)
        BY <3>3 DEF CtlSetStop, CallSetStop, CtlGrabThread, CallGrabThread, CtlStopReturns,
           CallStopReturns, CtlStop
      <3>4. CASE CtlStopMark(c) \/ CtlDisableOff(c) \/ CtlDisableRaises(c) \/ CtlCloseReturns(c)
        BY <3>4 DEF CtlStopMark, CtlDisableOff, CtlDisableRaises, CtlCloseReturns,
           CallReleaseLine, CallStopReturns
      <3> QED
        BY <1>2, <3>1, <3>2, <3>3, <3>4 DEF CallBegin, CallerStep
    <2>2. ASSUME NEW w \in Actions, wpc[w] \in Zeroing PROVE wpc'[w] = wpc[w]
      <3>1. CallerFrame
        BY CallerFramed
      <3>2. w \in Workers
        BY <2>2 DEF Workers, Alive, Zeroing
      <3>3. ~MayStart
        BY <3>2 DEF MayStart, WorkerInv, Workers
      <3> QED
        BY <3>1, <3>3 DEF CallerFrame
    <2> QED
      BY <2>1, <2>2 DEF CoilInv
  <1> QED
    BY <1>1, <1>2

\* Whatever fails on the way, the outputs are at zero when no worker is left,
\* unless the final zero write itself may fail.
THEOREM OutputEndsQuiet == Spec => []QuietWhenIdle
  <1>1. Init => CoilInv
    BY DEF Init, BackendInit, CoilInv
  <1>2. HardwareInv /\ HardwareInv' /\ CoilInv /\ [Next]_vars => CoilInv'
    <2> SUFFICES ASSUME HardwareInv, HardwareInv', CoilInv, [Next]_vars PROVE CoilInv'
      OBVIOUS
    <2>0. BackendTypeOK /\ BackendTypeOK' /\ ControllerTypeOK /\ WorkerInv
      BY DEF HardwareInv, ControllerInv
    <2>1. CASE UNCHANGED vars
      BY <2>1 DEF vars, backVars, coilVars, backCallVars, CoilInv
    <2> QED
      BY <2>0, <2>1, WorkerKeepsCoils, CallerKeepsCoils DEF Next
  <1>3. HardwareInv /\ CoilInv => QuietWhenIdle
    BY DEF HardwareInv, BackendTypeOK, CoilInv, QuietWhenIdle, Workers, Alive, Zeroing
  <1> QED
    BY <1>1, <1>2, <1>3, HardwareInvariant, PTL DEF Spec

-----------------------------------------------------------------------------
\* The places of run() in which the clock of an action may be running.
Timed == Zeroing \cup {"report"}

\* Those before its loop.
Opening == {"open", "fill", "begin"}

\* A worker begins with its own action.  A clock runs only for an action that
\* has been reported as started, and a keep time is reported only by a clock
\* that runs.
TimingInv ==
    /\ \A w \in Actions :
        /\ timing[w] => wpc[w] \in Timed /\ "started" \in timestamps[current[w]]
        /\ wpc[w] = "keep" => timing[w]
        /\ wpc[w] \in Opening => current[w] = w
    /\ KeepTimeAfterStart

\* All that one silent step of the worker w may do to the clocks.
LEMMA TimingFramed ==
    ASSUME BackendTypeOK, NEW w \in Actions, SilentStep(w)
    PROVE  /\ \A v \in Actions : v # w => timing'[v] = timing[v]
           /\ timing'[w] => timing[w] /\ current'[w] = current[w]
           /\ wpc[w] \in Timed /\ timing'[w] => wpc'[w] \in Timed
           /\ wpc'[w] = "keep" => timing'[w]
           /\ wpc'[w] \in Opening => wpc[w] \in Opening /\ current'[w] = current[w]
  <1> USE DEF BackendTypeOK, Timed, Zeroing, Opening, Go, workVars
  <1>1. CASE OpenTask(w) \/ OpenFails(w) \/ FillBuffer(w) \/ FillFails(w)
    BY <1>1 DEF OpenTask, OpenFails, FillBuffer, FillFails, Abort
  <1>2. CASE CheckStop(w) \/ NothingToPick(w) \/ DeviceReached(w)
    BY <1>2 DEF CheckStop, NothingToPick, DeviceReached
  <1>3. CASE PickReplacement(w)
    BY <1>3 DEF PickReplacement, TakeOver
  <1>4. CASE KeepTimeOver(w) \/ WriteChunk(w) \/ StreamFails(w) \/ RampDown(w)
    BY <1>4 DEF KeepTimeOver, WriteChunk, StreamFails, RampDown, Abort
  <1>5. CASE Unregister(w) \/ CloseTask(w) \/ ZeroOutput(w) \/ ZeroFails(w)
    BY <1>5 DEF Unregister, CloseTask, ZeroOutput, ZeroFails
  <1>6. CASE Exit(w)
    BY <1>6 DEF Exit
  <1> HIDE DEF BackendTypeOK, Timed, Opening
  <1> QED
    BY <1>1, <1>2, <1>3, <1>4, <1>5, <1>6 DEF SilentStep

LEMMA WorkerKeepsTiming ==
    ASSUME ControllerTypeOK, BackendTypeOK, HeldAdmitted, TimingInv, NEW w \in Actions,
           WorkerStep(w), WorkerFrame(w)
    PROVE  TimingInv'
  <1> DEFINE Keeps(a) == /\ timestamps[a] \subseteq timestamps'[a]
                         /\ "duration_elapsed" \in timestamps'[a]
                              => "duration_elapsed" \in timestamps[a]
  <1>1. ASSUME \A a \in Actions : Keeps(a),
               \A v \in Actions : v # w => timing'[v] = timing[v],
               timing'[w] => wpc'[w] \in Timed /\ "started" \in timestamps'[current'[w]],
               wpc'[w] = "keep" => timing'[w],
               wpc'[w] \in Opening => current'[w] = w
        PROVE  TimingInv'
    <2>1. ASSUME NEW v \in Actions, v # w
          PROVE  /\ timing'[v] => wpc'[v] \in Timed /\ "started" \in timestamps'[current'[v]]
                 /\ wpc'[v] = "keep" => timing'[v]
                 /\ wpc'[v] \in Opening => current'[v] = v
      <3>1. wpc'[v] = wpc[v] /\ current'[v] = current[v] /\ timing'[v] = timing[v]
        BY <1>1, <2>1 DEF WorkerFrame
      <3>2. timing[v] => current[v] \in Actions
        BY DEF TimingInv, Timed, Zeroing, HeldAdmitted, Workers, Alive, Admitted
      <3> QED
        BY <1>1, <3>1, <3>2 DEF TimingInv
    <2>2. KeepTimeAfterStart'
      BY <1>1 DEF TimingInv, KeepTimeAfterStart
    <2> QED
      BY <1>1, <2>1, <2>2 DEF TimingInv
  <1>2. ASSUME NEW a \in Actions, Started(a)
        PROVE  (\A b \in Actions : Keeps(b)) /\ "started" \in timestamps'[a]
    <2>1. Emit(a, "started") /\ "started" \in Statuses \ {"duration_elapsed"} /\ "started" \in Stamped
      BY <1>2 DEF Started, Statuses, Stamped
    <2> QED
      BY <2>1, EmitKeepsStamps
  <1>3. CASE SilentStep(w) /\ UNCHANGED ctlVars
    <2>1. timing'[w] => wpc'[w] \in Timed /\ "started" \in timestamps'[current'[w]]
      BY <1>3, TimingFramed DEF TimingInv, ctlVars, recordVars
    <2>2. \A a \in Actions : Keeps(a)
      BY <1>3 DEF ctlVars, recordVars
    <2>3. wpc'[w] \in Opening => current'[w] = w
      BY <1>3, TimingFramed DEF TimingInv
    <2> QED
      BY <1>1, <1>3, <2>1, <2>2, <2>3, TimingFramed
  <1>4. CASE WorkerBegins(w)
    <2>1. /\ Started(w) /\ wpc'[w] = "top" /\ current'[w] = w
          /\ \A v \in Actions : v # w => timing'[v] = timing[v]
      BY <1>4 DEF WorkerBegins, Begin, Go, BackendTypeOK, TimingInv, Opening
    <2> QED
      BY <1>1, <1>2, <2>1 DEF Timed, Zeroing, Opening
  <1>5. CASE WorkerPlays(w)
    <2>1. pending[w] \in Seq(Actions) /\ pending[w] # <<>>
      BY <1>5 DEF WorkerPlays, Play, BackendTypeOK
    <2>2. Head(pending[w]) \in Actions /\ Started(Head(pending[w]))
      BY <1>5, <2>1 DEF WorkerPlays
    <2>3. /\ wpc'[w] = "play" /\ current'[w] = current[w]
          /\ timing'[w] = (timing[w] \/ Head(pending[w]) = current[w])
          /\ \A v \in Actions : v # w => timing'[v] = timing[v]
      BY <1>5 DEF WorkerPlays, Play, Go, BackendTypeOK
    <2>4. timing[w] => current[w] \in Actions
      BY DEF TimingInv, Timed, Zeroing, HeldAdmitted, Workers, Alive, Admitted
    <2>5. timing'[w] => "started" \in timestamps'[current'[w]]
      BY <1>2, <2>2, <2>3, <2>4 DEF TimingInv
    <2> QED
      BY <1>1, <1>2, <2>2, <2>3, <2>5 DEF Timed, Zeroing, Opening
  <1>6. CASE WorkerKept(w)
    <2>1. /\ DurationElapsed(current[w]) /\ wpc'[w] = "write" /\ current'[w] = current[w]
          /\ timing' = timing /\ wpc[w] = "keep"
      BY <1>6 DEF WorkerKept, Keep, Go, BackendTypeOK
    <2>2. current[w] \in Actions /\ "started" \in timestamps[current[w]]
      BY <2>1 DEF TimingInv, HeldAdmitted, Workers, Alive, Admitted
    <2>3. \A b \in Actions : /\ timestamps[b] \subseteq timestamps'[b]
                             /\ b # current[w] /\ "duration_elapsed" \in timestamps'[b]
                                  => "duration_elapsed" \in timestamps[b]
      BY <2>1, <2>2, DurationStamps
    <2>4. KeepTimeAfterStart'
      BY <2>2, <2>3 DEF TimingInv, KeepTimeAfterStart
    <2>5. ASSUME NEW v \in Actions, v # w
          PROVE  /\ timing'[v] => wpc'[v] \in Timed /\ "started" \in timestamps'[current'[v]]
                 /\ wpc'[v] = "keep" => timing'[v]
                 /\ wpc'[v] \in Opening => current'[v] = v
      <3>1. wpc'[v] = wpc[v] /\ current'[v] = current[v]
        BY <2>5 DEF WorkerFrame
      <3>2. timing[v] => current[v] \in Actions
        BY DEF TimingInv, Timed, Zeroing, HeldAdmitted, Workers, Alive, Admitted
      <3> QED
        BY <2>1, <2>3, <3>1, <3>2 DEF TimingInv
    <2>6. /\ timing'[w] => wpc'[w] \in Timed /\ "started" \in timestamps'[current'[w]]
          /\ wpc'[w] # "keep" /\ wpc'[w] \notin Opening
      BY <2>1, <2>2, <2>3 DEF Timed, Zeroing, Opening
    <2> QED
      BY <2>4, <2>5, <2>6 DEF TimingInv
  <1>7. CASE WorkerReports(w)
    <2>1. /\ ~timing'[w] /\ wpc'[w] = "exit"
          /\ \A v \in Actions : v # w => timing'[v] = timing[v]
      BY <1>7 DEF WorkerReports, Report, Go, BackendTypeOK
    <2>2. DoneReason(w) \in DoneReasons
      BY DEF DoneReason, DoneReasons
    <2>3. current[w] \in Actions
      BY <1>7 DEF WorkerReports, Report, HeldAdmitted, Workers, Alive, Admitted
    <2>4. \/ Emit(current[w], "failed") \/ Emit(current[w], "completed")
          \/ UNCHANGED timestamps
      BY <1>7, <2>2, <2>3, DoneEmits DEF WorkerReports, Done
    <2>5. {"failed", "completed"} \subseteq Statuses \ {"duration_elapsed"}
      BY DEF Statuses
    <2>6. \A a \in Actions : Keeps(a)
      BY <2>3, <2>4, <2>5, EmitKeepsStamps
    <2> QED
      BY <1>1, <2>1, <2>6 DEF Opening
  <1> QED
    BY <1>3, <1>4, <1>5, <1>6, <1>7 DEF WorkerStep

LEMMA CallerKeepsTiming ==
    ASSUME ControllerInv, BackendTypeOK, BackendTypeOK', WorkerInv, HeldAdmitted, TimingInv,
           NEW c \in Callers, CallBegin(c) \/ CallerStep(c)
    PROVE  TimingInv'
  <1>0. ControllerTypeOK
    BY DEF ControllerInv
  <1>1. \A a \in Actions :
           /\ timestamps[a] \subseteq timestamps'[a]
           /\ "duration_elapsed" \in timestamps'[a] => "duration_elapsed" \in timestamps[a]
    BY CallerActs, CallerKeepsStamps DEF ctlVars, recordVars
  <1>2. CallerFrame
    BY <1>0, CallerFramed
  <1>3. UNCHANGED timing
    BY DEF CallBegin, CallerStep, CtlEnable, CallInitialize, CtlReject, CtlSendFirst, CallStart,
       CallStartRaises, CtlSendReplacing, CallReplace, CallReplaceRaises, CtlStop, CtlEnableZero,
       CallWriteZero, CtlEnableClose, CallCloseZero, CtlEnableReturns, CallRaiseLine,
       CtlEnableRaises, CallEnableFails, CtlSetStop, CallSetStop, CtlGrabThread,
       CallGrabThread, CtlStopReturns, CallStopReturns, CtlStopMark, CtlDisableOff,
       CtlDisableRaises, CtlCloseReturns, CallReleaseLine, workVars, backVars
  <1>4. ASSUME NEW w \in Actions
        PROVE  /\ timing'[w] => wpc'[w] \in Timed /\ "started" \in timestamps'[current'[w]]
               /\ wpc'[w] = "keep" => timing'[w]
               /\ wpc'[w] \in Opening => current'[w] = w
    <2>1. CASE wpc'[w] = wpc[w] /\ current'[w] = current[w]
      <3>1. timing[w] => current[w] \in Actions
        BY DEF TimingInv, Timed, Zeroing, HeldAdmitted, Workers, Alive, Admitted
      <3> QED
        BY <1>1, <1>3, <2>1, <3>1 DEF TimingInv
    <2>2. CASE wpc'[w] = "open" /\ current'[w] = w /\ ~timing[w]
      BY <1>3, <2>2
    <2>3. ASSUME MayStart, w = Fresh, wpc' = [wpc EXCEPT ![Fresh] = "open"],
                 current' = [current EXCEPT ![Fresh] = Fresh]
          PROVE  wpc'[w] = "open" /\ current'[w] = w /\ ~timing[w]
      <3>1. w \notin Workers
        BY <2>3 DEF MayStart, WorkerInv, Workers
      <3> QED
        BY <2>3, <3>1 DEF TimingInv, Timed, Zeroing, Workers, Alive, BackendTypeOK
    <2> QED
      BY <1>2, <2>1, <2>2, <2>3 DEF CallerFrame, BackendTypeOK
  <1>5. KeepTimeAfterStart'
    BY <1>1 DEF TimingInv, KeepTimeAfterStart
  <1> QED
    BY <1>4, <1>5 DEF TimingInv

\* The keep time of an action is over only after the device has reached it, also
\* when several replacements wait for the device at once.
THEOREM OutputKeepsTime == Spec => []KeepTimeAfterStart
  <1>1. Init => TimingInv
    BY DEF Init, ControllerInit, BackendInit, TimingInv, KeepTimeAfterStart, Opening
  <1>2. HardwareInv /\ HardwareInv' /\ TimingInv /\ [Next]_vars => TimingInv'
    <2> SUFFICES ASSUME HardwareInv, HardwareInv', TimingInv, [Next]_vars PROVE TimingInv'
      OBVIOUS
    <2>0. /\ BackendTypeOK /\ BackendTypeOK' /\ ControllerInv /\ ControllerTypeOK
          /\ WorkerInv /\ HeldAdmitted
      BY DEF HardwareInv, ControllerInv
    <2>1. CASE UNCHANGED vars
      BY <2>1 DEF vars, backVars, workVars, ctlVars, recordVars, TimingInv, KeepTimeAfterStart
    <2>2. ASSUME NEW w \in Actions, WorkerStep(w) PROVE TimingInv'
      BY <2>0, <2>2, WorkerFramed, WorkerKeepsTiming
    <2> QED
      BY <2>0, <2>1, <2>2, CallerKeepsTiming DEF Next
  <1> QED
    BY <1>1, <1>2, HardwareInvariant, PTL DEF Spec, TimingInv

-----------------------------------------------------------------------------
\* The order in which actions reach the coils.

Increasing(queue) == \A i, j \in 1 .. Len(queue) : i < j => queue[i] < queue[j]

Above(queue, actions) == \A i \in 1 .. Len(queue), b \in actions : b < queue[i]

Below(queue, a) == \A i \in 1 .. Len(queue) : queue[i] < a

\* What waits for the device is newer than all that was reported and waits in
\* order; what waits in the slot is newer still; a worker that opens its task
\* is newer than all that was reported and has nothing waiting.
PlayInv ==
    /\ \A w \in Actions :
        /\ wpc[w] # "none" => w <= issued
        /\ wpc[w] \in Opening \cup {"none"} => pending[w] = <<>>
        /\ wpc[w] \in Opening => \A b \in Reported : b < w
    /\ \A w \in Workers : Increasing(pending[w]) /\ Above(pending[w], Reported)
    /\ slot # None =>
        /\ \A b \in Reported : b < slot
        /\ \A w \in Workers : w < slot /\ Below(pending[w], slot)

-----------------------------------------------------------------------------
\* Sequences of actions.

LEMMA AppendKeepsOrder ==
    ASSUME NEW queue \in Seq(Actions), NEW a \in Actions, NEW heard \in SUBSET Actions,
           Increasing(queue), Above(queue, heard), Below(queue, a), \A b \in heard : b < a
    PROVE  Increasing(Append(queue, a)) /\ Above(Append(queue, a), heard)
  <1>1. /\ Append(queue, a) \in Seq(Actions)
        /\ Len(Append(queue, a)) = Len(queue) + 1 /\ Len(queue) \in Nat
        /\ Append(queue, a)[Len(queue) + 1] = a
        /\ \A i \in 1 .. Len(queue) : Append(queue, a)[i] = queue[i]
    OBVIOUS
  <1> DEFINE new == Append(queue, a)
  <1> HIDE DEF new
  <1>2. ASSUME NEW i \in 1 .. Len(new) PROVE i \in 1 .. Len(queue) \/ (i = Len(queue) + 1 /\ new[i] = a)
    BY <1>1, <1>2 DEF new
  <1>3. Increasing(new)
    BY <1>1, <1>2 DEF new, Increasing, Below
  <1>4. Above(new, heard)
    BY <1>1, <1>2 DEF new, Above
  <1> QED
    BY <1>3, <1>4 DEF new

LEMMA TailKeepsOrder ==
    ASSUME NEW queue \in Seq(Actions), queue # <<>>, NEW heard \in SUBSET Actions,
           Increasing(queue), Above(queue, heard)
    PROVE  /\ Head(queue) \in Actions /\ \A b \in heard : b < Head(queue)
           /\ Increasing(Tail(queue)) /\ Above(Tail(queue), heard \cup {Head(queue)})
           /\ \A a \in Actions : Below(queue, a) => Head(queue) < a /\ Below(Tail(queue), a)
  <1>1. /\ Len(queue) \in Nat /\ Len(queue) >= 1
        /\ Head(queue) = queue[1] /\ Head(queue) \in Actions
        /\ Tail(queue) \in Seq(Actions) /\ Len(Tail(queue)) = Len(queue) - 1
        /\ \A i \in 1 .. Len(queue) - 1 : Tail(queue)[i] = queue[i + 1]
    OBVIOUS
  <1> DEFINE rest == Tail(queue)
             first == Head(queue)
  <1> HIDE DEF rest, first
  <1>2. \A i \in 1 .. Len(rest) : i + 1 \in 1 .. Len(queue) /\ rest[i] = queue[i + 1]
    BY <1>1 DEF rest
  <1>3. 1 \in 1 .. Len(queue) /\ first = queue[1]
    BY <1>1 DEF first
  <1>4. \A b \in heard : b < first
    BY <1>3 DEF Above
  <1>5. \A i \in 1 .. Len(rest) : first < rest[i]
    BY <1>1, <1>2, <1>3 DEF Increasing
  <1>6. Increasing(rest) /\ Above(rest, heard \cup {first})
    BY <1>1, <1>2, <1>5 DEF Increasing, Above, rest
  <1>7. \A a \in Actions : Below(queue, a) => first < a /\ Below(rest, a)
    BY <1>2, <1>3 DEF Below
  <1> QED
    BY <1>1, <1>4, <1>6, <1>7 DEF rest, first

-----------------------------------------------------------------------------
\* All that one step of the worker w may do to what Playout speaks of.
Quiet == {"none", "open", "fill", "top", "pick", "play", "keep", "write", "ramp", "finally",
          "close", "zero", "report", "exit", "dead"}

Passing(w) ==
    /\ wpc[w] \in Quiet /\ wpc'[w] \in Quiet \ {"none"}
    /\ wpc'[w] \in Opening => wpc[w] \in Opening
    /\ slot' = slot /\ pending' = pending /\ Reported' = Reported

Filling(w) ==
    /\ wpc[w] = "fill" /\ wpc'[w] = "begin"
    /\ slot' = slot /\ pending' = pending /\ Reported' = Reported

Beginning(w) ==
    /\ wpc[w] = "begin" /\ wpc'[w] = "top"
    /\ slot' = slot /\ pending' = pending /\ Reported' = Reported \cup {w}

Picking(w) ==
    /\ wpc[w] = "pick" /\ wpc'[w] = "play"
    /\ slot \in Actions /\ slot' = None
    /\ pending'[w] = Append(pending[w], slot) /\ Reported' = Reported

Reaching(w) ==
    /\ wpc[w] = "play" /\ wpc'[w] = "switch" /\ pending[w] # <<>>
    /\ slot' = slot /\ pending' = pending /\ Reported' = Reported

Playing(w) ==
    /\ wpc[w] = "switch" /\ wpc'[w] = "play" /\ pending[w] # <<>>
    /\ slot' = slot /\ pending'[w] = Tail(pending[w])
    /\ Reported' = Reported \cup {Head(pending[w])}

Ending(w) ==
    /\ wpc[w] = "report" /\ wpc'[w] = "exit"
    /\ slot' = slot /\ pending'[w] = <<>> /\ Reported' = Reported

LEMMA ReportedBy ==
    ASSUME ControllerTypeOK, NEW a \in Actions
    PROVE  /\ \A s \in Statuses \ {"started"} : Emit(a, s) => Reported' = Reported
           /\ Started(a) => Reported' = Reported \cup {a}
  <1>1. ASSUME NEW s \in Statuses \ {"started"}, Emit(a, s) PROVE Reported' = Reported
    BY <1>1 DEF ControllerTypeOK, Emit, Reported
  <1>2. ASSUME Started(a) PROVE Reported' = Reported \cup {a}
    <2>1. {"started"} \cap Stamped = {"started"}
      BY DEF Stamped
    <2> QED
      BY <1>2, <2>1 DEF Started, ControllerTypeOK, Emit, Reported
  <1> QED
    BY <1>1, <1>2

LEMMA PlayFramed ==
    ASSUME BackendTypeOK, ControllerTypeOK, HeldAdmitted, NEW w \in Actions, WorkerStep(w)
    PROVE  \/ Passing(w) \/ Filling(w) \/ Beginning(w) \/ Picking(w) \/ Reaching(w)
           \/ Playing(w) \/ Ending(w)
  <1> USE DEF BackendTypeOK, Passing, Go, slotVars, coilVars, workVars, Opening, Quiet
  <1>0. UNCHANGED ctlVars => Reported' = Reported
    BY DEF ctlVars, recordVars, Reported
  <1>1. ASSUME UNCHANGED ctlVars, OpenTask(w) \/ OpenFails(w) \/ FillFails(w) PROVE Passing(w)
    BY <1>0, <1>1 DEF OpenTask, OpenFails, FillFails, Abort
  <1>2. ASSUME UNCHANGED ctlVars, FillBuffer(w) PROVE Filling(w)
    BY <1>0, <1>2 DEF FillBuffer, Filling
  <1>3. ASSUME UNCHANGED ctlVars, CheckStop(w) \/ NothingToPick(w) \/ KeepTimeOver(w) PROVE Passing(w)
    BY <1>0, <1>3 DEF CheckStop, NothingToPick, KeepTimeOver
  <1>4. ASSUME UNCHANGED ctlVars, PickReplacement(w) PROVE Picking(w)
    BY <1>0, <1>4 DEF PickReplacement, HasReplacement, TakeOver, Picking
  <1>5. ASSUME UNCHANGED ctlVars, DeviceReached(w) PROVE Reaching(w)
    BY <1>0, <1>5 DEF DeviceReached, Reaching
  <1>6. ASSUME UNCHANGED ctlVars, WriteChunk(w) \/ StreamFails(w) \/ RampDown(w) PROVE Passing(w)
    BY <1>0, <1>6 DEF WriteChunk, StreamFails, RampDown, Abort
  <1>7. ASSUME UNCHANGED ctlVars, Unregister(w) \/ CloseTask(w) \/ ZeroOutput(w) \/ ZeroFails(w) \/ Exit(w)
        PROVE  Passing(w)
    BY <1>0, <1>7 DEF Unregister, CloseTask, ZeroOutput, ZeroFails, Exit
  <1>8. ASSUME WorkerBegins(w) PROVE Beginning(w)
    BY <1>8, ReportedBy DEF WorkerBegins, Begin, Beginning
  <1>9. ASSUME WorkerPlays(w) PROVE Playing(w)
    <2>1. Head(pending[w]) \in Actions
      BY <1>9 DEF WorkerPlays, Play
    <2> QED
      BY <1>9, <2>1, ReportedBy DEF WorkerPlays, Play, Playing
  <1>10. ASSUME WorkerKept(w) PROVE Passing(w)
    <2>1. current[w] \in Actions
      BY <1>10 DEF WorkerKept, Keep, HeldAdmitted, Workers, Alive, Admitted
    <2>2. Emit(current[w], "duration_elapsed") \/ UNCHANGED timestamps
      BY <1>10 DEF WorkerKept, DurationElapsed
    <2>3. Reported' = Reported
      BY <2>1, <2>2, ReportedBy DEF Statuses, Reported
    <2> QED
      BY <1>10, <2>3 DEF WorkerKept, Keep
  <1>11. ASSUME WorkerReports(w) PROVE Ending(w)
    <2>1. current[w] \in Actions
      BY <1>11 DEF WorkerReports, Report, HeldAdmitted, Workers, Alive, Admitted
    <2>2. DoneReason(w) \in DoneReasons
      BY DEF DoneReason, DoneReasons
    <2>3. Emit(current[w], "failed") \/ Emit(current[w], "completed") \/ UNCHANGED timestamps
      BY <1>11, <2>1, <2>2, DoneEmits DEF WorkerReports, Done
    <2>4. Reported' = Reported
      BY <2>1, <2>3, ReportedBy DEF Statuses, Reported
    <2> QED
      BY <1>11, <2>4 DEF WorkerReports, Report, Ending
  <1> HIDE DEF BackendTypeOK, Passing, Go
  <1> QED
    BY <1>1, <1>2, <1>3, <1>4, <1>5, <1>6, <1>7, <1>8, <1>9, <1>10, <1>11
       DEF WorkerStep, SilentStep
-----------------------------------------------------------------------------
LEMMA PlayInvFrom ==
    ASSUME BackendTypeOK, WorkerInv, PlayInv, NEW w \in Actions, WorkerFrame(w), issued' = issued,
           wpc'[w] \in Opening => /\ wpc[w] \in Opening
                                  /\ pending'[w] = pending[w]
                                  /\ Reported' = Reported,
           Increasing(pending'[w]), Above(pending'[w], Reported'),
           slot' # None => /\ \A b \in Reported' : b < slot'
                           /\ w < slot' /\ Below(pending'[w], slot')
    PROVE  PlayInv'
  <1>1. ASSUME NEW v \in Actions
        PROVE  /\ wpc'[v] # "none" => v <= issued'
               /\ wpc'[v] \in Opening \cup {"none"} => pending'[v] = <<>>
               /\ wpc'[v] \in Opening => \A b \in Reported' : b < v
    <2>1. CASE v = w
      BY <2>1 DEF PlayInv, WorkerFrame
    <2>2. CASE v # w
      <3>1. wpc[v] \in {"none", "dead"} /\ wpc'[v] = wpc[v] /\ pending'[v] = pending[v]
        BY <2>2, OnlyWorker
      <3> QED
        BY <3>1 DEF PlayInv, Opening
    <2> QED
      BY <2>1, <2>2
  <1>2. Workers' \subseteq {w}
    BY OnlyWorker
  <1> QED
    BY <1>1, <1>2 DEF PlayInv

LEMMA WorkerKeepsPlay ==
    ASSUME BackendTypeOK, ControllerTypeOK, HeldAdmitted, WorkerInv, PlayInv, NEW w \in Actions,
           WorkerStep(w)
    PROVE  PlayInv'
  <1>0. WorkerFrame(w)
    BY WorkerFramed
  <1>1. issued' = issued
    BY DEF WorkerStep, WorkerBegins, WorkerPlays, WorkerKept, WorkerReports, Started,
       DurationElapsed, Done, ctlVars, recordVars
  <1>2. /\ w \in Workers /\ pending[w] \in Seq(Actions) /\ Reported \in SUBSET Actions
        /\ slot \in Actions \cup {None}
    BY <1>0, OnlyWorker DEF BackendTypeOK, Reported
  <1>3. /\ Increasing(pending[w]) /\ Above(pending[w], Reported)
        /\ slot # None => /\ \A b \in Reported : b < slot
                          /\ w < slot /\ Below(pending[w], slot)
    BY <1>2 DEF PlayInv
  <1>4. ASSUME slot' = slot, pending'[w] = pending[w], Reported' = Reported,
               wpc'[w] \in Opening => wpc[w] \in Opening
        PROVE  PlayInv'
    BY <1>0, <1>1, <1>3, <1>4, PlayInvFrom
  <1>5. CASE Passing(w) \/ Filling(w) \/ Reaching(w)
    BY <1>4, <1>5 DEF Passing, Filling, Reaching, Opening
  <1>6. CASE Beginning(w)
    <2>1. pending[w] = <<>> /\ wpc'[w] \notin Opening
      BY <1>6 DEF PlayInv, Beginning, Opening
    <2>2. Above(pending[w], Reported \cup {w})
      BY <2>1 DEF Above
    <2> QED
      BY <1>0, <1>1, <1>3, <1>6, <2>1, <2>2, PlayInvFrom DEF Beginning
  <1>7. CASE Picking(w)
    <2>1. wpc'[w] \notin Opening /\ slot \in Actions /\ slot' = None
      BY <1>7 DEF Picking, Opening
    <2>2. Increasing(Append(pending[w], slot)) /\ Above(Append(pending[w], slot), Reported)
      BY <1>2, <1>3, <2>1, AppendKeepsOrder
    <2> QED
      BY <1>0, <1>1, <1>7, <2>1, <2>2, PlayInvFrom DEF Picking
  <1>8. CASE Playing(w)
    <2>1. wpc'[w] \notin Opening /\ slot' = slot
      BY <1>8 DEF Playing, Opening
    <2>2. /\ Increasing(Tail(pending[w]))
          /\ Above(Tail(pending[w]), Reported \cup {Head(pending[w])})
          /\ \A a \in Actions : Below(pending[w], a) =>
                 Head(pending[w]) < a /\ Below(Tail(pending[w]), a)
      BY <1>2, <1>3, <1>8, TailKeepsOrder DEF Playing
    <2>3. slot # None => /\ \A b \in Reported \cup {Head(pending[w])} : b < slot
                         /\ w < slot /\ Below(Tail(pending[w]), slot)
      BY <1>2, <1>3, <2>2
    <2> QED
      BY <1>0, <1>1, <1>8, <2>1, <2>2, <2>3, PlayInvFrom DEF Playing
  <1>9. CASE Ending(w)
    <2>1. wpc'[w] \notin Opening /\ slot' = slot /\ Reported' = Reported
      BY <1>9 DEF Ending, Opening
    <2>2. Increasing(<<>>) /\ Above(<<>>, Reported) /\ (\A a \in Actions : Below(<<>>, a))
      BY DEF Increasing, Above, Below
    <2> QED
      BY <1>0, <1>1, <1>2, <1>3, <1>9, <2>1, <2>2, PlayInvFrom DEF Ending
  <1> QED
    BY <1>5, <1>6, <1>7, <1>8, <1>9, PlayFramed

-----------------------------------------------------------------------------
\* Calls report nothing as started.
LEMMA CallerReports ==
    ASSUME ControllerInv, NEW c \in Callers, CallBegin(c) \/ CallerStep(c)
    PROVE  Reported' = Reported
  <1>0. ControllerTypeOK
    BY DEF ControllerInv
  <1>1. CASE timestamps' = timestamps
    BY <1>1 DEF Reported
  <1>2. ASSUME NEW b \in Actions, timestamps' = [timestamps EXCEPT ![b] = @ \cup {"rejected"}]
        PROVE  Reported' = Reported
    BY <1>0, <1>2 DEF ControllerTypeOK, Reported
  <1>3. CASE issued < MaxActions /\ timestamps' = [timestamps EXCEPT ![Fresh] = {"validated"}]
    <2>1. timestamps[Fresh] = {} /\ Fresh \in Actions
      BY <1>3, FreshFacts
    <2> QED
      BY <1>0, <1>3, <2>1 DEF ControllerTypeOK, Reported
  <1>4. CASE UNCHANGED ctlVars
    BY <1>1, <1>4 DEF ctlVars, recordVars
  <1> QED
    BY <1>0, <1>1, <1>2, <1>3, <1>4, CallerActs, CallerStamps

LEMMA CallerKeepsPlay ==
    ASSUME ControllerInv, BackendTypeOK, HeldAdmitted, WorkerInv, PlayInv,
           NEW c \in Callers, CallBegin(c) \/ CallerStep(c)
    PROVE  PlayInv'
  <1>1. CallFrame /\ Reported' = Reported
    BY CallFramed, CallerReports
  <1>2. issued \in Nat /\ issued <= issued' /\ issued' \in Nat
    BY <1>1 DEF CallFrame, Fresh, ControllerInv, ControllerTypeOK
  <1>3. \A b \in Reported : b \in Actions /\ b <= issued
    BY <1>2 DEF ControllerInv, Unissued, Reported
  <1>4. pending' = pending
    BY <1>1 DEF CallFrame
  <1>5. CASE UNCHANGED <<thread, wpc, slot>>
    BY <1>1, <1>2, <1>4, <1>5 DEF PlayInv, Workers, Alive
  <1>6. CASE issued < MaxActions /\ issued' = Fresh /\ slot' = Fresh /\ UNCHANGED <<thread, wpc>>
    <2>1. Workers' = Workers /\ Fresh = issued + 1 /\ \A a \in Admitted : a < Fresh
      BY <1>6, FreshFacts DEF Workers, Alive, Admitted
    <2>2. \A b \in Reported : b < Fresh
      BY <1>2, <1>3, <2>1
    <2>3. ASSUME NEW w \in Workers PROVE w < Fresh /\ Below(pending[w], Fresh)
      <3>1. w \in Actions /\ w <= issued
        BY DEF PlayInv, Workers, Alive
      <3>2. \A i \in 1 .. Len(pending[w]) : pending[w][i] \in Admitted
        BY <3>1 DEF HeldAdmitted
      <3> QED
        BY <1>2, <2>1, <3>1, <3>2 DEF Below
    <2>4. \A w \in Actions : wpc'[w] # "none" => w <= issued'
      BY <1>2, <1>6 DEF PlayInv
    <2> QED
      BY <1>1, <1>4, <1>6, <2>1, <2>2, <2>3, <2>4 DEF PlayInv
  <1>7. CASE /\ issued < MaxActions /\ issued' = Fresh /\ MayStart /\ slot' = None
             /\ wpc' = [wpc EXCEPT ![Fresh] = "open"]
    <2>1. Fresh \in Actions /\ Fresh = issued + 1
      BY <1>7, FreshFacts
    <2>2. wpc[Fresh] = "none" /\ wpc'[Fresh] = "open"
      BY <1>2, <1>7, <2>1 DEF PlayInv, BackendTypeOK
    <2>3. \A w \in Actions : w # Fresh => wpc'[w] = wpc[w] /\ wpc[w] \in {"none", "dead"}
      BY <1>7, <2>1 DEF BackendTypeOK, MayStart, WorkerInv, Workers, Alive
    <2>4. pending[Fresh] = <<>>
      BY <2>1, <2>2 DEF PlayInv
    <2>5. \A b \in Reported : b < Fresh
      BY <1>2, <1>3, <2>1
    <2>6. Workers' \subseteq {Fresh}
      BY <2>3 DEF Workers, Alive
    <2>7. Increasing(pending[Fresh]) /\ Above(pending[Fresh], Reported)
      BY <2>4 DEF Increasing, Above
    <2>8. ASSUME NEW w \in Actions
          PROVE  /\ wpc'[w] # "none" => w <= issued'
                 /\ wpc'[w] \in Opening \cup {"none"} => pending'[w] = <<>>
                 /\ wpc'[w] \in Opening => \A b \in Reported' : b < w
      <3>1. CASE w = Fresh
        BY <1>1, <1>2, <1>4, <1>7, <2>1, <2>4, <2>5, <3>1
      <3>2. CASE w # Fresh
        BY <1>1, <1>2, <1>4, <2>3, <3>2 DEF PlayInv, Opening
      <3> QED
        BY <3>1, <3>2
    <2> QED
      BY <1>1, <1>4, <1>7, <2>6, <2>7, <2>8 DEF PlayInv
  <1> QED
    BY <1>1, <1>5, <1>6, <1>7 DEF CallFrame
-----------------------------------------------------------------------------
\* The inductive invariant behind the order of the playout.
THEOREM PlayInvariant == Spec => []PlayInv
  <1>1. Init => PlayInv
    BY DEF Init, ControllerInit, BackendInit, PlayInv, Workers, Alive, Opening
  <1>2. HardwareInv /\ PlayInv /\ [Next]_vars => PlayInv'
    <2> SUFFICES ASSUME HardwareInv, PlayInv, [Next]_vars PROVE PlayInv'
      OBVIOUS
    <2>0. /\ BackendTypeOK /\ ControllerInv /\ ControllerTypeOK
          /\ WorkerInv /\ HeldAdmitted
      BY DEF HardwareInv, ControllerInv
    <2>1. CASE UNCHANGED vars
      BY <2>1 DEF vars, backVars, slotVars, workVars, ctlVars, recordVars, PlayInv, Workers, Alive,
         Reported
    <2> QED
      BY <2>0, <2>1, WorkerKeepsPlay, CallerKeepsPlay DEF Next
  <1> QED
    BY <1>1, <1>2, HardwareInvariant, PTL DEF Spec

-----------------------------------------------------------------------------
\* What the refinement mapping makes of a system whose only worker is w.
LEMMA Mapped ==
    ASSUME NEW w \in Actions, \A v \in Actions : v # w => wpc[v] \in {"none", "dead"}
    PROVE  /\ wpc[w] \notin {"begin", "switch"} => InHand = {}
           /\ wpc[w] = "begin" => InHand = {w}
           /\ wpc[w] = "switch" => InHand = {Head(pending[w])}
  <1>1. /\ wpc[w] \notin {"begin", "switch"} => {v \in Actions : wpc[v] = "switch"} = {}
        /\ wpc[w] = "begin" => {v \in Actions : wpc[v] = "switch"} = {}
        /\ wpc[w] = "switch" => {v \in Actions : wpc[v] = "switch"} = {w}
    OBVIOUS
  <1>2. /\ wpc[w] \notin {"begin", "switch"} => {v \in Actions : wpc[v] = "begin"} = {}
        /\ wpc[w] = "begin" => {v \in Actions : wpc[v] = "begin"} = {w}
        /\ wpc[w] = "switch" => {v \in Actions : wpc[v] = "begin"} = {}
    OBVIOUS
  <1> QED
    BY <1>1, <1>2 DEF InHand

LEMMA MappedNext ==
    ASSUME NEW w \in Actions, \A v \in Actions : v # w => wpc'[v] \in {"none", "dead"}
    PROVE  /\ wpc'[w] \notin {"begin", "switch"} => InHand' = {}
           /\ wpc'[w] = "begin" => InHand' = {w}
           /\ wpc'[w] = "switch" => InHand' = {Head(pending'[w])}
  <1>1. /\ wpc'[w] \notin {"begin", "switch"} => {v \in Actions : wpc'[v] = "switch"} = {}
        /\ wpc'[w] = "begin" => {v \in Actions : wpc'[v] = "switch"} = {}
        /\ wpc'[w] = "switch" => {v \in Actions : wpc'[v] = "switch"} = {w}
    OBVIOUS
  <1>2. /\ wpc'[w] \notin {"begin", "switch"} => {v \in Actions : wpc'[v] = "begin"} = {}
        /\ wpc'[w] = "begin" => {v \in Actions : wpc'[v] = "begin"} = {w}
        /\ wpc'[w] = "switch" => {v \in Actions : wpc'[v] = "begin"} = {}
    OBVIOUS
  <1> QED
    BY <1>1, <1>2 DEF InHand

LEMMA WorkerPlaysOut ==
    ASSUME BackendTypeOK, ControllerTypeOK, HeldAdmitted, WorkerInv, PlayInv, NEW w \in Actions,
           WorkerStep(w)
    PROVE  Plays!PlayoutNext \/ UNCHANGED Plays!playoutVars
  <1> USE DEF Plays!playoutVars, Plays!PlayoutNext, Plays!Actions
  <1>0. WorkerFrame(w)
    BY WorkerFramed
  <1>1. /\ w \in Workers /\ thread = w /\ thread' = w /\ pending[w] \in Seq(Actions)
        /\ \A v \in Actions : v # w => wpc[v] \in {"none", "dead"} /\ wpc'[v] \in {"none", "dead"}
    BY <1>0, OnlyWorker DEF BackendTypeOK
  <1>2. Queued = IF wpc[w] = "switch" THEN Tail(pending[w]) ELSE pending[w]
    BY <1>1 DEF Queued, Workers
  <1>3. /\ wpc'[w] = "switch" => Queued' = Tail(pending'[w])
        /\ wpc'[w] \notin {"switch", "none", "dead"} => Queued' = pending'[w]
        /\ wpc'[w] = "dead" => Queued' = <<>>
    BY <1>1 DEF Queued, Alive
  <1>4. /\ Increasing(pending[w]) /\ Above(pending[w], Reported)
        /\ wpc[w] \in Opening => pending[w] = <<>> /\ \A b \in Reported : b < w
        /\ slot # None => /\ \A b \in Reported : b < slot
                          /\ Below(pending[w], slot)
    BY <1>1 DEF PlayInv
  <1>5. CASE Passing(w)
    <2>1. InHand = {} /\ InHand' = {} /\ Reported' = Reported /\ pending'[w] = pending[w]
      BY <1>1, <1>5, Mapped, MappedNext DEF Passing, Quiet
    <2>2. Queued' = <<>> \/ Queued' = Queued
      BY <1>2, <1>3, <1>5, <2>1 DEF Passing, Quiet
    <2> QED
      BY <2>1, <2>2 DEF Plays!Drop
  <1>6. CASE Filling(w)
    <2>1. InHand = {} /\ InHand' = {w} /\ Reported' = Reported
      BY <1>1, <1>6, Mapped, MappedNext DEF Filling
    <2>2. Queued = <<>> /\ Queued' = <<>> /\ \A b \in Reported : b < w
      BY <1>2, <1>3, <1>4, <1>6 DEF Filling, Opening
    <2>3. Plays!Accept(w)
      BY <2>1, <2>2 DEF Plays!Accept
    <2> QED
      BY <2>3
  <1>7. CASE Beginning(w)
    <2>1. InHand = {w} /\ InHand' = {} /\ Reported' = Reported \cup {w}
      BY <1>1, <1>7, Mapped, MappedNext DEF Beginning
    <2>2. Queued' = Queued /\ \A b \in Reported : b < w
      BY <1>2, <1>3, <1>4, <1>7 DEF Beginning, Opening
    <2>3. Plays!Tell(w)
      BY <2>1, <2>2 DEF Plays!Tell
    <2> QED
      BY <2>3
  <1>8. CASE Picking(w)
    <2>1. InHand = {} /\ InHand' = {} /\ Reported' = Reported
      BY <1>1, <1>8, Mapped, MappedNext DEF Picking
    <2>2. /\ Queued = pending[w] /\ Queued' = Append(pending[w], slot) /\ slot \in Actions
          /\ \A b \in Reported : b < slot
          /\ Below(pending[w], slot)
      BY <1>1, <1>2, <1>3, <1>4, <1>8 DEF Picking
    <2>3. DOMAIN pending[w] = 1 .. Len(pending[w])
      BY <1>1
    <2>4. Plays!Accept(slot)
      BY <2>1, <2>2, <2>3 DEF Plays!Accept, Below
    <2> QED
      BY <2>2, <2>4
  <1>9. CASE Reaching(w)
    <2>1. InHand = {} /\ InHand' = {Head(pending[w])} /\ Reported' = Reported
      BY <1>1, <1>9, Mapped, MappedNext DEF Reaching
    <2>2. Queued = pending[w] /\ Queued' = Tail(pending[w]) /\ pending[w] # <<>>
      BY <1>2, <1>3, <1>9 DEF Reaching
    <2> QED
      BY <2>1, <2>2 DEF Plays!Reach
  <1>10. CASE Playing(w)
    <2>1. /\ InHand = {Head(pending[w])} /\ InHand' = {}
          /\ Reported' = Reported \cup {Head(pending[w])}
      BY <1>1, <1>10, Mapped, MappedNext DEF Playing
    <2>2. Queued' = Queued
      BY <1>2, <1>3, <1>10 DEF Playing
    <2>3. Head(pending[w]) \in Actions /\ \A b \in Reported : b < Head(pending[w])
      BY <1>1, <1>4, <1>10, TailKeepsOrder DEF Playing, Reported
    <2>4. Plays!Tell(Head(pending[w]))
      BY <2>1, <2>2, <2>3 DEF Plays!Tell
    <2> QED
      BY <2>3, <2>4
  <1>11. CASE Ending(w)
    <2>1. InHand = {} /\ InHand' = {} /\ Reported' = Reported /\ Queued' = <<>>
      BY <1>1, <1>3, <1>11, Mapped, MappedNext DEF Ending
    <2> QED
      BY <2>1 DEF Plays!Drop
  <1> QED
    BY <1>5, <1>6, <1>7, <1>8, <1>9, <1>10, <1>11, PlayFramed

\* A call changes nothing Playout speaks of, except that a new worker begins
\* with an empty queue.
LEMMA CallerPlaysOut ==
    ASSUME ControllerInv, BackendTypeOK, WorkerInv, PlayInv,
           NEW c \in Callers, CallBegin(c) \/ CallerStep(c)
    PROVE  Plays!PlayoutNext \/ UNCHANGED Plays!playoutVars
  <1>1. CallFrame /\ Reported' = Reported
    BY CallFramed, CallerReports
  <1>2. CASE UNCHANGED <<thread, wpc>>
    <2>1. InHand' = InHand /\ Queued' = Queued
      BY <1>1, <1>2 DEF CallFrame, InHand, Queued, Alive
    <2> QED
      BY <1>1, <2>1 DEF Plays!playoutVars
  <1>3. CASE /\ issued < MaxActions /\ issued' = Fresh /\ MayStart /\ thread' = Fresh
             /\ wpc' = [wpc EXCEPT ![Fresh] = "open"]
    <2>1. Fresh \in Actions /\ Fresh = issued + 1 /\ issued \in Nat
      BY <1>3, FreshFacts
    <2>2. wpc[Fresh] = "none" /\ wpc'[Fresh] = "open"
      BY <1>3, <2>1 DEF PlayInv, BackendTypeOK
    <2>3. \A w \in Actions : w # Fresh => wpc'[w] = wpc[w] /\ wpc[w] \in {"none", "dead"}
      BY <1>3, <2>1 DEF BackendTypeOK, MayStart, WorkerInv, Workers, Alive
    <2>4. InHand = {} /\ InHand' = {}
      BY <2>1, <2>2, <2>3, Mapped, MappedNext
    <2>5. Queued' = <<>>
      BY <1>1, <1>3, <2>1, <2>2 DEF PlayInv, CallFrame, Queued, Alive
    <2> QED
      BY <1>1, <2>4, <2>5 DEF Plays!PlayoutNext, Plays!Drop
  <1> QED
    BY <1>1, <1>2, <1>3 DEF CallFrame

\* Controller and worker thread implement Playout: what is written to the
\* stream is reached and reported oldest first, and nothing of it is skipped,
\* however sends, stops, restarts and failures interleave.
THEOREM HardwarePlaysInOrder == Spec => PlaysInOrder
  <1>1. Init => Plays!PlayoutInit
    <2> SUFFICES ASSUME Init PROVE Plays!PlayoutInit
      OBVIOUS
    <2>1. Reported = {} /\ InHand = {} /\ Queued = <<>>
      BY DEF Init, ControllerInit, BackendInit, Reported, InHand, Queued, Alive
    <2> QED
      BY <2>1 DEF Plays!PlayoutInit
  <1>2. HardwareInv /\ PlayInv /\ [Next]_vars => Plays!PlayoutNext \/ UNCHANGED Plays!playoutVars
    <2> SUFFICES ASSUME HardwareInv, PlayInv, [Next]_vars
                 PROVE  Plays!PlayoutNext \/ UNCHANGED Plays!playoutVars
      OBVIOUS
    <2>0. /\ BackendTypeOK /\ ControllerInv /\ ControllerTypeOK
          /\ WorkerInv /\ HeldAdmitted
      BY DEF HardwareInv, ControllerInv
    <2>1. CASE UNCHANGED vars
      BY <2>1 DEF vars, backVars, slotVars, workVars, ctlVars, recordVars, Reported, InHand, Queued,
         Alive, Plays!playoutVars
    <2> QED
      BY <2>0, <2>1, WorkerPlaysOut, CallerPlaysOut DEF Next
  <1> QED
    BY <1>1, <1>2, HardwareInvariant, PlayInvariant, PTL
       DEF Spec, PlaysInOrder, Plays!PlayoutSpec, Plays!playoutVars
=============================================================================
