--------------------------- MODULE QueueModeProofs ---------------------------
(* The window's queue uses the controller as its specification allows, and   *)
(* its decisions on an old status are right, for every number of requests.   *)
EXTENDS QueueMode, FieldControllerProofs

USE GuiAssumption, MaxActionsAssumption, UsageAssumption
    DEF GuiAssumption, Actions, None, MaxActionsAssumption, UsageAssumption

\* Types of the window's state, as far as the proofs need them.
WindowTyped ==
    /\ queue \in Seq(Validity)
    /\ handler = "next" => queue # <<>>
    /\ activeId \in Actions \cup {None}
    /\ activeId <= issued

-----------------------------------------------------------------------------
\* What a button does to the controller is a call, or nothing.
LEMMA ButtonRefines ==
    ASSUME ControllerTypeOK, PressEnable \/ PressStop \/ PressDisable \/ PressRaises
    PROVE  CallerAction(Gui) \/ UNCHANGED ctlVars
  <1>0. active \in Actions \cup {None} /\ Recorded \subseteq Actions
    BY DEF ControllerTypeOK, Recorded
  <1>1. CASE PressEnable
    BY <1>1 DEF PressEnable, CallerAction
  <1>2. CASE PressStop
    <2>1. PICK t : StopBegin(Gui, "stop", t)
      BY <1>2 DEF PressStop
    <2>2. t \in Actions \cup {None}
      BY <1>0, <2>1 DEF StopBegin
    <2> QED
      BY <2>1, <2>2 DEF CallerAction
  <1>3. CASE PressDisable
    BY <1>0, <1>3 DEF PressDisable, CallerAction
  <1>4. CASE PressRaises
    BY <1>4 DEF PressRaises
  <1> QED
    BY <1>1, <1>2, <1>3, <1>4

\* So is what the handler goes on to do.
LEMMA HandlerRefines ==
    ASSUME ControllerTypeOK, WindowTyped, HandlerStep
    PROVE  CallerAction(Gui) \/ UNCHANGED ctlVars
  <1>1. CASE Enabled \/ NotEnabled
    BY <1>1 DEF Enabled, NotEnabled, CallerAction
  <1>2. CASE Transmitted \/ StopRaises
    BY <1>2 DEF Transmitted, StopRaises
  <1>3. CASE TransmitNext
    <2>1. Head(queue) \in Validity
      BY <1>3 DEF TransmitNext, WindowTyped
    <2> QED
      BY <1>3, <2>1 DEF TransmitNext, Transmit, TransmitRaises, CallerAction
  <1>4. CASE StopGoesOn
    <2>1. active \in Actions \cup {None}
      BY DEF ControllerTypeOK
    <2> QED
      BY <1>4, <2>1 DEF StopGoesOn, CallerAction
  <1>5. CASE CallGoesOn \/ Disabled \/ NotDisabled
    BY <1>5 DEF CallGoesOn, Disabled, NotDisabled, CallerAction
  <1> QED
    BY <1>1, <1>2, <1>3, <1>4, <1>5 DEF HandlerStep

\* The window with its backend takes the controller's steps only.
LEMMA WindowRefines ==
    ASSUME ControllerTypeOK, WindowTyped, [Next]_vars
    PROVE  [ControllerNext]_ctlVars
  <1>1. CASE PressEnable \/ PressStop \/ PressDisable \/ PressRaises
    BY <1>1, ButtonRefines DEF ControllerNext
  <1>2. ASSUME NEW valid \in Validity, PressSend(valid) PROVE [ControllerNext]_ctlVars
    BY <1>2 DEF PressSend, Transmit, TransmitRaises, CallerAction, ControllerNext
  <1>3. CASE HandlerStep
    BY <1>3, HandlerRefines DEF ControllerNext
  <1>4. CASE PollStep
    BY <1>4 DEF PollStep, Poll, PollRaises
  <1>5. CASE BackendStep
    BY <1>5 DEF BackendStep, ControllerNext, DoneReasons
  <1>6. CASE UNCHANGED vars
    BY <1>6 DEF vars
  <1> QED
    BY <1>1, <1>2, <1>3, <1>4, <1>5, <1>6 DEF Next

-----------------------------------------------------------------------------
\* The keep time of a has been reported.
KeptTime(a) == "duration_elapsed" \in timestamps[a]

\* A record at "duration_elapsed" has the stamp of it.
KeepTimesStamped == \A a \in Actions : status[a] = "duration_elapsed" => KeptTime(a)

\* Emitting any status keeps the stamps, and stamps a keep time.
LEMMA EmitStamps ==
    ASSUME ControllerTypeOK, KeepTimesStamped, NEW a \in Actions, NEW s \in Statuses, Emit(a, s)
    PROVE  KeepTimesStamped' /\ \A b \in Actions : KeptTime(b) => KeptTime(b)'
  BY DEF ControllerTypeOK, KeepTimesStamped, KeptTime, Emit, Stamped

\* No step of the controller takes the stamp of a keep time from a record, or
\* sets the status without the stamp.
LEMMA RecordsKept ==
    ASSUME ControllerInv, KeepTimesStamped, [ControllerNext]_ctlVars
    PROVE  KeepTimesStamped' /\ \A b \in Actions : KeptTime(b) => KeptTime(b)'
  <1>0. ControllerTypeOK /\ Unissued
    BY DEF ControllerInv
  <1> DEFINE Goal == KeepTimesStamped' /\ \A b \in Actions : KeptTime(b) => KeptTime(b)'
  <1>1. CASE UNCHANGED <<status, timestamps>>
    BY <1>1 DEF KeepTimesStamped, KeptTime
  <1>2. ASSUME NEW c \in Callers, CallerAction(c) PROVE Goal
    <2>1. ASSUME NEW valid \in Validity, Reject(c, valid) PROVE Goal
      <3>1. Emit(Fresh, "rejected") /\ Fresh \in Actions
        BY <1>0, <2>1, FreshIsAction DEF Reject, MaySend
      <3> QED
        BY <1>0, <3>1, EmitStamps DEF Statuses
    <2>2. CASE AdmitFirst(c) \/ AdmitReplacing(c)
      <3>1. timestamps[Fresh] = {} /\ Fresh \in Actions
        BY <1>0, <2>2, FreshIsAction DEF AdmitFirst, AdmitReplacing, MaySend, Unissued
      <3>2. \A b \in Actions : KeptTime(b) => KeptTime(b)'
        BY <1>0, <2>2, <3>1 DEF AdmitFirst, AdmitReplacing, KeptTime, ControllerTypeOK
      <3>3. \A b \in Actions : status'[b] = "duration_elapsed" => status[b] = "duration_elapsed"
        BY <1>0, <2>2, <3>1 DEF AdmitFirst, AdmitReplacing, ReplaceActive, ControllerTypeOK
      <3> QED
        BY <3>2, <3>3 DEF KeepTimesStamped
    <2>3. CASE StopMark(c)
      <3>1. target[c] \in Actions \cup {None}
        BY <1>0 DEF ControllerTypeOK
      <3> QED
        BY <1>0, <1>1, <2>3, <3>1, EmitStamps DEF StopMark, MarkStopped, Statuses
    <2>4. CASE \/ Enable(c) \/ EnableReturns(c) \/ EnableRaises(c) \/ StopReturns(c)
               \/ DisableOff(c) \/ DisableRaises(c) \/ CloseReturns(c)
               \/ \E m \in Methods, t \in Actions \cup {None} : StopBegin(c, m, t)
      <3>1. UNCHANGED <<status, timestamps>>
        BY <2>4 DEF Enable, EnableReturns, EnableRaises, StopReturns, DisableOff, DisableRaises,
           CloseReturns, StopBegin, recordVars
      <3> QED
        BY <1>1, <3>1
    <2> QED
      BY <1>2, <2>1, <2>2, <2>3, <2>4 DEF CallerAction
  <1>3. ASSUME NEW a \in Admitted,
               \/ Started(a) \/ DurationElapsed(a)
               \/ \E reason \in DoneReasons : Done(a, reason)
        PROVE  Goal
    <2>1. a \in Actions
      BY DEF Admitted
    <2>2. (\E s \in Statuses : Emit(a, s)) \/ UNCHANGED <<status, timestamps>>
      BY <1>3, DoneEmits DEF Started, DurationElapsed, Done, DoneStatus, Statuses
    <2> QED
      BY <1>0, <1>1, <2>1, <2>2, EmitStamps
  <1>4. CASE UNCHANGED ctlVars
    BY <1>1, <1>4 DEF ctlVars, recordVars
  <1> QED
    BY <1>2, <1>3, <1>4 DEF ControllerNext

-----------------------------------------------------------------------------
\* disable() has let go of the action before it clears enabled.
DisabledAfterStop == pc[Gui] = "disabling" => active = None

\* The status that was read last does not miss an end of the keep time that
\* was read before it.
LookIsSound ==
    active # None /\ active = activeId => activeStatus \in Running \/ KeptTime(active)

\* The window knows the active action, or it is past its keep time; what is
\* taken out of the queue follows such a one.
ActiveIsKnown ==
    active # None /\ ~trouble =>
        \/ KeptTime(active)
        \/ handler # "next" /\ active = IF handler = "sent" THEN issued ELSE activeId

\* The inductive invariant.
QueueInv ==
    /\ ControllerInv
    /\ WindowTyped
    /\ KeepTimesStamped
    /\ DisabledAfterStop
    /\ LookIsSound
    /\ ActiveIsKnown

\* The inductive invariant is one.
LEMMA QueueInit == Init => QueueInv
  <1> SUFFICES ASSUME Init PROVE QueueInv
    OBVIOUS
  <1>1. ControllerInv
    BY InitInv DEF Init
  <1>2. active = None /\ issued = 0 /\ \A a \in Actions : status[a] = "none"
    BY DEF Init, ControllerInit
  <1>3. pc[Gui] = "idle"
    BY DEF Init, ControllerInit
  <1> QED
    BY <1>1, <1>2, <1>3 DEF QueueInv, Init, WindowTyped, KeepTimesStamped, DisabledAfterStop,
       LookIsSound, ActiveIsKnown

\* Each handler, one step at a time; <1>3 and <1>4 are what most of them do.
LEMMA QueueStep == QueueInv /\ [Next]_vars => QueueInv'
  <1> SUFFICES ASSUME QueueInv, [Next]_vars PROVE QueueInv'
    OBVIOUS
  <1> DEFINE Goal == WindowTyped' /\ DisabledAfterStop' /\ LookIsSound' /\ ActiveIsKnown'
  <1>0. /\ ControllerInv /\ ControllerTypeOK /\ WindowTyped /\ KeepTimesStamped
        /\ DisabledAfterStop /\ LookIsSound /\ ActiveIsKnown
    BY DEF QueueInv, ControllerInv
  <1>1. ControllerInv' /\ KeepTimesStamped' /\ \A b \in Actions : KeptTime(b) => KeptTime(b)'
    BY <1>0, WindowRefines, StepInv, RecordsKept
  <1> SUFFICES Goal
    BY <1>1 DEF QueueInv
  <1>2. /\ active \in Actions \cup {None} /\ active <= issued
        /\ issued \in Nat
        /\ pc \in [Callers -> CallerPCs] /\ Gui \in Callers
        /\ queue \in Seq(Validity)
    BY <1>0 DEF ControllerInv, Unissued, ControllerTypeOK, WindowTyped
  <1>3. ASSUME active' \in {active, None},
               UNCHANGED <<issued, activeId, activeStatus>>,
               queue' \in Seq(Validity),
               handler' = "next" => handler = "next" /\ queue' = queue,
               handler' = "sent" <=> handler = "sent",
               trouble' \in {trouble, TRUE},
               pc'[Gui] = "disabling" => active' = None
        PROVE  Goal
    <2>1. WindowTyped'
      BY <1>0, <1>3 DEF WindowTyped
    <2>2. DisabledAfterStop'
      BY <1>3 DEF DisabledAfterStop
    <2>3. LookIsSound'
      BY <1>0, <1>1, <1>2, <1>3 DEF LookIsSound
    <2>4. ~trouble' => ~trouble
      BY <1>3
    <2>5. ActiveIsKnown'
      BY <1>0, <1>1, <1>2, <1>3, <2>4 DEF ActiveIsKnown
    <2> QED
      BY <2>1, <2>2, <2>3, <2>5
  <1>4. ASSUME handler' # "next", handler' # "sent",
               active' = active \/ active' = None,
               activeId' = None, UNCHANGED issued,
               queue' \in Seq(Validity),
               trouble' \/ active' = None,
               pc'[Gui] # "disabling"
        PROVE  Goal
    BY <1>2, <1>4 DEF WindowTyped, DisabledAfterStop, LookIsSound, ActiveIsKnown
  <1>5. ASSUME NEW valid \in Validity, Transmit(valid) \/ TransmitRaises,
                active # None /\ ~trouble => KeptTime(active),
                UNCHANGED <<activeId, activeStatus>>, queue' \in Seq(Validity)
         PROVE  Goal
    <2>1. CASE TransmitRaises
      <3>1. /\ UNCHANGED <<active, issued, pc>> /\ handler' = "none" /\ trouble' = TRUE
        BY <2>1 DEF TransmitRaises, CallRaises, ctlVars, recordVars, callVars
      <3> QED
        BY <1>0, <1>1, <1>2, <1>5, <3>1
           DEF WindowTyped, DisabledAfterStop, LookIsSound, ActiveIsKnown
    <2>2. CASE Reject(Gui, valid) /\ handler' = "sent" /\ trouble' = trouble
      <3>1. active' = active /\ pc' = pc /\ issued' = issued + 1
        BY <2>2 DEF Reject, callVars, Fresh
      <3> QED
        BY <1>0, <1>1, <1>2, <1>5, <2>2, <3>1
           DEF WindowTyped, DisabledAfterStop, LookIsSound, ActiveIsKnown
    <2>3. CASE /\ AdmitFirst(Gui) \/ AdmitReplacing(Gui)
               /\ handler' = "sent" /\ trouble' = trouble
      <3>1. active' = issued + 1 /\ pc' = pc /\ pc[Gui] = "idle" /\ issued' = issued + 1
        BY <2>3 DEF AdmitFirst, AdmitReplacing, ReplaceActive, MaySend, callVars, Fresh
      <3> QED
        BY <1>0, <1>2, <1>5, <2>3, <3>1
           DEF WindowTyped, DisabledAfterStop, LookIsSound, ActiveIsKnown
    <2> QED
      BY <1>5, <2>1, <2>2, <2>3 DEF Transmit
  <1>6. CASE PressEnable
    BY <1>0, <1>2, <1>3, <1>6 DEF PressEnable, Free, Enable, Move, recordVars, WindowTyped
  <1>7. CASE PressStop \/ PressDisable
    <2>0. PICK m \in Methods : \E t : StopBegin(Gui, m, t)
      BY <1>7 DEF PressStop, PressDisable
    <2>1. PICK t : StopBegin(Gui, m, t)
      BY <2>0
    <2>2. /\ active' = active /\ issued' = issued
          /\ pc'[Gui] = "stopping"
      BY <1>2, <2>1 DEF StopBegin, Move, recordVars
    <2>3. /\ queue' = <<>> /\ handler = "none" /\ handler' \in {"stop", "disable"}
          /\ UNCHANGED <<activeId, activeStatus, trouble>>
      BY <1>7 DEF PressStop, PressDisable, Free
    <2> QED
      BY <1>3, <2>2, <2>3
  <1>8. CASE PressRaises
    BY <1>2, <1>4, <1>8 DEF PressRaises, CallRaises, Free, ctlVars, recordVars, callVars
  <1>9. ASSUME NEW valid \in Validity, PressSend(valid) PROVE Goal
    <2>1. handler = "none" /\ UNCHANGED <<activeId, activeStatus>>
      BY <1>9 DEF PressSend, Free
    <2>2. CASE activeStatus \in Running
      BY <1>0, <1>2, <1>3, <1>9, <2>1, <2>2 DEF PressSend, ctlVars, recordVars, callVars,
         WindowTyped, DisabledAfterStop
    <2>3. CASE activeStatus \notin Running
      <3>1. active # None /\ ~trouble => KeptTime(active)
        BY <1>0, <2>1, <2>3 DEF LookIsSound, ActiveIsKnown
      <3>2. Transmit(valid) \/ TransmitRaises
        BY <1>9, <2>3 DEF PressSend
      <3>3. queue' = queue
        BY <1>9, <2>3 DEF PressSend
      <3> QED
        BY <1>0, <1>5, <2>1, <3>1, <3>2, <3>3 DEF WindowTyped
    <2> QED
      BY <2>2, <2>3
  <1>10. CASE Enabled \/ NotEnabled
    <2>1. /\ active' = active /\ issued' = issued /\ pc'[Gui] = "idle"
      BY <1>2, <1>10 DEF Enabled, NotEnabled, EnableReturns, EnableRaises, Return, Move, recordVars
    <2>2. /\ handler = "enable" /\ handler' = "none" /\ trouble' \in {trouble, TRUE}
          /\ UNCHANGED <<activeId, activeStatus, queue>>
      BY <1>10 DEF Enabled, NotEnabled, CallRaises
    <2> QED
      BY <1>2, <1>3, <2>1, <2>2
  <1>11. CASE Transmitted
    <2>1. /\ handler = "sent" /\ handler' = "none" /\ queue' = queue
          /\ active' = active /\ issued' = issued /\ pc' = pc
      BY <1>11 DEF Transmitted, ctlVars, recordVars, callVars
    <2>2. WindowTyped' /\ DisabledAfterStop'
      BY <1>0, <1>2, <1>11, <2>1 DEF Transmitted, WindowTyped, DisabledAfterStop, ControllerTypeOK
    <2>3. LookIsSound'
      <3>1. CASE activeId' = issued /\ activeStatus' = status[issued]
        <4>1. active # None => status[active] \in Running \cup {"duration_elapsed"}
          BY <1>0 DEF ControllerInv, ActiveIsLive, Live, Running
        <4> QED
          BY <1>0, <1>1, <1>2, <2>1, <3>1, <4>1 DEF LookIsSound, KeepTimesStamped
      <3>2. CASE UNCHANGED <<activeId, activeStatus>>
        BY <1>0, <1>1, <1>2, <2>1, <3>2 DEF LookIsSound
      <3> QED
        BY <1>11, <3>1, <3>2 DEF Transmitted
    <2>4. ActiveIsKnown'
      BY <1>0, <1>1, <1>2, <1>11, <2>1 DEF Transmitted, ActiveIsKnown
    <2> QED
      BY <2>2, <2>3, <2>4
  <1>12. CASE TransmitNext
    <2>1. /\ handler = "next" /\ queue' = Tail(queue)
          /\ UNCHANGED <<activeId, activeStatus>>
          /\ Transmit(Head(queue)) \/ TransmitRaises
      BY <1>12 DEF TransmitNext
    <2>2. Head(queue) \in Validity /\ Tail(queue) \in Seq(Validity)
      BY <1>0, <2>1 DEF WindowTyped
    <2>3. active # None /\ ~trouble => KeptTime(active)
      BY <1>0, <2>1 DEF ActiveIsKnown
    <2> QED
      BY <1>5, <2>1, <2>2, <2>3
  <1>13. CASE StopGoesOn
    <2>1. /\ active' = active /\ issued' = issued /\ pc'[Gui] = "stopping"
      BY <1>2, <1>13 DEF StopGoesOn, StopBegin, Move, recordVars
    <2>2. /\ handler = "stop" /\ handler' = "disable"
          /\ UNCHANGED <<activeId, activeStatus, queue, trouble>>
      BY <1>13 DEF StopGoesOn
    <2> QED
      BY <1>2, <1>3, <2>1, <2>2
  <1>14. CASE StopRaises
    BY <1>0, <1>2, <1>4, <1>14 DEF StopRaises, CallRaises, Reset, ctlVars, recordVars, callVars,
       WindowTyped
  <1>15. CASE CallGoesOn
    <2>1. /\ handler \in {"stop", "disable"} /\ UNCHANGED guiVars
      BY <1>15 DEF CallGoesOn
    <2>2. CASE StopReturns(Gui)
      BY <1>0, <1>2, <1>3, <2>1, <2>2 DEF StopReturns, Move, guiVars, recordVars, WindowTyped
    <2>3. CASE StopMark(Gui)
      BY <1>0, <1>2, <1>3, <2>1, <2>3 DEF StopMark, guiVars, WindowTyped
    <2> QED
      BY <1>15, <2>2, <2>3 DEF CallGoesOn
  <1>16. CASE Disabled \/ NotDisabled
    <2>1. /\ active' = active /\ issued' = issued /\ active = None
          /\ pc'[Gui] # "disabling"
      <3>1. op[Gui] = "close" \/ Return(Gui)
        BY <1>16 DEF Disabled, NotDisabled, DisableOff, DisableRaises
      <3>2. pc'[Gui] \in {"closing", "idle"}
        BY <1>2, <1>16 DEF Disabled, NotDisabled, DisableOff, DisableRaises, Return, Move
      <3> QED
        BY <1>0, <1>16, <3>2 DEF Disabled, NotDisabled, DisableOff, DisableRaises, recordVars,
           DisabledAfterStop
    <2>2. handler' = "none" /\ queue' = queue
      BY <1>16 DEF Disabled, NotDisabled, Reset
    <2>3. activeId' \in {None, activeId}
      BY <1>16 DEF Disabled, NotDisabled, Reset
    <2> QED
      BY <1>0, <1>2, <2>1, <2>2, <2>3
         DEF WindowTyped, DisabledAfterStop, LookIsSound, ActiveIsKnown
  <1>17. CASE PollStep
    <2>1. UNCHANGED ctlVars /\ UNCHANGED <<active, issued, pc, activeId, queue>>
      BY <1>17 DEF PollStep, Poll, PollRaises, ctlVars, recordVars, callVars
    <2>2. ASSUME NEW a \in polls, PollRaises(a) PROVE Goal
      <3>1. handler = "none" /\ handler' = "none" /\ trouble' = TRUE /\ activeStatus' = activeStatus
        BY <2>2 DEF PollRaises, CallRaises, Free
      <3> QED
        BY <1>0, <1>2, <1>3, <2>1, <3>1 DEF WindowTyped, DisabledAfterStop
    <2>3. ASSUME NEW a \in polls, Poll(a), a # activeId PROVE Goal
      <3>1. handler = "none" /\ UNCHANGED <<handler, trouble, activeStatus>>
        BY <2>3 DEF Poll, Free
      <3> QED
        BY <1>0, <1>2, <1>3, <2>1, <3>1 DEF WindowTyped, DisabledAfterStop
    <2>4. ASSUME NEW a \in polls, Poll(a), a = activeId PROVE Goal
      <3>1. /\ handler = "none" /\ trouble' = trouble
            /\ activeStatus' = status[activeId]
            /\ handler' = IF status[activeId] = "duration_elapsed" /\ queue # <<>>
                          THEN "next" ELSE "none"
        BY <2>4 DEF Poll, Free, MayFollow
      <3>2. active # None => status[active] \in Running \cup {"duration_elapsed"}
        BY <1>0 DEF ControllerInv, ActiveIsLive, Live, Running
      <3>3. active # None /\ active = activeId =>
                activeStatus' \in Running \/ (KeptTime(active) /\ KeptTime(active)')
        <4>1. active # None /\ status[active] = "duration_elapsed"
                => KeptTime(active) /\ KeptTime(active)'
          BY <1>0, <1>1, <1>2, <2>1 DEF KeepTimesStamped, KeptTime
        <4> QED
          BY <3>1, <3>2, <4>1
      <3>4. WindowTyped' /\ DisabledAfterStop'
        BY <1>0, <2>1, <3>1 DEF WindowTyped, DisabledAfterStop
      <3>5. LookIsSound'
        BY <2>1, <3>3 DEF LookIsSound, KeptTime
      <3>6. active # None /\ ~trouble /\ handler' = "next" => KeptTime(active)
        BY <1>0, <1>2, <3>1 DEF ActiveIsKnown, KeepTimesStamped
      <3>7. ActiveIsKnown'
        BY <1>0, <1>1, <1>2, <2>1, <3>1, <3>6 DEF ActiveIsKnown
      <3> QED
        BY <3>4, <3>5, <3>7
    <2> QED
      BY <1>17, <2>2, <2>3, <2>4 DEF PollStep
  <1>18. CASE BackendStep
    <2>1. /\ active' \in {active, None} /\ issued' = issued /\ pc' = pc /\ UNCHANGED guiVars
      BY <1>18 DEF BackendStep, Started, DurationElapsed, Done, ActiveAfterDone, callVars
    <2> QED
      BY <1>0, <1>2, <1>3, <2>1 DEF guiVars, WindowTyped, DisabledAfterStop
  <1>19. CASE UNCHANGED vars
    <2>1. UNCHANGED <<active, issued, pc, guiVars>>
      BY <1>19 DEF vars, ctlVars, recordVars, callVars
    <2> QED
      BY <1>0, <1>2, <1>3, <2>1 DEF guiVars, DisabledAfterStop
  <1> QED
    BY <1>1, <1>6, <1>7, <1>8, <1>9, <1>10, <1>11, <1>12, <1>13, <1>14, <1>15, <1>16, <1>17,
       <1>18, <1>19 DEF Next, HandlerStep

\* Whatever the operator presses and the connection loses, the window's
\* knowledge stays as QueueInv says.
THEOREM QueueInvariant == Spec => []QueueInv
  BY QueueInit, QueueStep, PTL DEF Spec

\* The window uses the controller as its specification allows, so what is
\* proved of FieldController holds under it.
THEOREM QueueImplementsController == Spec => ControllerSpec
  <1>1. Init => ControllerInit
    BY DEF Init
  <1>2. QueueInv /\ [Next]_vars => [ControllerNext]_ctlVars
    BY WindowRefines DEF QueueInv, ControllerInv
  <1> QED
    BY <1>1, <1>2, QueueInvariant, PTL DEF Spec, ControllerSpec

-----------------------------------------------------------------------------
\* Only what is transmitted replaces anything, and only the active action.
LEMMA ReplacementStep ==
    ASSUME QueueInv, [Next]_vars, NEW a \in Actions, replacement[a] # replacement'[a]
    PROVE  /\ a = active
           /\ \/ TransmitNext
              \/ \E valid \in Validity : PressSend(valid) /\ activeStatus \notin Running
  <1>0. replacement \in [Actions -> Actions \cup {None}] /\ a # None
    BY DEF QueueInv, ControllerInv, ControllerTypeOK
  <1>1. ASSUME NEW valid, Transmit(valid) PROVE a = active
    BY <1>0, <1>1 DEF Transmit, Reject, AdmitFirst, AdmitReplacing, ReplaceActive
  <1>2. ASSUME NEW valid \in Validity, PressSend(valid)
        PROVE  a = active /\ activeStatus \notin Running
    <2>1. activeStatus \notin Running
      BY <1>2 DEF PressSend, ctlVars, recordVars
    <2> QED
      BY <1>1, <1>2, <2>1 DEF PressSend, TransmitRaises, ctlVars, recordVars
  <1>3. CASE TransmitNext
    BY <1>1, <1>3 DEF TransmitNext, TransmitRaises, ctlVars, recordVars
  <1>4. ~UNCHANGED replacement
    OBVIOUS
  <1>5. ~(PressEnable \/ PressStop \/ PressDisable \/ PressRaises)
    BY <1>4 DEF PressEnable, PressStop, PressDisable, PressRaises, Enable, StopBegin, ctlVars,
       recordVars
  <1>6. ~(\/ Enabled \/ NotEnabled \/ Transmitted \/ StopGoesOn \/ StopRaises \/ CallGoesOn
          \/ Disabled \/ NotDisabled)
    BY <1>4 DEF Enabled, NotEnabled, Transmitted, StopGoesOn, StopRaises, CallGoesOn, Disabled,
       NotDisabled, EnableReturns, EnableRaises, StopBegin, StopReturns, StopMark, DisableOff,
       DisableRaises, ctlVars, recordVars
  <1>7. ~PollStep
    BY <1>4 DEF PollStep, Poll, PollRaises, ctlVars, recordVars
  <1>8. ~BackendStep
    BY <1>4 DEF BackendStep, Started, DurationElapsed, Done
  <1>9. ~UNCHANGED vars
    BY <1>4 DEF vars, ctlVars, recordVars
  <1> QED
    BY <1>2, <1>3, <1>5, <1>6, <1>7, <1>8, <1>9 DEF Next, HandlerStep

\* Queue mode replaces nothing before its keep time is over, though it looks
\* at a record at intervals and transmits on what it read last.
THEOREM QueueKeepsSequence == Spec => QueueIsSequential
  <1>1. ASSUME QueueInv, [Next]_vars, NEW a \in Actions,
               replacement[a] # replacement'[a] /\ ~trouble
        PROVE  "duration_elapsed" \in timestamps[a]
    <2>1. a = active /\ active # None
      BY <1>1, ReplacementStep
    <2>2. ActiveIsKnown /\ LookIsSound
      BY <1>1 DEF QueueInv
    <2>3. CASE TransmitNext
      BY <1>1, <2>1, <2>2, <2>3 DEF TransmitNext, ActiveIsKnown, KeptTime
    <2>4. ASSUME NEW valid \in Validity, PressSend(valid), activeStatus \notin Running
          PROVE  "duration_elapsed" \in timestamps[a]
      BY <1>1, <2>1, <2>2, <2>4 DEF PressSend, Free, ActiveIsKnown, LookIsSound, KeptTime
    <2> QED
      BY <1>1, <2>3, <2>4, ReplacementStep
  <1>2. QueueInv /\ [Next]_vars =>
            [\A a \in Actions : replacement[a] # replacement'[a] /\ ~trouble
                => "duration_elapsed" \in timestamps[a]]_vars
    BY <1>1
  <1> QED
    BY <1>2, QueueInvariant, PTL DEF Spec, QueueIsSequential

-----------------------------------------------------------------------------
\* As long as no call raises, an action the window takes for running is looked
\* at again, whatever timers of older ones are still set.
THEOREM RunningIsAlwaysPolled == Spec => []RunningIsPolled
  <1> USE DEF RunningIsPolled
  <1>1. Init => RunningIsPolled
    BY DEF Init, Running
  <1>2. ASSUME RunningIsPolled, [Next]_vars PROVE RunningIsPolled'
    <2>1. CASE UNCHANGED <<activeId, activeStatus, polls>> /\ trouble' \in {trouble, TRUE}
      <3>1. ~trouble' => ~trouble
        BY <2>1
      <3> QED
        BY <1>2, <2>1, <3>1
    <2>2. CASE Transmitted
      BY <1>2, <2>2 DEF Transmitted
    <2>3. CASE activeStatus' = "none" \/ trouble' = TRUE
      BY <2>3 DEF Running
    <2>4. CASE PressEnable \/ PressStop \/ PressDisable
      BY <2>1, <2>4 DEF PressEnable, PressStop, PressDisable
    <2>5. CASE \E valid \in Validity : PressSend(valid)
      BY <2>1, <2>5 DEF PressSend, Transmit, TransmitRaises, CallRaises
    <2>6. CASE PressRaises \/ StopRaises \/ Disabled \/ NotDisabled
      BY <2>3, <2>6 DEF PressRaises, StopRaises, Disabled, NotDisabled, Reset
    <2>7. CASE Enabled \/ NotEnabled \/ TransmitNext
      BY <2>1, <2>7 DEF Enabled, NotEnabled, TransmitNext, Transmit, TransmitRaises, CallRaises
    <2>8. CASE StopGoesOn \/ CallGoesOn \/ BackendStep
      BY <2>1, <2>8 DEF StopGoesOn, CallGoesOn, BackendStep, guiVars
    <2>9. CASE PollStep
      <3>1. ASSUME NEW a \in polls, PollRaises(a) PROVE RunningIsPolled'
        BY <2>3, <3>1 DEF PollRaises, CallRaises
      <3>2. ASSUME NEW a \in polls, Poll(a) PROVE RunningIsPolled'
        <4>1. CASE a = activeId
          BY <3>2, <4>1 DEF Poll, PollAgain
        <4>2. CASE a # activeId
          <5>1. /\ activeStatus' = activeStatus /\ activeId' = activeId /\ trouble' = trouble
                /\ polls' = polls \ {a}
            BY <3>2, <4>2 DEF Poll
          <5> QED
            BY <1>2, <4>2, <5>1
        <4> QED
          BY <4>1, <4>2
      <3> QED
        BY <2>9, <3>1, <3>2 DEF PollStep
    <2>10. CASE UNCHANGED vars
      BY <2>1, <2>10 DEF vars, guiVars
    <2> QED
      BY <1>2, <2>2, <2>4, <2>5, <2>6, <2>7, <2>8, <2>9, <2>10 DEF Next, HandlerStep
  <1> QED
    BY <1>1, <1>2, PTL DEF Spec
=============================================================================
