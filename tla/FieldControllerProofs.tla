----------------------- MODULE FieldControllerProofs -----------------------
(* The invariants of FieldController hold for every number of requests and  *)
(* callers, whatever the backend does.                                      *)
EXTENDS FieldController, TLAPS

\* Identifiers that have not been handed out have an empty record, and nothing
\* refers to them.
Unissued ==
    /\ \A a \in Actions : a > issued =>
            /\ status[a] = "none"
            /\ timestamps[a] = {}
            /\ tail[a] = FALSE
            /\ replacement[a] = None
    /\ active <= issued
    /\ \A c \in Callers : target[c] <= issued

\* The active action passed the checks of send().
ActiveIsAdmitted == active # None => active \in Admitted

\* The inductive invariant.
ControllerInv ==
    /\ ControllerTypeOK
    /\ Unissued
    /\ ActiveIsAdmitted
    /\ ActiveIsLive
    /\ ReplacementChain
    /\ TailAfterKeepTime
    /\ RejectedIsFinal

USE MaxActionsAssumption, UsageAssumption DEF Actions, None, MaxActionsAssumption, UsageAssumption

-----------------------------------------------------------------------------
LEMMA FreshIsAction ==
    ASSUME ControllerTypeOK, issued < MaxActions
    PROVE  Fresh \in Actions /\ Fresh > issued /\ Fresh \in 0 .. MaxActions
  BY DEF ControllerTypeOK, Fresh

\* What _emit writes stays within the records' types.
LEMMA EmitTyped ==
    ASSUME ControllerTypeOK, NEW a \in Actions, NEW s \in Statuses, Emit(a, s)
    PROVE  status' \in [Actions -> Statuses] /\ timestamps' \in [Actions -> SUBSET Stamped]
  <1>1. timestamps[a] \cup ({s} \cap Stamped) \in SUBSET Stamped
    BY DEF ControllerTypeOK
  <1> QED
    BY <1>1 DEF ControllerTypeOK, Emit

LEMMA InitTyped == ControllerInit => ControllerTypeOK
  <1> SUFFICES ASSUME ControllerInit PROVE ControllerTypeOK
    OBVIOUS
  <1>1. issued \in 0 .. MaxActions /\ active \in Actions \cup {None}
    BY DEF ControllerInit
  <1>2. status \in [Actions -> Statuses] /\ timestamps \in [Actions -> SUBSET Stamped]
    BY DEF ControllerInit, Statuses
  <1> QED
    BY <1>1, <1>2 DEF ControllerInit, ControllerTypeOK, CallerPCs

LEMMA StepTyped == ControllerTypeOK /\ [ControllerNext]_ctlVars => ControllerTypeOK'
  <1> SUFFICES ASSUME ControllerTypeOK, [ControllerNext]_ctlVars
               PROVE  ControllerTypeOK'
    OBVIOUS
  <1> USE DEF ControllerTypeOK, Statuses, Stamped, CallerPCs, recordVars, callVars
  <1>1. ASSUME NEW c \in Callers, Enable(c) PROVE ControllerTypeOK'
    BY <1>1 DEF Enable, Move
  <1>2. ASSUME NEW c \in Callers, EnableReturns(c) PROVE ControllerTypeOK'
    BY <1>2 DEF EnableReturns, Return, Move
  <1>3. ASSUME NEW c \in Callers, EnableRaises(c) PROVE ControllerTypeOK'
    BY <1>3 DEF EnableRaises, Return, Move
  <1>4. ASSUME NEW c \in Callers, NEW valid \in Validity, Reject(c, valid) PROVE ControllerTypeOK'
    BY <1>4, FreshIsAction DEF Reject, MaySend, Emit
  <1>5. ASSUME NEW c \in Callers, AdmitFirst(c) PROVE ControllerTypeOK'
    BY <1>5, FreshIsAction DEF AdmitFirst, MaySend
  <1>6. ASSUME NEW c \in Callers, AdmitReplacing(c) PROVE ControllerTypeOK'
    BY <1>6, FreshIsAction DEF AdmitReplacing, ReplaceActive, MaySend
  <1>7. ASSUME NEW c \in Callers, NEW m \in Methods, NEW t \in Actions \cup {None},
               StopBegin(c, m, t)
        PROVE  ControllerTypeOK'
    BY <1>7 DEF StopBegin, Move
  <1>8. ASSUME NEW c \in Callers, StopReturns(c) PROVE ControllerTypeOK'
    BY <1>8 DEF StopReturns, Move
  <1>9. ASSUME NEW c \in Callers, StopMark(c) PROVE ControllerTypeOK'
    <2>1. status' \in [Actions -> Statuses] /\ timestamps' \in [Actions -> SUBSET Stamped]
      <3>1. CASE target[c] # None /\ status[target[c]] \notin Settled
        BY <1>9, <3>1, EmitTyped DEF StopMark, MarkStopped
      <3>2. CASE ~(target[c] # None /\ status[target[c]] \notin Settled)
        BY <1>9, <3>2 DEF StopMark, MarkStopped
      <3> QED
        BY <3>1, <3>2
    <2>2. /\ pc' \in [Callers -> CallerPCs]
          /\ op' \in [Callers -> {"none", "enable", "stop", "disable", "close"}]
          /\ target' \in [Callers -> Actions \cup {None}]
      BY <1>9 DEF StopMark, Return, Move
    <2> QED
      BY <1>9, <2>1, <2>2 DEF StopMark
  <1>10. ASSUME NEW c \in Callers, DisableOff(c) PROVE ControllerTypeOK'
    BY <1>10 DEF DisableOff, Return, Move
  <1>11. ASSUME NEW c \in Callers, DisableRaises(c) PROVE ControllerTypeOK'
    BY <1>11 DEF DisableRaises, Return, Move
  <1>12. ASSUME NEW c \in Callers, CloseReturns(c) PROVE ControllerTypeOK'
    BY <1>12 DEF CloseReturns, Return, Move
  <1>13. ASSUME NEW a \in Admitted, Started(a) PROVE ControllerTypeOK'
    BY <1>13 DEF Started, Emit, Admitted
  <1>14. ASSUME NEW a \in Admitted, DurationElapsed(a) PROVE ControllerTypeOK'
    <2>1. CASE MayElapse(a)
      BY <1>14, <2>1, EmitTyped DEF DurationElapsed, Admitted
    <2>2. CASE ~MayElapse(a)
      BY <1>14, <2>2 DEF DurationElapsed
    <2> QED
      BY <2>1, <2>2
  <1>15. ASSUME NEW a \in Admitted, NEW reason \in DoneReasons, Done(a, reason)
         PROVE  ControllerTypeOK'
    <2>1. CASE Superseded(a)
      BY <1>15, <2>1 DEF Done
    <2>2. CASE ~Superseded(a)
      <3>1. status' \in [Actions -> Statuses] /\ timestamps' \in [Actions -> SUBSET Stamped]
        BY <1>15, <2>2, EmitTyped DEF Done, DoneStatus, Admitted
      <3> QED
        BY <1>15, <2>2, <3>1 DEF Done, ActiveAfterDone, Admitted
    <2> QED
      BY <2>1, <2>2
  <1>16. CASE UNCHANGED ctlVars
    BY <1>16 DEF ctlVars
  <1> QED
    BY <1>1, <1>2, <1>3, <1>4, <1>5, <1>6, <1>7, <1>8, <1>9, <1>10, <1>11, <1>12,
       <1>13, <1>14, <1>15, <1>16 DEF ControllerNext, CallerAction

\* The variables of the controller always have their types.
THEOREM ControllerTyping == ControllerSpec => []ControllerTypeOK
  BY InitTyped, StepTyped, PTL DEF ControllerSpec

-----------------------------------------------------------------------------
\* The parts of the invariant about records and _active.
RecordInv ==
    /\ ActiveIsAdmitted
    /\ ActiveIsLive
    /\ ReplacementChain
    /\ TailAfterKeepTime
    /\ RejectedIsFinal

\* A step that leaves records and _active alone, and names recorded actions.
LEMMA QuietStep ==
    ASSUME ControllerInv, ControllerTypeOK', UNCHANGED <<active, recordVars>>,
           \A c \in Callers : target'[c] <= issued
    PROVE  ControllerInv'
  BY DEF ControllerInv, Unissued, ActiveIsAdmitted, ActiveIsLive, Live, ReplacementChain,
         TailAfterKeepTime, RejectedIsFinal, Admitted, recordVars

\* Where the active action stands among the others.
LEMMA ActiveFacts ==
    ASSUME ControllerInv, active # None
    PROVE  /\ active \in Actions
           /\ active <= issued
           /\ "validated" \in timestamps[active]
           /\ "rejected" \notin timestamps[active]
           /\ status[active] \in Live
           /\ replacement[active] = None
  BY DEF ControllerInv, ControllerTypeOK, Unissued, ActiveIsAdmitted, ActiveIsLive,
         ReplacementChain, RejectedIsFinal, Admitted

\* Everything that was ever admitted was issued.
LEMMA AdmittedFacts ==
    ASSUME ControllerInv, NEW a \in Admitted
    PROVE  /\ a \in Actions
           /\ a <= issued
           /\ "rejected" \notin timestamps[a]
  <1>1. a \in Actions /\ "validated" \in timestamps[a]
    BY DEF Admitted
  <1>2. a <= issued
    BY <1>1 DEF ControllerInv, ControllerTypeOK, Unissued
  <1>3. "rejected" \notin timestamps[a]
    BY <1>1 DEF ControllerInv, RejectedIsFinal
  <1> QED
    BY <1>1, <1>2, <1>3

\* The next identifier has an empty record.
LEMMA FreshFacts ==
    ASSUME ControllerInv, issued < MaxActions
    PROVE  /\ Fresh \in Actions
           /\ Fresh = issued + 1
           /\ issued \in Nat
           /\ timestamps[Fresh] = {}
           /\ tail[Fresh] = FALSE
           /\ replacement[Fresh] = None
           /\ active # Fresh
           /\ \A a \in Actions : a \in Admitted => a < Fresh
           /\ \A a \in Actions : replacement[a] # Fresh
  <1>1. Fresh \in Actions /\ Fresh > issued /\ Fresh = issued + 1 /\ issued \in Nat
    BY FreshIsAction DEF ControllerInv, ControllerTypeOK, Fresh
  <1>2. /\ timestamps[Fresh] = {}
        /\ tail[Fresh] = FALSE
        /\ replacement[Fresh] = None
        /\ active # Fresh
    BY <1>1 DEF ControllerInv, ControllerTypeOK, Unissued
  <1>3. \A a \in Actions : a \in Admitted => a < Fresh
    BY <1>1, AdmittedFacts
  <1>4. \A a \in Actions : replacement[a] # Fresh
    BY <1>1, <1>3 DEF ControllerInv, ReplacementChain
  <1> QED
    BY <1>1, <1>2, <1>3, <1>4

\* Issuing one identifier, with changes to the new and the active record only.
LEMMA IssueOne ==
    ASSUME ControllerInv, issued < MaxActions,
           issued' = Fresh, UNCHANGED target, active' \in {active, Fresh},
           \A a \in Actions : a # Fresh /\ a # active =>
                /\ status'[a] = status[a] /\ timestamps'[a] = timestamps[a]
                /\ tail'[a] = tail[a] /\ replacement'[a] = replacement[a]
    PROVE  Unissued'
  <1>1. issued \in Nat /\ Fresh = issued + 1
    BY FreshFacts
  <1>2. active \in Nat /\ active <= issued
    BY DEF ControllerInv, ControllerTypeOK, Unissued
  <1>3. \A d \in Callers : target[d] \in Nat /\ target[d] <= issued
    BY DEF ControllerInv, ControllerTypeOK, Unissued
  <1>4. active' <= issued'
    BY <1>1, <1>2
  <1>5. \A d \in Callers : target'[d] <= issued'
    BY <1>1, <1>3
  <1>6. ASSUME NEW a \in Actions, a > issued'
        PROVE  /\ status'[a] = "none" /\ timestamps'[a] = {}
               /\ tail'[a] = FALSE /\ replacement'[a] = None
    <2>1. a > issued /\ a # Fresh /\ a # active
      BY <1>1, <1>2, <1>6
    <2> QED
      BY <2>1 DEF ControllerInv, Unissued
  <1> QED
    BY <1>4, <1>5, <1>6 DEF Unissued

LEMMA RejectKeeps ==
    ASSUME ControllerInv, ControllerTypeOK', NEW c \in Callers, NEW valid \in Validity,
           Reject(c, valid)
    PROVE  ControllerInv'
  <1> USE DEF Reject, MaySend, Emit
  <1>1. issued < MaxActions /\ UNCHANGED <<active, tail, replacement, target>> /\ issued' = Fresh
    BY DEF callVars
  <1>2. timestamps' = [timestamps EXCEPT ![Fresh] = {"rejected"}]
    BY <1>1, FreshFacts DEF Stamped
  <1>3. status' = [status EXCEPT ![Fresh] = "rejected"]
    OBVIOUS
  <1> HIDE DEF Reject, MaySend, Emit
  <1> USE DEF ControllerInv, ControllerTypeOK
  <1>4. Unissued'
    BY <1>1, <1>2, <1>3, IssueOne, FreshFacts, ActiveFacts
  <1>5. Admitted' = Admitted
    BY <1>1, <1>2, FreshFacts DEF Admitted
  <1>6. ActiveIsAdmitted' /\ ActiveIsLive'
    BY <1>1, <1>3, <1>5, FreshFacts, ActiveFacts DEF ActiveIsAdmitted, ActiveIsLive
  <1>7. ReplacementChain' /\ TailAfterKeepTime'
    BY <1>1, <1>2, <1>5, FreshFacts DEF ReplacementChain, TailAfterKeepTime
  <1>8. RejectedIsFinal'
    BY <1>1, <1>2, <1>3, FreshFacts DEF RejectedIsFinal
  <1> QED
    BY <1>4, <1>6, <1>7, <1>8

LEMMA AdmitFirstKeeps ==
    ASSUME ControllerInv, ControllerTypeOK', NEW c \in Callers, AdmitFirst(c)
    PROVE  ControllerInv'
  <1>1. /\ issued < MaxActions /\ UNCHANGED <<tail, replacement, target>>
        /\ issued' = Fresh /\ active' = Fresh
        /\ timestamps' = [timestamps EXCEPT ![Fresh] = {"validated"}]
        /\ status' = [status EXCEPT ![Fresh] = "queued"]
    BY DEF AdmitFirst, MaySend, callVars
  <1> USE DEF ControllerInv, ControllerTypeOK
  <1>2. Unissued'
    BY <1>1, IssueOne, FreshFacts, ActiveFacts
  <1>3. Admitted' = Admitted \cup {Fresh}
    BY <1>1, FreshFacts DEF Admitted
  <1>4. ActiveIsAdmitted' /\ ActiveIsLive'
    BY <1>1, <1>3, FreshFacts DEF ActiveIsAdmitted, ActiveIsLive, Live
  <1>5. ReplacementChain' /\ TailAfterKeepTime'
    BY <1>1, <1>3, FreshFacts DEF ReplacementChain, TailAfterKeepTime
  <1>6. RejectedIsFinal'
    BY <1>1, FreshFacts DEF RejectedIsFinal
  <1> QED
    BY <1>2, <1>4, <1>5, <1>6

LEMMA AdmitReplacingKeeps ==
    ASSUME ControllerInv, ControllerTypeOK', NEW c \in Callers, AdmitReplacing(c)
    PROVE  ControllerInv'
  <1>1. /\ issued < MaxActions /\ active # None /\ UNCHANGED target
        /\ issued' = Fresh /\ active' = Fresh
        /\ timestamps' = [timestamps EXCEPT ![Fresh] = {"validated"}]
        /\ status' = [status EXCEPT ![Fresh] = "queued", ![active] = "replaced"]
        /\ tail' = [tail EXCEPT ![active] = FALSE]
        /\ replacement' = [replacement EXCEPT ![active] = Fresh]
    BY DEF AdmitReplacing, ReplaceActive, MaySend, callVars
  <1> USE DEF ControllerInv, ControllerTypeOK
  <1>2. Unissued'
    BY <1>1, IssueOne, FreshFacts, ActiveFacts
  <1>3. Admitted' = Admitted \cup {Fresh}
    BY <1>1, FreshFacts DEF Admitted
  <1>4. ActiveIsAdmitted' /\ ActiveIsLive'
    BY <1>1, <1>3, FreshFacts DEF ActiveIsAdmitted, ActiveIsLive, Live
  <1>5. ReplacementChain'
    <2>1. \A a \in Actions : replacement'[a] # None =>
              a < replacement'[a] /\ replacement'[a] \in Admitted'
      <3>1. active \in Actions /\ active < Fresh /\ Fresh \in Admitted'
        <4>1. active \in Actions /\ active <= issued
          BY <1>1, ActiveFacts
        <4>2. Fresh = issued + 1 /\ issued \in Nat
          BY <1>1, FreshFacts
        <4> HIDE DEF ControllerInv, ControllerTypeOK
        <4> QED
          BY <1>3, <4>1, <4>2
      <3>2. \A a \in Actions : replacement[a] # None =>
                a < replacement[a] /\ replacement[a] \in Admitted'
        BY <1>3 DEF ReplacementChain
      <3> QED
        BY <1>1, <3>1, <3>2
    <2>2. \A a, b \in Actions :
              replacement'[a] = replacement'[b] /\ replacement'[a] # None => a = b
      BY <1>1, FreshFacts, ActiveFacts DEF ReplacementChain
    <2>3. active' # None => replacement'[active'] = None
      BY <1>1, FreshFacts, ActiveFacts
    <2> QED
      BY <2>1, <2>2, <2>3 DEF ReplacementChain
  <1>6. TailAfterKeepTime'
    BY <1>1, FreshFacts, ActiveFacts DEF TailAfterKeepTime
  <1>7. RejectedIsFinal'
    BY <1>1, FreshFacts, ActiveFacts DEF RejectedIsFinal
  <1> QED
    BY <1>2, <1>4, <1>5, <1>6, <1>7

\* A step of the record of a, already issued, that keeps replacements and
\* _active as they are or clears _active.
LEMMA RecordStep ==
    ASSUME ControllerInv, ControllerTypeOK',
           UNCHANGED <<issued, replacement>>, active' \in {active, None},
           \A c \in Callers : target'[c] <= issued,
           NEW a \in Actions, a <= issued, "rejected" \notin timestamps[a],
           \A b \in Actions : b # a =>
                /\ status'[b] = status[b] /\ timestamps'[b] = timestamps[b]
                /\ tail'[b] = tail[b],
           timestamps[a] \subseteq timestamps'[a],
           "validated" \in timestamps'[a] => "validated" \in timestamps[a],
           "rejected" \notin timestamps'[a],
           tail'[a] => "duration_elapsed" \in timestamps'[a] /\ replacement[a] = None,
           active' = a => status'[a] \in Live
    PROVE  ControllerInv'
  <1>1. Unissued'
    <2>1. active' <= issued'
      BY DEF ControllerInv, ControllerTypeOK, Unissued
    <2> QED
      BY <2>1 DEF ControllerInv, ControllerTypeOK, Unissued
  <1>2. Admitted' = Admitted
    BY DEF Admitted
  <1>3. ActiveIsAdmitted'
    BY <1>2 DEF ControllerInv, ActiveIsAdmitted
  <1>4. ActiveIsLive'
    <2> SUFFICES ASSUME active' # None PROVE status'[active'] \in Live
      BY DEF ActiveIsLive
    <2>1. active' = active /\ active \in Actions /\ status[active] \in Live
      BY ActiveFacts
    <2> QED
      BY <2>1
  <1>5. ReplacementChain'
    BY <1>2 DEF ControllerInv, ReplacementChain
  <1>6. TailAfterKeepTime'
    BY DEF ControllerInv, TailAfterKeepTime
  <1>7. RejectedIsFinal'
    BY DEF ControllerInv, RejectedIsFinal
  <1> QED
    BY <1>1, <1>3, <1>4, <1>5, <1>6, <1>7 DEF ControllerInv

\* Emitting a status keeps what RecordStep asks of the other records.
LEMMA EmitFacts ==
    ASSUME ControllerTypeOK, NEW a \in Actions, NEW s \in Statuses, Emit(a, s)
    PROVE  /\ status'[a] = s
           /\ timestamps'[a] = timestamps[a] \cup ({s} \cap Stamped)
           /\ \A b \in Actions : b # a =>
                    status'[b] = status[b] /\ timestamps'[b] = timestamps[b]
  BY DEF ControllerTypeOK, Emit

LEMMA StartedKeeps ==
    ASSUME ControllerInv, ControllerTypeOK', NEW a \in Admitted, Started(a)
    PROVE  ControllerInv'
  <1>1. a \in Actions /\ a <= issued /\ "rejected" \notin timestamps[a]
    BY AdmittedFacts
  <1>2. Emit(a, "started") /\ UNCHANGED <<active, issued, tail, replacement, target>>
    BY DEF Started, callVars
  <1>3. ControllerTypeOK
    BY DEF ControllerInv
  <1>4. /\ status'[a] = "started"
        /\ timestamps'[a] = timestamps[a] \cup {"started"}
        /\ \A b \in Actions : b # a =>
                status'[b] = status[b] /\ timestamps'[b] = timestamps[b]
    BY <1>1, <1>2, <1>3, EmitFacts DEF Statuses, Stamped
  <1>5. tail[a] => "duration_elapsed" \in timestamps[a] /\ replacement[a] = None
    BY <1>1 DEF ControllerInv, TailAfterKeepTime
  <1>6. \A c \in Callers : target'[c] <= issued
    BY <1>2 DEF ControllerInv, Unissued
  <1> QED
    BY <1>1, <1>2, <1>4, <1>5, <1>6, RecordStep DEF Live

LEMMA DurationElapsedKeeps ==
    ASSUME ControllerInv, ControllerTypeOK', NEW a \in Admitted, DurationElapsed(a)
    PROVE  ControllerInv'
  <1>1. a \in Actions /\ a <= issued /\ "rejected" \notin timestamps[a]
    BY AdmittedFacts
  <1>2. UNCHANGED <<active, issued, replacement, target>>
    BY DEF DurationElapsed, callVars
  <1>3. \A c \in Callers : target'[c] <= issued
    BY <1>2 DEF ControllerInv, Unissued
  <1>4. CASE active = a
    <2>1. Emit(a, "duration_elapsed") /\ tail' = [tail EXCEPT ![a] = TRUE]
      BY <1>4 DEF DurationElapsed, MayElapse
    <2>2. ControllerTypeOK
      BY DEF ControllerInv
    <2>3. /\ status'[a] = "duration_elapsed"
          /\ timestamps'[a] = timestamps[a] \cup {"duration_elapsed"}
          /\ \A b \in Actions : b # a =>
                status'[b] = status[b] /\ timestamps'[b] = timestamps[b]
      BY <1>1, <2>1, <2>2, EmitFacts DEF Statuses, Stamped
    <2>4. \A b \in Actions : b # a => tail'[b] = tail[b]
      BY <2>1, <2>2 DEF ControllerTypeOK
    <2>5. replacement[a] = None
      BY <1>1, <1>4, ActiveFacts
    <2> QED
      BY <1>1, <1>2, <1>3, <2>3, <2>4, <2>5, RecordStep DEF Live
  <1>5. CASE active # a
    BY <1>2, <1>3, <1>5, QuietStep DEF DurationElapsed, MayElapse, recordVars
  <1> QED
    BY <1>4, <1>5

LEMMA DoneKeeps ==
    ASSUME ControllerInv, ControllerTypeOK', NEW a \in Admitted, NEW reason \in DoneReasons,
           Done(a, reason)
    PROVE  ControllerInv'
  <1>1. a \in Actions /\ a <= issued /\ "rejected" \notin timestamps[a]
    BY AdmittedFacts
  <1>2. UNCHANGED <<issued, replacement, target>>
    BY DEF Done, callVars
  <1>3. \A c \in Callers : target'[c] <= issued
    BY <1>2 DEF ControllerInv, Unissued
  <1>4. ControllerTypeOK
    BY DEF ControllerInv
  <1>5. CASE Superseded(a)
    BY <1>2, <1>3, <1>5, QuietStep DEF Done, recordVars
  <1>6. CASE ~Superseded(a)
    <2>1. /\ tail' = [tail EXCEPT ![a] = FALSE]
          /\ DoneStatus(a, reason)
          /\ active' = ActiveAfterDone(a, reason)
      BY <1>6 DEF Done
    <2>2. tail'[a] = FALSE /\ \A b \in Actions : b # a => tail'[b] = tail[b]
      BY <1>1, <1>4, <2>1 DEF ControllerTypeOK
    <2>3. active' \in {active, None}
      BY <2>1 DEF ActiveAfterDone
    <2>4. /\ timestamps'[a] = timestamps[a]
          /\ \A b \in Actions : b # a =>
                status'[b] = status[b] /\ timestamps'[b] = timestamps[b]
      <3>1. CASE reason = "fault"
        BY <1>1, <1>4, <2>1, <3>1, EmitFacts DEF DoneStatus, Statuses, Stamped
      <3>2. CASE reason = "completed" /\ status[a] # "stopped"
        BY <1>1, <1>4, <2>1, <3>2, EmitFacts DEF DoneStatus, Statuses, Stamped
      <3>3. CASE reason # "fault" /\ ~(reason = "completed" /\ status[a] # "stopped")
        BY <2>1, <3>3 DEF DoneStatus
      <3> QED
        BY <3>1, <3>2, <3>3
    <2>5. active' = a => status'[a] \in Live
      <3> SUFFICES ASSUME active' = a PROVE status'[a] \in Live
        OBVIOUS
      <3>1. active = a /\ reason = "stopped"
        BY <1>1, <2>1 DEF ActiveAfterDone
      <3>2. status'[a] = status[a]
        BY <2>1, <3>1 DEF DoneStatus
      <3> QED
        BY <1>1, <3>1, <3>2, ActiveFacts
    <2> QED
      BY <1>1, <1>2, <1>3, <2>2, <2>3, <2>4, <2>5, RecordStep
  <1> QED
    BY <1>5, <1>6

\* Forgetting the local variable of a call leaves only recorded targets.
LEMMA ForgetTarget ==
    ASSUME ControllerTypeOK, Unissued, NEW c \in Callers,
           target' \in {target, [target EXCEPT ![c] = None]}
    PROVE  \A d \in Callers : target'[d] <= issued
  <1>1. issued \in Nat
    BY DEF ControllerTypeOK
  <1>2. CASE target' = target
    BY <1>2 DEF Unissued
  <1>3. CASE target' = [target EXCEPT ![c] = None]
    <2>1. \A d \in Callers : target'[d] = target[d] \/ target'[d] = 0
      BY <1>3 DEF ControllerTypeOK
    <2>2. \A d \in Callers : target[d] \in Nat /\ target[d] <= issued
      BY DEF ControllerTypeOK, Unissued
    <2> QED
      BY <1>1, <2>1, <2>2
  <1> QED
    BY <1>2, <1>3

LEMMA StopMarkKeeps ==
    ASSUME ControllerInv, ControllerTypeOK', NEW c \in Callers, StopMark(c)
    PROVE  ControllerInv'
  <1> DEFINE a == target[c]
  <1>1. /\ UNCHANGED <<issued, tail, replacement>>
        /\ active' = None
        /\ MarkStopped(a)
        /\ target' \in {target, [target EXCEPT ![c] = None]}
    BY DEF StopMark, Return
  <1>2. ControllerTypeOK
    BY DEF ControllerInv
  <1>3. \A d \in Callers : target[d] \in Nat /\ target[d] <= issued
    BY DEF ControllerInv, ControllerTypeOK, Unissued
  <1>4. issued \in Nat
    BY <1>2 DEF ControllerTypeOK
  <1>5. \A d \in Callers : target'[d] <= issued
    BY <1>1, <1>2, ForgetTarget DEF ControllerInv
  <1>6. CASE a # None /\ status[a] \notin Settled
    <2>1. a \in Actions /\ a <= issued
      BY <1>2, <1>3, <1>6 DEF ControllerTypeOK
    <2>2. "rejected" \notin timestamps[a]
      BY <1>6, <2>1 DEF ControllerInv, RejectedIsFinal, Settled
    <2>3. /\ timestamps'[a] = timestamps[a]
          /\ \A b \in Actions : b # a =>
                status'[b] = status[b] /\ timestamps'[b] = timestamps[b]
      BY <1>1, <1>2, <1>6, <2>1, EmitFacts DEF MarkStopped, Statuses, Stamped
    <2>4. tail[a] => "duration_elapsed" \in timestamps[a] /\ replacement[a] = None
      BY <2>1 DEF ControllerInv, TailAfterKeepTime
    <2> QED
      BY <1>1, <1>5, <2>1, <2>2, <2>3, <2>4, RecordStep
  <1>7. CASE ~(a # None /\ status[a] \notin Settled)
    <2>1. UNCHANGED <<status, timestamps>>
      BY <1>1, <1>7 DEF MarkStopped
    <2>2. Unissued'
      BY <1>1, <1>4, <1>5, <2>1 DEF ControllerInv, Unissued
    <2> QED
      BY <1>1, <2>1, <2>2 DEF ControllerInv, ActiveIsAdmitted, ActiveIsLive, ReplacementChain,
         TailAfterKeepTime, RejectedIsFinal, Admitted
  <1> QED
    BY <1>6, <1>7

LEMMA StopBeginKeeps ==
    ASSUME ControllerInv, ControllerTypeOK', NEW c \in Callers, NEW m \in Methods,
           NEW t \in Actions \cup {None}, StopBegin(c, m, t)
    PROVE  ControllerInv'
  <1>1. UNCHANGED <<active, recordVars>> /\ target' = [target EXCEPT ![c] = t]
        /\ t \in Recorded \cup {active, None}
    BY DEF StopBegin
  <1>2. t <= issued
    BY <1>1 DEF ControllerInv, Unissued, Recorded, ControllerTypeOK, None
  <1>3. \A d \in Callers : target'[d] <= issued
    BY <1>1, <1>2 DEF ControllerInv, ControllerTypeOK, Unissued
  <1> QED
    BY <1>1, <1>3, QuietStep

\* A call that ends, or moves on without touching records.
LEMMA CallKeeps ==
    ASSUME ControllerInv, ControllerTypeOK', NEW c \in Callers,
           UNCHANGED <<active, recordVars>>,
           target' \in {target, [target EXCEPT ![c] = None]}
    PROVE  ControllerInv'
  <1>1. \A d \in Callers : target'[d] <= issued
    BY ForgetTarget DEF ControllerInv
  <1> QED
    BY <1>1, QuietStep

LEMMA InitInv == ControllerInit => ControllerInv
  <1> SUFFICES ASSUME ControllerInit PROVE ControllerInv
    OBVIOUS
  <1>1. ControllerTypeOK
    BY InitTyped
  <1> QED
    BY <1>1 DEF ControllerInit, ControllerInv, Unissued, ActiveIsAdmitted, ActiveIsLive,
       ReplacementChain, TailAfterKeepTime, RejectedIsFinal

LEMMA StepInv == ControllerInv /\ [ControllerNext]_ctlVars => ControllerInv'
  <1> SUFFICES ASSUME ControllerInv, [ControllerNext]_ctlVars
               PROVE  ControllerInv'
    OBVIOUS
  <1>0. ControllerTypeOK'
    BY StepTyped DEF ControllerInv
  <1>1. ASSUME NEW c \in Callers,
               Enable(c) \/ EnableReturns(c) \/ EnableRaises(c) \/ StopReturns(c)
                 \/ DisableOff(c) \/ DisableRaises(c) \/ CloseReturns(c)
        PROVE  ControllerInv'
    <2>1. /\ UNCHANGED <<active, recordVars>>
          /\ target' \in {target, [target EXCEPT ![c] = None]}
      BY <1>1 DEF Enable, EnableReturns, EnableRaises, StopReturns, DisableOff,
         DisableRaises, CloseReturns, Return
    <2> QED
      BY <1>0, <2>1, CallKeeps
  <1>2. ASSUME NEW c \in Callers, NEW valid \in Validity, Reject(c, valid) PROVE ControllerInv'
    BY <1>0, <1>2, RejectKeeps
  <1>3. ASSUME NEW c \in Callers, AdmitFirst(c) PROVE ControllerInv'
    BY <1>0, <1>3, AdmitFirstKeeps
  <1>4. ASSUME NEW c \in Callers, AdmitReplacing(c) PROVE ControllerInv'
    BY <1>0, <1>4, AdmitReplacingKeeps
  <1>5. ASSUME NEW c \in Callers, NEW m \in Methods, NEW t \in Actions \cup {None},
               StopBegin(c, m, t)
        PROVE  ControllerInv'
    BY <1>0, <1>5, StopBeginKeeps
  <1>6. ASSUME NEW c \in Callers, StopMark(c) PROVE ControllerInv'
    BY <1>0, <1>6, StopMarkKeeps
  <1>7. ASSUME NEW a \in Admitted, Started(a) PROVE ControllerInv'
    BY <1>0, <1>7, StartedKeeps
  <1>8. ASSUME NEW a \in Admitted, DurationElapsed(a) PROVE ControllerInv'
    BY <1>0, <1>8, DurationElapsedKeeps
  <1>9. ASSUME NEW a \in Admitted, NEW reason \in DoneReasons, Done(a, reason)
        PROVE  ControllerInv'
    BY <1>0, <1>9, DoneKeeps
  <1>10. CASE UNCHANGED ctlVars
    BY <1>0, <1>10, QuietStep DEF ctlVars, callVars, ControllerInv, Unissued
  <1> QED
    BY <1>1, <1>2, <1>3, <1>4, <1>5, <1>6, <1>7, <1>8, <1>9, <1>10 DEF ControllerNext, CallerAction

\* _done writes one status or none.
LEMMA DoneEmits ==
    ASSUME NEW a \in Actions, NEW reason \in DoneReasons, DoneStatus(a, reason)
    PROVE  Emit(a, "failed") \/ Emit(a, "completed") \/ UNCHANGED <<status, timestamps>>
  <1>1. CASE reason = "fault"
    BY <1>1 DEF DoneStatus
  <1>2. CASE reason = "completed" /\ status[a] # "stopped"
    BY <1>2 DEF DoneStatus
  <1>3. CASE reason # "fault" /\ ~(reason = "completed" /\ status[a] # "stopped")
    BY <1>3 DEF DoneStatus
  <1> QED
    BY <1>1, <1>2, <1>3

\* No step of the controller takes "validated" from a record.
LEMMA AdmittedGrows ==
    ASSUME ControllerTypeOK, [ControllerNext]_ctlVars
    PROVE  Admitted \subseteq Admitted'
  <1> USE DEF ControllerTypeOK, Admitted, recordVars
  <1>1. ASSUME NEW a \in Actions, NEW s, Emit(a, s) PROVE Admitted \subseteq Admitted'
    BY <1>1 DEF Emit
  <1>2. ASSUME UNCHANGED timestamps PROVE Admitted \subseteq Admitted'
    BY <1>2
  <1>3. ASSUME NEW c \in Callers, CallerAction(c) PROVE Admitted \subseteq Admitted'
    <2>1. ASSUME NEW valid \in Validity, Reject(c, valid) PROVE Admitted \subseteq Admitted'
      BY <1>1, <2>1, FreshIsAction DEF Reject, MaySend
    <2>2. CASE AdmitFirst(c) \/ AdmitReplacing(c)
      <3>1. timestamps' = [timestamps EXCEPT ![Fresh] = {"validated"}]
        BY <2>2 DEF AdmitFirst, AdmitReplacing
      <3> QED
        BY <3>1
    <2>3. CASE StopMark(c)
      BY <1>1, <1>2, <2>3 DEF StopMark, MarkStopped
    <2>4. CASE \/ Enable(c) \/ EnableReturns(c) \/ EnableRaises(c) \/ StopReturns(c)
               \/ DisableOff(c) \/ DisableRaises(c) \/ CloseReturns(c)
               \/ \E m \in Methods, t \in Actions \cup {None} : StopBegin(c, m, t)
      BY <2>4 DEF Enable, EnableReturns, EnableRaises, StopReturns, DisableOff, DisableRaises,
         CloseReturns, StopBegin
    <2> HIDE DEF ControllerTypeOK, Admitted
    <2> QED
      BY <1>3, <2>1, <2>2, <2>3, <2>4 DEF CallerAction
  <1>4. ASSUME NEW a \in Actions,
               \/ Started(a) \/ DurationElapsed(a)
               \/ \E reason \in DoneReasons : Done(a, reason)
        PROVE  Admitted \subseteq Admitted'
    <2>1. (\E s \in Statuses : Emit(a, s)) \/ UNCHANGED timestamps
      BY <1>4, DoneEmits DEF Started, DurationElapsed, Done, Statuses
    <2> QED
      BY <1>1, <1>2, <2>1
  <1>5. CASE UNCHANGED ctlVars
    BY <1>5 DEF ctlVars
  <1> QED
    BY <1>3, <1>4, <1>5 DEF ControllerNext

\* The inductive invariant, whatever the backend does.
THEOREM ControllerInvariant == ControllerSpec => []ControllerInv
  BY InitInv, StepInv, PTL DEF ControllerSpec

\* _active never names an action that is over.
THEOREM ActiveIsAlwaysLive == ControllerSpec => []ActiveIsLive
  BY ControllerInvariant, PTL DEF ControllerInv

\* Replacement records always form chains that end in the active action.
THEOREM ReplacementsAreChains == ControllerSpec => []ReplacementChain
  BY ControllerInvariant, PTL DEF ControllerInv

\* A tail belongs to an action whose keep time is over and that has not been
\* replaced.
THEOREM TailsAreHonest == ControllerSpec => []TailAfterKeepTime
  BY ControllerInvariant, PTL DEF ControllerInv

\* A rejected record never changes again.
THEOREM RejectionsAreFinal == ControllerSpec => []RejectedIsFinal
  BY ControllerInvariant, PTL DEF ControllerInv
-----------------------------------------------------------------------------
\* Calls stamp a new record "validated" or a record "rejected", nothing else.
LEMMA CallerStamps ==
    ASSUME ControllerTypeOK, NEW c \in Callers, CallerAction(c)
    PROVE  \/ timestamps' = timestamps
           \/ \E a \in Actions : timestamps' = [timestamps EXCEPT ![a] = @ \cup {"rejected"}]
           \/ issued < MaxActions /\ timestamps' = [timestamps EXCEPT ![Fresh] = {"validated"}]
  <1>1. ASSUME NEW valid \in Validity, Reject(c, valid)
        PROVE  \E a \in Actions : timestamps' = [timestamps EXCEPT ![a] = @ \cup {"rejected"}]
    <2>1. {"rejected"} \cap Stamped = {"rejected"}
      BY DEF Stamped
    <2> QED
      BY <1>1, <2>1, FreshIsAction DEF Reject, MaySend, Emit
  <1>2. CASE AdmitFirst(c) \/ AdmitReplacing(c)
    BY <1>2 DEF AdmitFirst, AdmitReplacing, MaySend
  <1>3. CASE StopMark(c)
    <2>1. ASSUME NEW a \in Actions, Emit(a, "stopped") PROVE timestamps' = timestamps
      <3>1. timestamps[a] \cup ({"stopped"} \cap Stamped) = timestamps[a]
        BY DEF Stamped
      <3> QED
        BY <2>1, <3>1 DEF Emit, ControllerTypeOK
    <2>2. target[c] \in Actions \cup {None}
      BY DEF ControllerTypeOK
    <2> QED
      BY <1>3, <2>1, <2>2 DEF StopMark, MarkStopped
  <1>4. CASE \/ Enable(c) \/ EnableReturns(c) \/ EnableRaises(c) \/ StopReturns(c)
             \/ DisableOff(c) \/ DisableRaises(c) \/ CloseReturns(c)
             \/ \E m \in Methods, t \in Actions \cup {None} : StopBegin(c, m, t)
    BY <1>4 DEF Enable, EnableReturns, EnableRaises, StopReturns, DisableOff, DisableRaises,
       CloseReturns, StopBegin, recordVars
  <1> QED
    BY <1>1, <1>2, <1>3, <1>4 DEF CallerAction

\* A call takes no stamp from a record, and reports no keep time.
LEMMA CallerKeepsStamps ==
    ASSUME ControllerInv, NEW c \in Callers, CallerAction(c)
    PROVE  \A a \in Actions :
              /\ timestamps[a] \subseteq timestamps'[a]
              /\ "duration_elapsed" \in timestamps'[a] => "duration_elapsed" \in timestamps[a]
  <1>0. ControllerTypeOK
    BY DEF ControllerInv
  <1>1. CASE timestamps' = timestamps
    BY <1>1
  <1>2. ASSUME NEW b \in Actions, timestamps' = [timestamps EXCEPT ![b] = @ \cup {"rejected"}],
               NEW a \in Actions
        PROVE  /\ timestamps[a] \subseteq timestamps'[a]
               /\ "duration_elapsed" \in timestamps'[a] => "duration_elapsed" \in timestamps[a]
    BY <1>0, <1>2 DEF ControllerTypeOK
  <1>3. CASE issued < MaxActions /\ timestamps' = [timestamps EXCEPT ![Fresh] = {"validated"}]
    <2>1. timestamps[Fresh] = {} /\ Fresh \in Actions
      BY <1>3, FreshFacts
    <2> QED
      BY <1>0, <1>3, <2>1 DEF ControllerTypeOK
  <1> QED
    BY <1>0, <1>1, <1>2, <1>3, CallerStamps

\* Nor does a callback take one; only _duration reports a keep time.
LEMMA EmitKeepsStamps ==
    ASSUME ControllerTypeOK, NEW a \in Actions, NEW s \in Statuses \ {"duration_elapsed"},
           Emit(a, s), NEW b \in Actions
    PROVE  /\ timestamps[b] \subseteq timestamps'[b]
           /\ "duration_elapsed" \in timestamps'[b] => "duration_elapsed" \in timestamps[b]
           /\ s \in Stamped => s \in timestamps'[a]
  BY DEF ControllerTypeOK, Emit

LEMMA DurationStamps ==
    ASSUME ControllerTypeOK, NEW a \in Actions, DurationElapsed(a), NEW b \in Actions
    PROVE  /\ timestamps[b] \subseteq timestamps'[b]
           /\ b # a /\ "duration_elapsed" \in timestamps'[b]
                => "duration_elapsed" \in timestamps[b]
  BY DEF ControllerTypeOK, DurationElapsed, Emit
=============================================================================
