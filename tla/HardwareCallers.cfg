\* Two callers whose stops interleave with each other's sends, and a join
\* that may give up.
CONSTANTS
  MaxActions = 2
  Callers = {c1, c2}
  Methods = {"stop"}
  Validity = {TRUE, FALSE}
  Faulty = {"stream"}
  JoinTimeouts = TRUE
SPECIFICATION Spec
SYMMETRY Symmetry
INVARIANTS
  ControllerTypeOK
  ActiveIsLive
  TailAfterKeepTime
  RejectedIsFinal
  OneWorker
  OwnerIsLive
  NeverCompleted
