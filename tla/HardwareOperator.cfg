\* One operator, three requests; every driver operation but the final zero
\* write may raise.
CONSTANTS
  MaxActions = 3
  Callers = {c1}
  Methods = {"stop", "disable", "close"}
  Validity = {TRUE}
  Faulty = {"enable", "disable", "open", "stream", "close"}
  JoinTimeouts = FALSE
SPECIFICATION Spec
INVARIANTS
  BackendTypeOK
  QuietWhenIdle
  AmplifierImpliesEnabled
  DisabledIsIdle
  ReplacementChain
  NewestWins
  KeepTimeAfterStart
  InactiveIsOver
PROPERTIES
  PlaysInOrder
  SettledIsFinal
