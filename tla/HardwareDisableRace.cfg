\* Two callers: one disables while the other sends.
CONSTANTS
  MaxActions = 2
  Callers = {c1, c2}
  Methods = {"disable"}
  Validity = {TRUE}
  Faulty = {}
  JoinTimeouts = FALSE
SPECIFICATION Spec
INVARIANT DisabledIsIdle
