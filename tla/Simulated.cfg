\* Fair threads, one operator, two requests: a restart over a thread that still
\* lives, or a replacement.
CONSTANTS
  MaxActions = 2
  Callers = {c1}
  Methods = {"stop", "disable", "close"}
  Validity = {TRUE, FALSE}
SPECIFICATION FairSpec
INVARIANTS
  SimTypeOK
  QuietWhenIdle
  KeepTimeAfterStart
PROPERTIES
  StopEnds
