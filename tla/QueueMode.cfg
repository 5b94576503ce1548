\* Three requests, a remote controller whose calls may raise.
CONSTANTS
  MaxActions = 3
  Callers = {gui}
  Gui = gui
  Methods = {"stop", "disable"}
  Validity = {TRUE}
  Remote = TRUE
SPECIFICATION FairSpec
INVARIANTS
  RunningIsPolled
PROPERTIES
  QueueIsSequential
  QueueMovesOn
