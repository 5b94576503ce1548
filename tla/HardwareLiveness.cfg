\* Fair threads, one operator; streams and the final zero write may fail.
\* close() goes through all of disable().
CONSTANTS
  MaxActions = 2
  Callers = {c1}
  Methods = {"stop", "close"}
  Validity = {TRUE}
  Faulty = {"stream", "zero"}
  JoinTimeouts = FALSE
SPECIFICATION FairSpec
PROPERTIES
  CallsReturn
  ReplacementStarts
  KeepTimeReported
  StoppedForGood
  AmplifierOnAtZero
