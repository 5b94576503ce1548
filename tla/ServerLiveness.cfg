\* Two clients and the watchdog, fair threads, a driver that never fails.
CONSTANTS
  MaxActions = 1
  Callers = {c1, c2, dog}
  Methods = {"stop", "disable"}
  Validity = {TRUE, FALSE}
  Watchdog = dog
  DriverFails = FALSE
SPECIFICATION FairSpec
INVARIANTS
  DisabledUnattended
PROPERTIES
  SilenceIsCutOff
