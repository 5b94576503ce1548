\* Two clients and the watchdog, a driver that may refuse to be enabled or
\* disabled.
CONSTANTS
  MaxActions = 2
  Callers = {c1, c2, dog}
  Methods = {"stop", "disable"}
  Validity = {TRUE}
  Watchdog = dog
  DriverFails = TRUE
SPECIFICATION Spec
SYMMETRY Symmetry
INVARIANTS
  ServerTypeOK
  NothingPlaysUnattended
PROPERTIES
  ViewersAreHarmless
