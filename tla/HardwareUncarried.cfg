CONSTANTS
  MaxActions = 2
  Callers = {c1}
  Methods = {"stop"}
  Validity = {TRUE}
  Faulty = {}
  JoinTimeouts = FALSE
SPECIFICATION Spec
INVARIANT ActiveIsCarried
