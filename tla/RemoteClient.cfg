\* Four requests, of which any may be malformed, over one connection, which
\* stops for good once both ends have closed it.
CONSTANTS
  MaxRequests = 4
  Kinds = {"good", "bad", "huge"}
CHECK_DEADLOCK FALSE
SPECIFICATION FairSpec
INVARIANTS
  LagIsBounded
PROPERTIES
  AnswersKeepOrder
  RequestsCarriedOut
