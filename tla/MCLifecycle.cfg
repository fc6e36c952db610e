SPECIFICATION FairSpec
CONSTANTS
  Handlers = {h1, h2, h3}
  N = 3
  MaxConns = 2
  MaxCalls = 2
INVARIANTS
  TypeOK
  OrderedLifecycle
  InFlightIsServed
PROPERTY
  RunReturns
CHECK_DEADLOCK FALSE
