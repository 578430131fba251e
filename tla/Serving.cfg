SPECIFICATION ServingSpec
CONSTANTS
  N = 2
  Starters = {1, 2}
  Closers = {1, 2}
  Budget = 3
  FastBudget = 1
  DrainDelay = 2
  HttpTimeout = 1
  Grace = 1
  MaxSignals = 2
  Callers = {c1, c2}
  Threshold = 2
  Successes = 1
  MaxStuck = 1
INVARIANTS ReleasedInOrder StopKeepsItsWord FlightHolds
PROPERTIES AlwaysReturns BreakerSteady Recovers
CHECK_DEADLOCK FALSE
