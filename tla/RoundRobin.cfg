SPECIFICATION Spec
CONSTANTS
  N = 4
  Arrivals <- MCArrivals
  Bursts = {1, 4}
  Quanta = {1, 3}
INVARIANTS
  BoundedWaiting
  TurnaroundBounded
CHECK_DEADLOCK FALSE
