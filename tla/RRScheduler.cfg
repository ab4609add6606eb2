SPECIFICATION FairSpec
CONSTANTS
  N = 3
  Logs = 1
  Arrivals <- MCArrivals
  Bursts = {1, 3}
  Quanta = {2}
INVARIANTS
  OneAtATime
  ReportExact
PROPERTIES
  ImplementsRoundRobin
  Termination
