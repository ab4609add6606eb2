\* Handlers may hang.
SPECIFICATION FairSpec
CONSTANTS
  Call = {c1}
  End = {e1}
  ServerName = {s1}
  Instance = {i1, i2}
  nil = nil
PROPERTIES
  CallReturns
  HungCallReleased
  HandlerGoroutineEnds
