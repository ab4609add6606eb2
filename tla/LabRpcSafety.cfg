\* One call through an end that may be reconnected from one server to another.
SPECIFICATION Spec
CONSTANTS
  Call = {c1}
  End = {e1}
  ServerName = {s1, s2}
  Instance = {i1, i2}
  nil = nil
INVARIANTS
  PositiveReplyDurable
PROPERTIES
  ImplementsPromise
