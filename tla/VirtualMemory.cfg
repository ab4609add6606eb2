SPECIFICATION Spec
CONSTANTS
  Levels = 3
  Fanout = 2
  Tables = 6
  PPages = 2
  MaxSize = 2
  MaxCalls = 2
  Perms <- MCPerms
INVARIANTS
  TablesFormTree
PROPERTIES
  ImplementsAddressSpace
