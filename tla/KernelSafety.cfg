SPECIFICATION Spec
CONSTANTS
  NPROC = 4
  NSetup = 2
  NPages = 13
  Reserved <- MCReserved
  KernelPages <- MCKernelPages
  KPT = 2
  ProcStart = 5
  ProcSize = 4
  ImageSize = 1
  HZ = 4
  TickMod = 5
  Limits = {0, 3}
  Keys = {"a", "f", "e", "q"}
  Builds = {TRUE, FALSE}
INVARIANTS
  KernelConsistent
  HeapOwned
  NothingLeaked
