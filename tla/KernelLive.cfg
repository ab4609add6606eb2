SPECIFICATION FairSpec
CONSTANTS
  NPROC = 4
  NSetup = 2
  NPages = 11
  Reserved <- MCReserved
  KernelPages <- MCKernelPages
  KPT = 2
  ProcStart = 5
  ProcSize = 3
  ImageSize = 1
  HZ = 4
  TickMod = 4
  Limits = {0, 2}
  Keys = {"a", "f"}
  Builds = {TRUE, FALSE}
PROPERTIES
  EveryProcessRuns
  EveryProcessShown
  UnattendedEnds
