\* A host whose CPU count may change between 2 and 4: one to four workers.
CONSTANTS
  Cpus = {2, 4}
  Requests = {0}
  Job = {j1, j2, j3}
  MaxTicks = 2
  PipeCap = 1
  Wrap = 12
SPECIFICATION FairSpec
INVARIANTS FlagsMatchPhase LanesBeforeJob
PROPERTIES JobConservation RnReturns JobsStart
