SPECIFICATION Spec
CONSTANTS
  r1 = r1  r2 = r2  r3 = r3
  w1 = w1  w2 = w2
  c1 = c1  c2 = c2  x1 = x1
  Runs <- ThreeRuns
  Runners <- TwoRunners
  Cancellers <- OneCanceller
  Waiters <- NoWaiters
  MaxQueued = 0
  MaxFaults = 2
  NoRun = NoRun
INVARIANTS
  TypeOK
  CapacityRespected
  OneOwner
  PublishedIsStored
  StopLeavesNothing
PROPERTIES
  ImplementsLifecycle
SYMMETRY Symmetry
