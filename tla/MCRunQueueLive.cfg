SPECIFICATION FairSpec
CONSTANTS
  r1 = r1  r2 = r2  r3 = r3
  w1 = w1  w2 = w2
  c1 = c1  c2 = c2  x1 = x1
  Runs <- TwoRuns
  Runners <- TwoRunners
  Cancellers <- OneCanceller
  Waiters <- OneWaiter
  MaxQueued = 0
  MaxFaults = 0
  NoRun = NoRun
INVARIANTS
  WaitAnswersFinal
PROPERTIES
  AcceptedRunsEnd
  StopReturns
  WaitersWake
