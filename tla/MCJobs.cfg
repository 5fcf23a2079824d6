SPECIFICATION Spec
CONSTANTS
  j1 = j1  j2 = j2  j3 = j3  cli = cli  a1 = a1
  Job <- SomeJobs
  Name = {"n1", "n2", "n3"}
  Cron <- Crons
  NoCron = NoCron
  Calls <- Links
  CliFile = cli
  TimeOf <- Times
  Admin <- OneAdmin
  InitialJobs <- Saved
  Bodies <- SomeBodies
  MaxDepth = 2
  MaxKeep = 1
  MaxQueued = 1
  MaxRuns = 3
  MaxProcs = 2
  MaxEdits = 1
  NoJob = NoJob
INVARIANTS
  LiveRunsHaveOwner
  ScheduleKept
  NestingSound
PROPERTIES
  FinishedIsFinal
CHECK_DEADLOCK FALSE
