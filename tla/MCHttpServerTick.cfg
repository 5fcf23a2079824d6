SPECIFICATION FairSpec
CONSTANTS
  Conns = 3
  UIntValues = 8
  Requests <- SomeRequests
  Configs <- SomeConfigs
  Candidates <- SomeCandidates
  JobRun = JobRun
  NoRequest = NoRequest
INVARIANT
  TicksEveryMinute
