SPECIFICATION FairSpec
CONSTANTS
  Conns = 3
  UIntValues = 8
  Requests <- SomeRequests
  Configs <- WideConfig
  Candidates <- SomeCandidates
  JobRun = JobRun
  NoRequest = NoRequest
INVARIANT
  WorkerStaysFree
