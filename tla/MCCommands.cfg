SPECIFICATION FairSpec
CONSTANTS
  s1 = s1  s2 = s2
  Step <- TwoSteps
  Plans <- AllPlans
  Version = {1, 2}
  Want <- OneEach
  IfNotExists = {s1, s2}
  MaxRedirects = 1
INVARIANTS
  NoProcessOutlivesStop
PROPERTIES
  DownloadIsTheOneAskedFor
  StopEndsStep
