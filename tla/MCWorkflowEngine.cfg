SPECIFICATION FairSpec
CONSTANTS
  a = a  NoName = NoName
  NSteps = 3
  Names <- MCNames
  Workflows <- MCWorkflows
INVARIANTS
  TypeOK
  DependenciesSettled
  CompletionOrderSound
  NoTaskOutlivesRun
  RollbackSound
PROPERTIES
  Terminates
