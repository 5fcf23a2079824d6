SPECIFICATION Spec
CONSTANTS
  a = a  NoName = NoName
  NSteps = 3
  Names <- MCNames
  Workflows <- ParallelWorkflows
INVARIANTS
  NamesBindToDependencies
