\* One command with its documents: each document as it should be or with one
\* departure, all dependency graphs over three objectives, a clock of three
\* times and one replacement of the scope file.
CONSTANTS
  None = None
  Ids <- MCIds
  Aliases <- MCAliases
  Names <- MCNames
  MarkedActions <- MCMarked
  Inputs <- MCInputs
  Scopes <- MCScopes
  MaxTime = 2
SPECIFICATION GateSpec
\* A command ends.
CHECK_DEADLOCK FALSE
INVARIANTS
  AllowedWorkIsSafe
  ScopeInUseIsVouchedFor
  AllowedWorkIsRecorded
  DependenciesFirst
