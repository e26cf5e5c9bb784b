\* One command at a time, up to one crash, three objectives of every kind.
CONSTANTS
  o1 = o1
  o2 = o2
  o3 = o3
  p1 = p1
  p2 = p2
  NoObjective = NoObjective
  Objectives <- ThreeObjectives
  Rank <- ScheduleOrder
  Kinds <- AllKinds
  Procs <- OneProcess
  Exclusive = TRUE
  LiveModes <- DryAndLive
  StepCaps <- NoCapOrOne
  MaxCrashes = 1
  MaxIterations = 5
  MaxRequests = 5
  MaxPerMinute = 5
  MaxFailures = 2
SPECIFICATION FairSpec
INVARIANTS
  EveryObjectiveHasOneDisposition
  SavesAreNeverRefused
  ApprovalPrecedesExecution
  CompletionIsEarned
  LogRefersToItsEvidence
  OneResultPerIteration
  IterationLimitIsHard
  QuiescentFilesAgree
  OnlyCrashesRepeatRuns
PROPERTIES
  DispositionsAreFinal
  HaltIsFinal
  DecisionsBindToTheirCheckpoint
  RecordedRunsAreNotRepeated
  EveryStepIsProgress
  ImplementsContract
  EventuallyHalts
CHECK_DEADLOCK FALSE
