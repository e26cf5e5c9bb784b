\* An operator stop while the campaign runs.
CONSTANTS
  o1 = o1
  o2 = o2
  o3 = o3
  p1 = p1
  p2 = p2
  NoObjective = NoObjective
  Objectives <- OneObjective
  Rank <- ScheduleOrder
  StepCaps <- NoCap
  MaxRequests = 5
  MaxPerMinute = 5
  MaxFailures = 2
  MaxIterations = 3
  Kinds <- RunKinds
  LiveModes <- DryOnly
  Procs <- TwoProcesses
  Exclusive = FALSE
  MaxCrashes = 0
SPECIFICATION Spec
PROPERTY OperatorStopPersists
CHECK_DEADLOCK FALSE
