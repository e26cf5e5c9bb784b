\* The orchestrator is killed once.
CONSTANTS
  o1 = o1
  o2 = o2
  p1 = p1
  NoObjective = NoObjective
  Objectives <- TwoObjectives
  Rank <- ScheduleOrder
  Kinds <- AllKinds
  Procs <- OneProcess
  Exclusive = TRUE
  LiveModes <- DryAndLive
  StepCaps <- OneStep
  MaxCrashes = 1
  MaxIterations = 4
  MaxRequests = 5
  MaxPerMinute = 5
  MaxFailures = 2
SPECIFICATION GraphSpec
INVARIANT CampaignCanGoOn
CHECK_DEADLOCK FALSE
