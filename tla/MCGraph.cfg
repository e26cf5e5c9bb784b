\* The orchestrator killed at most once, campaign-stop between its invocations.
CONSTANTS
  o1 = o1
  o2 = o2
  p1 = p1
  NoObjective = NoObjective
  Objectives <- TwoObjectives
  Rank <- ScheduleOrder
  Kinds <- AllKinds
  Procs <- OneProcess
  Exclusive = TRUE
  LiveModes <- DryAndLive
  StepCaps <- OneStep
  MaxCrashes = 1
  MaxIterations = 4
  MaxRequests = 5
  MaxPerMinute = 5
  MaxFailures = 2
SPECIFICATION FairGraphSpec
INVARIANTS
  ThreadFollowsCheckpoint
  UninterruptedCampaignCanGoOn
PROPERTIES
  StepNodeRepeatsOnResults
  GraphHalts
CHECK_DEADLOCK FALSE
