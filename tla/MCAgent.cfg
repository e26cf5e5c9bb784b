\* The policy's three objectives, its smallest request budget, every kind of
\* target, a second run in the same directory, one run killed.
CONSTANTS
  http = http
  tls = tls
  wellKnown = wellKnown
  Objectives <- PolicyObjectives
  WellKnown = wellKnown
  Tls = tls
  Unknown = Unknown
  Modes <- BothModes
  Hosts <- AllHosts
  MaxRequests = 4
  MaxRuns = 2
  MaxKills = 1
SPECIFICATION FairAgentSpec
INVARIANTS
  RequestsArePaidFor
  EachObjectiveOnce
  LaterChecksAgreeWithGate
  LatestRunIsBacked
  EveryEndIsOnRecord
PROPERTIES
  EveryStepIsProgress
  RunsEnd
CHECK_DEADLOCK FALSE
