\* Two runs into one directory, either of which may be killed.
CONSTANTS
  Torn = Torn
  Catalog <- Excerpt
  Configs <- SomeConfigs
  Responses <- SomeResponses
  MaxRuns = 2
SPECIFICATION Spec
INVARIANTS
  VerifiedPackageIsWhole
  EveryTestIsAccountedFor
  ClaimsRestOnEvidence
CHECK_DEADLOCK FALSE
