\* One run of the harness that asks for the root alone; the request may fail.
CONSTANTS
  Torn = Torn
  Catalog <- Excerpt
  Configs <- RootOnly
  Responses <- SomeResponses
  MaxRuns = 1
SPECIFICATION Spec
INVARIANTS
  FailedRequestsAreNoEvidence
CHECK_DEADLOCK FALSE
