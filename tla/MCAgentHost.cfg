\* One governed run at an IPv6 literal.
CONSTANTS
  http = http
  tls = tls
  wellKnown = wellKnown
  Objectives <- PolicyObjectives
  WellKnown = wellKnown
  Tls = tls
  Unknown = Unknown
  Modes = {"governed"}
  Hosts = {"ipv6"}
  MaxRequests = 4
  MaxRuns = 1
  MaxKills = 0
SPECIFICATION AgentSpec
INVARIANT
  ApprovedProposalsAreNotRefused
CHECK_DEADLOCK FALSE
