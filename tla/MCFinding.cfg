\* One finding, two manifests, two decisions, histories up to ready_for_report.
CONSTANTS
  f1 = f1
  c1 = c1
  c2 = c2
  ana = ana
  ben = ben
  NoOne = NoOne
  NoCandidate = NoCandidate
  Findings <- OneFinding
  Commands <- TwoCommands
  Reviewers <- TwoReviewers
  MaxWrites = 2
  MaxHistory = 4
SPECIFICATION FindingSpec
SYMMETRY Symmetry
INVARIANTS
  ReportedFindingsAreReviewed
  ConfirmationIsHuman
  HistoryExplainsState
CHECK_DEADLOCK FALSE
