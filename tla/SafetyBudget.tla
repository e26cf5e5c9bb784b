--------------------------- MODULE SafetyBudget ---------------------------
(***************************************************************************)
(* The campaign safety budget (safety_budget.py): limits that the loop     *)
(* asks about before an objective runs and charges after it.  A budget is  *)
(* a record of counters; the limits are constants.  Elapsed time is the    *)
(* caller's answer to "has max_runtime_seconds passed", a Boolean.         *)
(***************************************************************************)
EXTENDS Integers

CONSTANTS
  MaxIterations,  \* limits.max_iterations of the campaign
  MaxRequests,    \* min of the campaign's and the scope's max_requests
  MaxPerMinute,   \* scope rate_limits.requests_per_minute
  MaxFailures     \* limits.max_consecutive_failures

\* parse_campaign and parse_scope reject limits that are not positive.
ASSUME LimitsArePositive ==
  /\ MaxIterations \in Nat \ {0}
  /\ MaxRequests \in Nat \ {0}
  /\ MaxPerMinute \in Nat \ {0}
  /\ MaxFailures \in Nat \ {0}

Budget == [iterations: Nat, requests: Nat, minute: Nat, failures: Nat]

Reasons == {"iteration_limit", "runtime_limit", "request_limit",
            "rate_limit", "consecutive_failure_limit"}

DenialReason_OneMore(budget, late, proposed) ==
  IF budget.iterations > MaxIterations THEN "iteration_limit" ELSE "none"

\* The first limit that forbids another objective, or "none".
DenialReason(budget, late, proposed) ==
  IF budget.iterations >= MaxIterations THEN "iteration_limit"
  ELSE IF late THEN "runtime_limit"
  ELSE IF budget.requests + proposed > MaxRequests THEN "request_limit"
  ELSE IF budget.minute + proposed > MaxPerMinute THEN "rate_limit"
  ELSE IF budget.failures >= MaxFailures THEN "consecutive_failure_limit"
  ELSE "none"

\* Charge one finished objective; a success clears the failure streak.
Record(budget, count, failed) ==
  [iterations |-> budget.iterations + 1,
   requests   |-> budget.requests + count,
   minute     |-> budget.minute + count,
   failures   |-> IF failed THEN budget.failures + 1 ELSE 0]

=============================================================================
