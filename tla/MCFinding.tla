------------------------------ MODULE MCFinding ------------------------------
(***************************************************************************)
(* One finding of any kind, two commands and a report at the same time.    *)
(***************************************************************************)
EXTENDS FindingLifecycle, TLC

CONSTANTS f1, c1, c2, ana, ben

OneFinding == {f1}
TwoCommands == {c1, c2}
TwoReviewers == {ana, ben}
Symmetry == Permutations(TwoCommands) \union Permutations(TwoReviewers)

=============================================================================
