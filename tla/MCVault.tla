------------------------------- MODULE MCVault -------------------------------
(***************************************************************************)
(* Two processes, two handles, two keys and two reads.                     *)
(***************************************************************************)
EXTENDS Vault, TLC

CONSTANTS p1, p2, h1, h2, k1, k2, r1, r2

TwoProcesses == {p1, p2}
TwoHandles == {h1, h2}
TwoKeys == {k1, k2}
TwoReads == {r1, r2}

Context(roe, grants, approval, telling) ==
  [roe |-> roe, grants |-> grants, approval |-> approval, telling |-> telling]
SomeContexts ==
  {Context(TRUE, {"secret"}, FALSE, FALSE),
   Context(TRUE, {"secret", "poc_sensitive", "recipient_only"}, TRUE, FALSE),
   Context(TRUE, {"secret", "poc_sensitive", "recipient_only"}, FALSE, FALSE),
   Context(TRUE, {"secret"}, FALSE, TRUE),
   Context(FALSE, {"secret"}, TRUE, FALSE)}
PlainContexts == {c \in SomeContexts : c.roe /\ ~c.telling}

Symmetry == Permutations(TwoProcesses) \union Permutations(TwoHandles)
            \union Permutations(TwoKeys) \union Permutations(TwoReads)

=============================================================================
