-------------------------- MODULE CampaignContract --------------------------
(***************************************************************************)
(* What the sequence of checkpoints of one campaign promises a reader who  *)
(* only ever sees the checkpoint file: objectives are settled one at a     *)
(* time, in schedule order; a pause asks about exactly one objective and   *)
(* only an answer about that objective ends it; a halted campaign settles  *)
(* nothing more.                                                           *)
(***************************************************************************)
EXTENDS Integers

CONSTANTS Objectives, NoObjective, Rank

VARIABLES
  disposition,  \* what became of each objective
  phase,        \* new, active, waiting for a review, or halted
  asked         \* the objective under review

contract == <<disposition, phase, asked>>

Settled == {"completed", "stopped"}

ContractInit ==
  /\ disposition = [o \in Objectives |-> "pending"]
  /\ phase = "new"
  /\ asked = NoObjective

Due(o) ==
  /\ disposition[o] = "pending"
  /\ \A other \in Objectives :
       Rank[other] < Rank[o] => disposition[other] # "pending"

Begin ==
  /\ phase = "new"
  /\ phase' = "active"
  /\ UNCHANGED <<disposition, asked>>

Settle(o, how, after) ==
  /\ disposition' = [disposition EXCEPT ![o] = how]
  /\ phase' = after
  /\ asked' = NoObjective

\* A step of a running campaign: finish the due objective, or stop at it.
Advance(o) ==
  /\ phase = "active"
  /\ Due(o)
  /\ Settle(o, "completed", "active") \/ Settle(o, "stopped", "halted")

Ask(o) ==
  /\ phase = "active"
  /\ Due(o)
  /\ phase' = "waiting"
  /\ asked' = o
  /\ UNCHANGED disposition

\* Approval after execution completes the objective, approval before it
\* lets the campaign come back to it, anything else stops it.
Answer ==
  /\ phase = "waiting"
  /\ \/ Settle(asked, "completed", "active")
     \/ Settle(asked, "pending", "active")
     \/ Settle(asked, "stopped", "halted")

\* Everything is settled, or the operator ends the campaign between steps.
End ==
  /\ phase = "active"
  /\ phase' = "halted"
  /\ UNCHANGED <<disposition, asked>>

ContractNext ==
  \/ Begin
  \/ \E o \in Objectives : Advance(o) \/ Ask(o)
  \/ Answer
  \/ End

ContractSpec == ContractInit /\ [][ContractNext]_contract

=============================================================================
