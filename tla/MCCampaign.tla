----------------------------- MODULE MCCampaign -----------------------------
(***************************************************************************)
(* Instances of the campaign engine for TLC: two or three objectives in a  *)
(* fixed schedule order, of every kind.                                    *)
(***************************************************************************)
EXTENDS CampaignProperties, TLC

CONSTANTS o1, o2, o3, p1, p2

OneObjective == {o1}
TwoObjectives == {o1, o2}
ThreeObjectives == {o1, o2, o3}
ScheduleOrder == [o \in Objectives |-> CASE o = o1 -> 1 [] o = o2 -> 2 [] OTHER -> 3]

OneProcess == {p1}
TwoProcesses == {p1, p2}
DryAndLive == {TRUE, FALSE}
DryOnly == {FALSE}
NoCap == {0}
NoCapOrOne == {0, 1}
AllKinds == ObjectiveKinds
RunKinds == {"plain", "needs_approval"}

=============================================================================
