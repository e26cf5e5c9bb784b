------------------------------ MODULE MCGraph ------------------------------
(***************************************************************************)
(* Instances of the graph orchestrator for TLC.                            *)
(***************************************************************************)
EXTENDS CampaignGraph

CONSTANTS o1, o2, p1

TwoObjectives == {o1, o2}
ScheduleOrder == [o \in Objectives |-> IF o = o1 THEN 1 ELSE 2]
OneProcess == {p1}
DryAndLive == {TRUE, FALSE}
OneStep == {1}
AllKinds == ObjectiveKinds

=============================================================================
