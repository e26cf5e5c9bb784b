------------------------ MODULE CampaignProperties ------------------------
(***************************************************************************)
(* What the campaign engine must guarantee, stated over the checkpoint,    *)
(* the event log and the evidence that CampaignLoop's commands leave.      *)
(***************************************************************************)
EXTENDS CampaignLoop

Manifest == [obj: Objectives, verdict: {"INCONCLUSIVE", "MANUAL_REVIEW",
                                        "STOPPED_BY_POLICY"}]

LogLine == [seq: Nat, prev: Nat, type: EventTypes,
            obj: Objectives \union {NoObjective}, iter: Nat,
            outcome: Statuses \union ReviewVerdicts \union
                     {"INCONCLUSIVE", "MANUAL_REVIEW", "STOPPED_BY_POLICY"}]

(***************************************************************************)
(* Type invariant: every file and every process keeps the shape that the   *)
(* dataclasses of campaign_state.py declare, and a process that is past    *)
(* the selection of an objective has one.                                  *)
(***************************************************************************)
TypeOK ==
  /\ kind \in [Objectives -> Kinds]
  /\ ckpt \in State
  /\ log \in Seq(LogLine)
  /\ DOMAIN evidence \subseteq Nat
  /\ \A i \in DOMAIN evidence : evidence[i] \in Manifest
  /\ decision \in [digest: State, verdict: ReviewVerdicts \union {"none"}]
  /\ proc \in [Procs -> Process]
  /\ executed \in [Objectives -> Nat]
  /\ crashes \in Nat

-----------------------------------------------------------------------------
(* Safety *)

Dispositions(s) == s.completed \union s.pending \union s.stopped

(***************************************************************************)
(* No command ever loses an objective or gives it two dispositions, in     *)
(* memory or on disk: run_campaign, apply_review_decision and              *)
(* request_operator_stop move it between the lists independently.          *)
(***************************************************************************)
EveryObjectiveHasOneDisposition ==
  \A s \in {ckpt} \union {proc[p].st : p \in Procs} :
    Disjoint(s) /\ Dispositions(s) = Objectives

SavePCs == {"save_running", "step_save", "stop_save", "final_save",
            "review_save", "operator_save"}

(***************************************************************************)
(* validate_state, which save_state calls, never refuses a state that a    *)
(* command has built: a refusal would come after the event was logged and  *)
(* leave the event log ahead of the checkpoint for good.                   *)
(***************************************************************************)
SavesAreNeverRefused ==
  \A p \in Procs :
    /\ proc[p].pc \in SavePCs =>
         ValidState(IF proc[p].pc = "save_running"
                      THEN [proc[p].st EXCEPT !.status = "running"]
                      ELSE proc[p].st)
    /\ proc[p].pc = "finish" /\ ~AllDone(proc[p].st) => ValidState(proc[p].st)

ApprovedBefore(o, i) ==
  \E j \in 1 .. i - 1 : /\ log[j].type = "review_decision"
                        /\ log[j].obj = o
                        /\ log[j].outcome = "approved"

ResultLines == {i \in 1 .. Len(log) : log[i].type = "objective_result"}

(***************************************************************************)
(* The human gate: an objective that needs approval is run by a dry-run    *)
(* adapter, and one with a lockout risk by any adapter, only after an      *)
(* approving review_decision for it is in the event log, whatever crashes  *)
(* and restarts happened in between.                                       *)
(***************************************************************************)
ApprovalPrecedesExecution ==
  /\ \A i \in ResultLines :
       kind[log[i].obj] = "needs_approval" /\ log[i].outcome = "INCONCLUSIVE"
         => ApprovedBefore(log[i].obj, i)
  /\ \A o \in Objectives :
       kind[o] = "lockout" /\ executed[o] > 0
         => ApprovedBefore(o, Len(log) + 1)

(***************************************************************************)
(* A completed objective in the checkpoint was really run: the event log   *)
(* has its result, the evidence directory of that iteration has the        *)
(* matching manifest, and a result that asks for manual review was         *)
(* followed by an approval.                                                *)
(***************************************************************************)
CompletionIsEarned ==
  \A o \in ckpt.completed :
    \E i \in ResultLines :
      /\ log[i].obj = o
      /\ log[i].iter \in DOMAIN evidence
      /\ evidence[log[i].iter] = [obj |-> o, verdict |-> log[i].outcome]
      /\ \/ log[i].outcome = "INCONCLUSIVE"
         \/ /\ log[i].outcome = "MANUAL_REVIEW"
            /\ \E j \in i + 1 .. Len(log) :
                 /\ log[j].type = "review_decision"
                 /\ log[j].obj = o
                 /\ log[j].outcome = "approved"

(***************************************************************************)
(* Evidence directories are keyed by the iteration number, so a replayed   *)
(* iteration overwrites one.  No line of the event log ever refers to a    *)
(* manifest that is missing or belongs to another objective.               *)
(***************************************************************************)
LogRefersToItsEvidence ==
  \A i \in 1 .. Len(log) :
    log[i].type \in {"objective_result", "campaign_stop", "campaign_paused"}
      => /\ log[i].iter \in DOMAIN evidence
         /\ evidence[log[i].iter].obj = log[i].obj

(***************************************************************************)
(* An iteration number is spent on one objective result, also when the     *)
(* command is killed and the campaign run again from its checkpoint.       *)
(***************************************************************************)
OneResultPerIteration ==
  \A i, j \in ResultLines : log[i].iter = log[j].iter => i = j

(***************************************************************************)
(* max_iterations is a hard limit: the gate is reached in at most that     *)
(* many iterations, counting those of earlier invocations.                 *)
(***************************************************************************)
IterationLimitIsHard ==
  /\ \A i \in ResultLines : log[i].iter <= MaxIterations
  /\ \A p \in Procs : proc[p].pc = "gate" => proc[p].st.next <= MaxIterations

(***************************************************************************)
(* As long as no command was killed, the checkpoint and the event log      *)
(* agree whenever no command is running, so resume, review and             *)
(* campaign-events-verify succeed.                                         *)
(***************************************************************************)
QuiescentFilesAgree ==
  /\ crashes = 0
  /\ \A p \in Procs : proc[p].pc = "idle"
  /\ ckpt.status # "absent"
  => EventLogMatches(ckpt)

(***************************************************************************)
(* An adapter runs once.  Only a command that was killed can make it run   *)
(* again, and each kill once at most: neither a resumed campaign nor a     *)
(* review, approved or not, sends the same objective to the target twice.  *)
(***************************************************************************)
OnlyCrashesRepeatRuns == \A o \in Objectives : executed[o] <= 1 + crashes

-----------------------------------------------------------------------------
(* Action properties *)

(***************************************************************************)
(* What a checkpoint calls completed or stopped no later checkpoint takes  *)
(* back.                                                                   *)
(***************************************************************************)
DispositionsAreFinal ==
  [][/\ ckpt.completed \subseteq ckpt'.completed
     /\ ckpt.stopped \subseteq ckpt'.stopped
     /\ ckpt.rev < ckpt'.rev]_ckpt

(***************************************************************************)
(* A campaign that halted is never run again; only an operator stop may    *)
(* replace the recorded reason, and a completed campaign stays completed.  *)
(***************************************************************************)
HaltIsFinal ==
  [][ckpt.status \in Halted =>
       \/ ckpt'.status = ckpt.status
       \/ ckpt.status # "completed" /\ ckpt'.status = "stopped_by_operator"]_ckpt

(***************************************************************************)
(* A review decision that enters the event log is the one the operator     *)
(* wrote for the checkpoint that is being answered, never one left over    *)
(* from an earlier pause.                                                  *)
(***************************************************************************)
DecisionsBindToTheirCheckpoint ==
  [][\A i \in Len(log) + 1 .. Len(log') :
       log'[i].type = "review_decision" =>
         /\ decision.digest = ckpt
         /\ log'[i].outcome = decision.verdict
         /\ log'[i].obj = ckpt.current]_log

(***************************************************************************)
(* "Operator stop is persistent" (sprint-2 README, and                     *)
(* test_operator_stop_persists_terminal_state): after campaign-stop the    *)
(* checkpoint says so for good.                                            *)
(***************************************************************************)
OperatorStopPersists ==
  [][ckpt.status = "stopped_by_operator"
       => ckpt'.status = "stopped_by_operator"]_ckpt

(***************************************************************************)
(* Once the event log has the result of an adapter run, the adapter of     *)
(* that objective never runs again: a crash can repeat only a run whose    *)
(* result was not recorded.                                                *)
(***************************************************************************)
RecordedRunsAreNotRepeated ==
  [][\A o \in Objectives : executed'[o] # executed[o] =>
       \A i \in ResultLines :
         log[i].obj = o => \/ log[i].outcome = "MANUAL_REVIEW"
                            /\ kind[o] = "needs_approval"]_executed

\* How many more steps a command can take at most: six for each iteration it
\* has left, and those around the loop.
PassesLeft(s) == IF s.next > MaxIterations THEN 0 ELSE MaxIterations + 1 - s.next

StepsToEnd ==
  [pc \in PCs |->
     CASE pc = "review_check" -> 14
       [] pc = "review_event" -> 13
       [] pc = "review_save" -> 12
       [] pc = "verify" -> 11
       [] pc \in {"announce", "pause_event"} -> 10
       [] pc \in {"save_running", "step_save"} -> 9
       [] pc = "loop" -> 8
       [] pc = "gate" -> 7
       [] pc = "manifest" -> 6
       [] pc = "result" -> 5
       [] pc = "stop_event" -> 4
       [] pc = "stop_save" -> 3
       [] pc \in {"finish", "operator_event"} -> 2
       [] pc \in {"final_save", "operator_save"} -> 1
       [] pc = "idle" -> 0]

StepsLeft(r) == IF r.pc = "idle" THEN 0 ELSE 6 * PassesLeft(r.st) + StepsToEnd[r.pc]

(***************************************************************************)
(* A command never goes round in circles: every step of it, also when it   *)
(* pauses, is refused, goes on from a review to a run or overlaps another  *)
(* command, brings it closer to its end, and only an iteration spent takes *)
(* run_campaign back to the head of its loop.                              *)
(***************************************************************************)
EveryStepIsProgress ==
  [][\A p \in Procs : proc[p].pc # "idle" /\ proc'[p] # proc[p] =>
       StepsLeft(proc'[p]) < StepsLeft(proc[p])]_proc

-----------------------------------------------------------------------------
(* The contract that one command at a time, killed or not, implements *)

DispositionOf(s, o) ==
  CASE o \in s.completed -> "completed"
    [] o \in s.stopped -> "stopped"
    [] OTHER -> "pending"

PhaseOf(s) ==
  CASE s.status = "absent" -> "new"
    [] s.status \in Runnable -> "active"
    [] s.status = "paused_for_human_review" -> "waiting"
    [] OTHER -> "halted"

Contract == INSTANCE CampaignContract WITH
  disposition <- [o \in Objectives |-> DispositionOf(ckpt, o)],
  phase <- PhaseOf(ckpt),
  asked <- IF ckpt.status = "paused_for_human_review" THEN ckpt.current
           ELSE NoObjective

(***************************************************************************)
(* The checkpoints of the engine implement the contract: objectives are    *)
(* settled one at a time in schedule order, and a pause is ended only by   *)
(* an answer about the objective it asked about.                           *)
(***************************************************************************)
ImplementsContract == Contract!ContractSpec

-----------------------------------------------------------------------------
(* Fairness and liveness *)

\* A command in progress goes on.  The operators start the campaign, load a
\* runnable checkpoint, and answer pauses; nobody has to stop it.
Fairness ==
  /\ \A p \in Procs : WF_vars(Continue(p))
  /\ WF_vars(\E p \in Procs : Start(p))
  /\ WF_vars(\E p \in Procs : ReviewLoad(p))
  /\ WF_vars(\E verdict \in ReviewVerdicts : WriteDecision(verdict))

FairSpec == Spec /\ Fairness

(***************************************************************************)
(* When operators answer every pause the campaign halts, unless one of its *)
(* commands is killed: approvals and resumptions cannot go on for ever,    *)
(* although every one of them spends an iteration.                         *)
(***************************************************************************)
EventuallyHalts == <>(crashes > 0 \/ ckpt.status \in Halted)

=============================================================================
