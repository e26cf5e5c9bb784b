--------------------------- MODULE CampaignGraph ---------------------------
(***************************************************************************)
(* LangGraphCampaignOrchestrator (langgraph_orchestration.py): the engine  *)
(* of CampaignLoop driven by a graph of two nodes, campaign_step and       *)
(* human_review, whose progress is kept in a SQLite checkpoint.            *)
(*                                                                         *)
(* One orchestrator drives the graph.  It keeps the thread of the graph in *)
(* memory; LangGraph (external) saves it in the background, so what is     *)
(* saved may lag until invoke returns.  A command that the graph does not  *)
(* drive, campaign-stop, may come between two invocations.                 *)
(***************************************************************************)
EXTENDS CampaignProperties

VARIABLES
  driver,  \* what the orchestrator does: idle, node, run or review
  thread,  \* the thread in memory: where the graph is and the status it saw
  saved,   \* the thread in the SQLite checkpoint
  killed   \* the orchestrator has been killed once (history)

graphVars == <<driver, thread, saved, killed>>

Nodes == {"none", "campaign_step", "human_review", "end"}
Thread == [next: Nodes, status: Statuses]
NoThread == [next |-> "none", status |-> "absent"]

At(node, status) == [next |-> node, status |-> status]

-----------------------------------------------------------------------------
(* Routing *)

RouteAfterStep_PauseEnds(status) ==
  IF status = "running" THEN "campaign_step" ELSE "end"
RouteAfterStep(status) ==
  IF status = "running" THEN "campaign_step"
  ELSE IF status = "paused_for_human_review" THEN "human_review"
  ELSE "end"

RouteAfterReview_Ends(status) == "end"
RouteAfterReview(status) ==
  IF status = "ready_to_resume" THEN "campaign_step" ELSE "end"

-----------------------------------------------------------------------------
(* One invocation of the graph *)

Quiet == \A p \in Procs : proc[p].pc = "idle"

\* start(): refused when the thread has been saved before.
GraphStart ==
  /\ driver = "idle" /\ Quiet
  /\ saved = NoThread
  /\ driver' = "node"
  /\ thread' = At("campaign_step", "planned")
  /\ UNCHANGED <<saved, killed, vars>>

\* invoke returns, or an exception leaves it: the saver is flushed.
Return ==
  /\ driver' = "idle"
  /\ thread' = NoThread
  /\ saved' = thread
  /\ UNCHANGED killed

\* campaign_step of a campaign that has halted runs nothing.
StepHalted ==
  /\ driver = "node" /\ thread.next = "campaign_step"
  /\ ckpt.status \in Halted
  /\ thread' = At(RouteAfterStep(ckpt.status), ckpt.status)
  /\ UNCHANGED <<driver, saved, killed, vars>>

\* campaign_step loads the checkpoint, if there is one, and runs one objective.
StepBegin(p) ==
  /\ driver = "node" /\ thread.next = "campaign_step"
  /\ Start(p)
  /\ proc'[p].cap = 1
  /\ driver' = "run"
  /\ UNCHANGED <<thread, saved, killed>>

\* run_campaign refuses: an orphaned event log, or a status it cannot resume.
StepRefused ==
  /\ driver = "node" /\ thread.next = "campaign_step"
  /\ \/ ckpt.status = "absent" /\ log # << >>
     \/ ckpt.status = "paused_for_human_review"
  /\ Return
  /\ UNCHANGED vars

\* run_campaign goes on; its last save returns to the graph, which routes on
\* the status, and a refused event log raises.
StepRun(p) ==
  /\ driver = "run"
  /\ Continue(p)
  /\ IF proc'[p].pc # "idle"
       THEN UNCHANGED graphVars
       ELSE IF proc[p].pc = "verify"
         THEN Return
         ELSE /\ driver' = "node"
              /\ thread' = At(RouteAfterStep(ckpt'.status), ckpt'.status)
              /\ UNCHANGED <<saved, killed>>

Persist ==
  /\ driver # "idle"
  /\ saved # thread
  /\ saved' = thread
  /\ UNCHANGED <<driver, thread, killed, vars>>

\* The graph is at its end, or interrupt() waits for a review.
GraphReturn ==
  /\ driver = "node"
  /\ thread.next \in {"end", "human_review"}
  /\ Return
  /\ UNCHANGED vars

\* resume(review): only a thread that waits for a review is resumed.
GraphResume(p) ==
  /\ driver = "idle" /\ Quiet
  /\ saved.next = "human_review"
  /\ ReviewLoad(p)
  /\ driver' = "review"
  /\ thread' = saved
  /\ UNCHANGED <<saved, killed>>

\* human_review applies the decision; a decision that does not fit raises.
ReviewRun(p) ==
  /\ driver = "review"
  /\ Continue(p)
  /\ IF proc[p].pc = "review_save"
       THEN /\ Exit(p)
            /\ driver' = "node"
            /\ thread' = At(RouteAfterReview(ckpt'.status), ckpt'.status)
            /\ UNCHANGED <<saved, killed>>
       ELSE IF proc'[p].pc = "idle" THEN Return
       ELSE UNCHANGED graphVars

-----------------------------------------------------------------------------
(* Operators and crashes *)

StopBetween(p) ==
  /\ driver = "idle"
  /\ \/ Quiet /\ OperatorLoad(p)
     \/ OperatorEvent(p)
     \/ OperatorSave(p)
  /\ UNCHANGED graphVars

Decide ==
  /\ \E verdict \in ReviewVerdicts : WriteDecision(verdict)
  /\ UNCHANGED graphVars

\* The orchestrator is killed while it runs the engine, or between two nodes.
GraphCrash ==
  /\ ~killed
  /\ \/ \E p \in Procs : Crash(p)
     \/ driver = "node" /\ UNCHANGED vars
  /\ driver' = "idle"
  /\ thread' = NoThread
  /\ killed' = TRUE
  /\ UNCHANGED saved

-----------------------------------------------------------------------------

GraphInit ==
  /\ Init
  /\ driver = "idle"
  /\ thread = NoThread
  /\ saved = NoThread
  /\ killed = FALSE

\* Steps of an invocation in progress.
GraphContinue ==
  \/ StepHalted
  \/ StepRefused
  \/ GraphReturn
  \/ \E p \in Procs : StepBegin(p) \/ StepRun(p) \/ ReviewRun(p)

GraphNext ==
  \/ GraphStart
  \/ GraphContinue
  \/ Persist
  \/ Decide
  \/ GraphCrash
  \/ \E p \in Procs : GraphResume(p) \/ StopBetween(p)

GraphSpec == GraphInit /\ [][GraphNext]_<<vars, graphVars>>

\* The orchestrator goes on, the operator starts it and answers its pauses.
GraphFairness ==
  /\ WF_<<vars, graphVars>>(GraphContinue)
  /\ WF_<<vars, graphVars>>(GraphStart)
  /\ WF_<<vars, graphVars>>(Decide)
  /\ WF_<<vars, graphVars>>(\E p \in Procs : GraphResume(p))
  /\ WF_<<vars, graphVars>>(\E p \in Procs : OperatorEvent(p) /\ StopBetween(p))
  /\ WF_<<vars, graphVars>>(\E p \in Procs : OperatorSave(p) /\ StopBetween(p))

FairGraphSpec == GraphSpec /\ GraphFairness

-----------------------------------------------------------------------------
(* Properties *)

(***************************************************************************)
(* The graph never settles on an end or a review that the campaign's own   *)
(* checkpoint does not confirm, also when saves lag and commands are       *)
(* killed: an ended thread has a halted campaign, and between invocations  *)
(* a waiting thread has been paused and not yet resumed by the graph.      *)
(***************************************************************************)
ThreadFollowsCheckpoint ==
  /\ saved.next = "end" => ckpt.status \in Halted
  /\ saved.next = "human_review" /\ driver = "idle" /\ ~killed =>
       \/ ckpt.status = "paused_for_human_review"
       \/ ckpt.status = "stopped_by_operator"

\* start or resume accepts the thread of a campaign that has not halted.
GraphAccepts ==
  \/ ckpt.status \in Halted
  \/ saved = NoThread /\ (ckpt.status = "absent" => log = << >>)
  \/ saved.next = "human_review" /\ ckpt.status = "paused_for_human_review"

(***************************************************************************)
(* Without a crash the graph and the campaign's checkpoint never disagree  *)
(* so that neither start nor resume is possible.                           *)
(***************************************************************************)
UninterruptedCampaignCanGoOn ==
  ~killed /\ driver = "idle" /\ Quiet => GraphAccepts

(***************************************************************************)
(* Recovery (langgraph-orchestration.md lists crash recovery): also after  *)
(* a kill, some command goes on with a campaign that has a checkpoint and  *)
(* has not halted: the graph's start or resume, or else run_campaign or a  *)
(* review, which need the event log that belongs to the checkpoint.        *)
(***************************************************************************)
CampaignCanGoOn ==
  driver = "idle" /\ Quiet /\ ckpt.status # "absent" =>
    GraphAccepts \/ EventLogMatches(ckpt)

\* The last line is the result of the iteration before s.next.
ResultCloses(s, lines) ==
  /\ lines # << >>
  /\ lines[Len(lines)].type = "objective_result"
  /\ lines[Len(lines)].iter = s.next - 1

(***************************************************************************)
(* The edge from campaign_step to itself is taken only when the run has    *)
(* just logged the result of the iteration that its checkpoint has used:   *)
(* a step that ran nothing, stopped or paused never sends the graph round  *)
(* again, so that the iteration limit bounds the graph's loop too.         *)
(***************************************************************************)
StepNodeRepeatsOnResults ==
  [][driver = "run" /\ driver' = "node" /\ thread'.next = "campaign_step" =>
       ResultCloses(ckpt', log')]_<<driver, thread>>

(***************************************************************************)
(* An orchestrated campaign whose pauses are answered halts, and the       *)
(* orchestrator returns.                                                   *)
(***************************************************************************)
GraphHalts == []~killed => <>(driver = "idle" /\ ckpt.status \in Halted)

=============================================================================
