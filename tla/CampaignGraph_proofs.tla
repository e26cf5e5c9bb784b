------------------------ MODULE CampaignGraph_proofs ------------------------
(***************************************************************************)
(* The graph adds no behaviour to the engine it drives, so what is proved  *)
(* of the engine holds of orchestrated campaigns; and its thread follows   *)
(* the campaign's checkpoint.                                              *)
(***************************************************************************)
EXTENDS CampaignGraph, CampaignSerial_proofs

\* Every step of the graph, the operator or a crash is one of the engine, or none.
LEMMA GraphStepIsEngineStep == GraphNext => [Next]_vars
  <1>. SUFFICES ASSUME GraphNext PROVE [Next]_vars
    OBVIOUS
  <1>1. CASE GraphStart \/ Persist
    BY <1>1 DEF GraphStart, Persist
  <1>2. CASE StepHalted \/ StepRefused \/ GraphReturn
    BY <1>2 DEF StepHalted, StepRefused, GraphReturn
  <1>3. ASSUME NEW p \in Procs, StepBegin(p) \/ StepRun(p) \/ ReviewRun(p)
        PROVE  Next
    BY <1>3 DEF StepBegin, StepRun, ReviewRun, Next
  <1>4. CASE Decide
    BY <1>4 DEF Decide, Next
  <1>5. CASE GraphCrash
    BY <1>5 DEF GraphCrash, Next
  <1>6. ASSUME NEW p \in Procs, GraphResume(p) \/ StopBetween(p)
        PROVE  Next
    BY <1>6 DEF GraphResume, StopBetween, Next, Continue
  <1>. QED
    BY <1>1, <1>2, <1>3, <1>4, <1>5, <1>6 DEF GraphNext, GraphContinue

(***************************************************************************)
(* Every behaviour of the orchestrator, seen through the files and the     *)
(* commands, is a behaviour of the deterministic engine.                   *)
(***************************************************************************)
THEOREM GraphImplementsEngine == GraphSpec => Spec
  <1>1. GraphInit => Init
    BY DEF GraphInit
  <1>2. [GraphNext]_<<vars, graphVars>> => [Next]_vars
    <2>1. UNCHANGED <<vars, graphVars>> => UNCHANGED vars
      OBVIOUS
    <2>. QED
      BY <2>1, GraphStepIsEngineStep
  <1>. QED
    BY <1>1, <1>2, PTL DEF GraphSpec, Spec

(***************************************************************************)
(* The graph is no way around the human gate or the iteration limit.       *)
(***************************************************************************)
THEOREM GraphKeepsTheGate ==
  GraphSpec => [](ApprovalPrecedesExecution /\ IterationLimitIsHard)
  BY GraphImplementsEngine, HumanGate, IterationsAreBounded, PTL

-----------------------------------------------------------------------------
(* The graph and the checkpoint *)

\* What the orchestrator does decides which command may be in progress.
Driven ==
  /\ driver \in {"idle", "node", "run", "review"}
  /\ thread.next \in Nodes /\ saved.next \in Nodes
  /\ saved.next = "none" => saved = NoThread
  /\ driver = "idle" =>
       /\ thread = NoThread
       /\ \A p \in Procs : proc[p].pc \in {"idle", "operator_event", "operator_save"}
  /\ driver = "node" => Quiet /\ thread.next # "none"
  /\ driver = "run" =>
       /\ thread.next = "campaign_step"
       /\ \A p \in Procs : proc[p].pc \in RunPCs \union {"idle"}
  /\ driver = "review" =>
       /\ thread.next = "human_review"
       /\ ckpt.status = "paused_for_human_review"
       /\ \A p \in Procs :
            proc[p].pc \in {"idle", "review_check", "review_event", "review_save"}

\* Where the graph is follows from the checkpoint that the last command saved.
Routed ==
  /\ thread.next = "end" => ckpt.status \in Halted
  /\ saved.next = "end" => ckpt.status \in Halted
  /\ driver = "node" /\ thread.next = "human_review" =>
       ckpt.status = "paused_for_human_review"
  /\ \A p \in Procs : proc[p].pc = "finish" =>
       proc[p].st.status \notin {"planned", "ready_to_resume"}

\* Until the orchestrator is killed, invoke never leaves a thread in the middle
\* of the campaign.
Unbroken ==
  ~killed =>
    /\ crashes = 0
    /\ driver = "node" /\ thread.next = "campaign_step" =>
         ckpt.status \in Runnable \union {"absent"}
    /\ driver = "idle" =>
         /\ saved.next # "campaign_step"
         /\ saved.next = "human_review" =>
              ckpt.status \in {"paused_for_human_review", "stopped_by_operator"}
         /\ saved.next = "none" => ckpt.status = "absent" /\ log = << >> /\ Quiet

GInv == Driven /\ Routed /\ Unbroken

USE DEF Statuses, Runnable, Halted, Stopped

\* A halted campaign stays halted whatever is saved over it.
LEMMA HaltedStays ==
  ASSUME IInv, SInv, [Next]_vars, ckpt.status \in Halted
  PROVE  ckpt'.status \in Halted
  <1>1. CASE ckpt' = ckpt
    BY <1>1
  <1>2. CASE ckpt' # ckpt
    <2>1. PICK s \in State : /\ ckpt' = Revised(s)
                             /\ Goes(ckpt, s) \/ LeadsTo(ckpt, s)
      BY <1>2, SavesAreSteps
    <2>2. ckpt \in State
      BY DEF IInv, TypeOK
    <2>. QED
      BY <2>1, <2>2, StepsAreForward, RevisedFields
  <1>. QED
    BY <1>1, <1>2

\* The event log of a campaign that was never interrupted fits its checkpoint.
LEMMA UninterruptedMatches ==
  ASSUME SInv, Quiet, crashes = 0
  PROVE  /\ Matches(ckpt, log)
         /\ ckpt.status = "absent" => log = << >>
  <1>1. Matches(ckpt, log) /\ (ckpt.status = "absent" => ckpt = NoFile)
    BY DEF SInv, Quiet, SerialFiles
  <1>2. ckpt = NoFile => Len(log) = 0
    BY <1>1 DEF Matches, NoFile, InitialState
  <1>3. ckpt.status # "absent" \/ log = << >>
    BY <1>1, <1>2 DEF SInv, SerialFiles
  <1>. QED
    BY <1>1, <1>3

\* A new thread begins at a campaign that has not begun.
LEMMA GraphStartKeeps == ASSUME IInv, SInv, GInv, GraphStart PROVE GInv'
  BY DEF GraphStart, At, NoThread, Nodes, GInv, Driven, Routed, Unbroken, Quiet, vars

\* A step of a halted campaign sends the graph to its end.
LEMMA StepHaltedKeeps == ASSUME GInv, StepHalted PROVE GInv'
  <1>1. thread'.next = "end"
    BY DEF StepHalted, At, RouteAfterStep
  <1>. QED
    BY <1>1 DEF StepHalted, Nodes, GInv, Driven, Routed, Unbroken, Quiet, vars

\* run_campaign only refuses a step of an orchestrator that was killed before.
LEMMA StepRefusedKeeps == ASSUME SInv, GInv, StepRefused PROVE GInv'
  <1>1. /\ thread.next = "campaign_step" /\ driver = "node" /\ Quiet
        /\ driver' = "idle" /\ thread' = NoThread /\ saved' = thread
        /\ UNCHANGED killed /\ UNCHANGED vars
    BY DEF StepRefused, Return, GInv, Driven
  <1>2. killed
    BY <1>1, UninterruptedMatches DEF StepRefused, GInv, Unbroken
  <1>. QED
    BY <1>1, <1>2 DEF GInv, Driven, Routed, Unbroken, Quiet, vars, NoThread, Nodes

\* invoke returns from a thread that has ended or waits for a review.
LEMMA GraphReturnKeeps == ASSUME GInv, GraphReturn PROVE GInv'
  BY DEF GraphReturn, Return, GInv, Driven, Routed, Unbroken, Quiet, vars, NoThread, Nodes

\* The saver catches up with the thread in memory.
LEMMA PersistKeeps == ASSUME GInv, Persist PROVE GInv'
  BY DEF Persist, GInv, Driven, Routed, Unbroken, Quiet, vars, NoThread, Nodes

\* A decision file changes neither the thread nor the checkpoint.
LEMMA DecideKeeps == ASSUME GInv, Decide PROVE GInv'
  BY DEF Decide, WriteDecision, graphVars, GInv, Driven, Routed, Unbroken, Quiet

\* A killed orchestrator leaves the files and what was saved of the thread.
LEMMA GraphCrashKeeps == ASSUME IInv, SInv, GInv, GraphCrash PROVE GInv'
  <1>1. /\ driver' = "idle" /\ thread' = NoThread /\ killed' /\ saved' = saved
        /\ ckpt' = ckpt
    BY DEF GraphCrash, Crash, vars
  <1>2. \A p \in Procs : proc'[p].pc = "idle"
    <2>1. CASE driver = "node" /\ UNCHANGED vars
      BY <2>1 DEF GInv, Driven, Quiet, vars
    <2>2. ASSUME NEW p \in Procs, Crash(p)
          PROVE  \A q \in Procs : proc'[q].pc = "idle"
      BY <2>2, OthersAreIdle DEF Crash, Exit, Idle, IInv, TypeOK
    <2>. QED
      BY <2>1, <2>2 DEF GraphCrash
  <1>. QED
    BY <1>1, <1>2 DEF GInv, Driven, Routed, Unbroken, NoThread, Nodes

\* campaign_step hands the campaign to the engine.
LEMMA StepBeginKeeps ==
  ASSUME IInv, SInv, GInv, NEW p \in Procs, StepBegin(p)
  PROVE  GInv'
  <1>1. /\ driver = "node" /\ thread.next = "campaign_step" /\ driver' = "run"
        /\ UNCHANGED <<thread, saved, killed, ckpt, log, crashes>>
        /\ proc'[p].pc \in {"announce", "verify"}
        /\ \A q \in Procs \ {p} : proc'[q] = proc[q]
    BY DEF StepBegin, Start, StartFresh, LoadForRun, Idle, IInv, TypeOK
  <1>. QED
    BY <1>1 DEF GInv, Driven, Routed, Unbroken, Quiet, RunPCs

\* What run_campaign may do next, and how it comes to its exit.
LEMMA RunSteps ==
  ASSUME IInv, SInv, NEW p \in Procs, proc[p].pc \in RunPCs, Continue(p),
         proc[p].pc = "finish" => proc[p].st.status \notin {"planned", "ready_to_resume"}
  PROVE  /\ UNCHANGED crashes
         /\ \A q \in Procs \ {p} : proc'[q] = proc[q]
         /\ \/ proc'[p].pc \in RunPCs \ {"finish"}
            \/ /\ proc'[p].pc = "finish"
               /\ proc'[p].st.status \notin {"planned", "ready_to_resume"}
            \/ /\ proc'[p].pc = "idle"
               /\ Verify(p) \/ FinalSave(p)
  <1>. DEFINE Goal == /\ UNCHANGED crashes
                      /\ \A q \in Procs \ {p} : proc'[q] = proc[q]
                      /\ \/ proc'[p].pc \in RunPCs \ {"finish"}
                         \/ /\ proc'[p].pc = "finish"
                            /\ proc'[p].st.status \notin {"planned", "ready_to_resume"}
                         \/ /\ proc'[p].pc = "idle"
                            /\ Verify(p) \/ FinalSave(p)
  <1>. USE DEF RunPCs
  <1>0. /\ proc \in [Procs -> Process] /\ proc[p] \in Process
        /\ GoodProcess(proc[p], log) /\ Ahead(proc[p], ckpt)
        /\ proc[p].st \in State
    BY InProgress DEF IInv, TypeOK
  <1>1. CASE Verify(p)
    BY <1>0, <1>1 DEF Verify, Goto, Exit, Idle, Process
  <1>2. CASE Announce(p) \/ SaveRunning(p)
    BY <1>0, <1>2 DEF Announce, SaveRunning, Save, Goto, Process
  <1>3. ASSUME NEW o \in Objectives, StepObjective(p, o) PROVE Goal
    <2>1. ASSUME NEW reason, NEW verdict, StopWithManifest(p, o, reason, verdict)
          PROVE  Goal
      <3>1. /\ UNCHANGED crashes /\ proc'[p].pc = "stop_event"
            /\ \A q \in Procs \ {p} : proc'[q] = proc[q]
        BY <1>0, <2>1 DEF StopWithManifest, Process
      <3>. QED
        BY <3>1
    <2>2. CASE BeginObjective(p, o)
      <3>1. /\ UNCHANGED crashes /\ proc'[p].pc = "gate"
            /\ \A q \in Procs \ {p} : proc'[q] = proc[q]
        BY <1>0, <2>2 DEF BeginObjective, Process
      <3>. QED
        BY <3>1
    <2>. QED
      BY <1>3, <2>1, <2>2 DEF StepObjective, FuzzingStop, LockoutPause, BudgetStop
  <1>4. ASSUME NEW answer \in {"allowed", "human", "denied"}, EvaluateAndExecute(p, answer)
        PROVE  Goal
    BY <1>0, <1>4 DEF EvaluateAndExecute, Process
  <1>5. CASE WriteEvidence(p) \/ RecordResult(p) \/ PauseEvent(p)
    BY <1>0, <1>5 DEF WriteEvidence, RecordResult, PauseEvent, Goto, Process
  <1>6. CASE StepSave(p) \/ StopSave(p)
    <2>1. Advances(ckpt, proc[p].st)
      BY <1>0, <1>6 DEF StepSave, StopSave, Ahead
    <2>2. proc[p].st.status \notin {"planned", "ready_to_resume"}
      BY <2>1 DEF Advances
    <2>3. Revised(proc[p].st).status = proc[p].st.status
      BY <1>0, RevisedFields
    <2>. QED
      BY <1>0, <1>6, <2>2, <2>3 DEF StepSave, StopSave, Save, Goto, Process
  <1>7. CASE StopEvent(p)
    <2>. DEFINE o == proc[p].obj
                s == [proc[p].st EXCEPT !.next = @ + 1]
                operator == [Stop(s, o) EXCEPT !.status = "stopped_by_operator"]
                budget == [Stop(s, o) EXCEPT !.status = "stopped_by_budget"]
    <2>1. Noted(operator).status = "stopped_by_operator"
          /\ Noted(budget).status = "stopped_by_budget"
      BY <1>0, Zenon DEF Noted, Stop, State
    <2>2. CASE proc[p].result \in {"lockout", "fuzz_stop"}
      BY <1>0, <1>7, <2>2 DEF StopEvent, Goto, Process
    <2>3. CASE proc[p].result \notin {"lockout", "fuzz_stop"}
      <3>1. \/ Goto(p, "finish", Noted(operator))
            \/ Goto(p, "finish", Noted(budget))
        BY <1>7, <2>3 DEF StopEvent
      <3>. HIDE DEF operator, budget
      <3>2. proc'[p].pc = "finish"
            /\ proc'[p].st.status \notin {"planned", "ready_to_resume"}
        BY <1>0, <2>1, <3>1 DEF Goto, Process
      <3>3. UNCHANGED crashes /\ \A q \in Procs \ {p} : proc'[q] = proc[q]
        BY <1>0, <1>7, <3>1 DEF StopEvent, Goto, Process
      <3>. QED
        BY <3>2, <3>3
    <2>. QED
      BY <2>2, <2>3
  <1>8. CASE EndLoop(p)
    <2>1. proc[p].st.status = "running"
      BY <1>0, <1>8 DEF EndLoop, GoodProcess
    <2>. QED
      BY <1>0, <1>8, <2>1 DEF EndLoop, Goto, Process
  <1>9. CASE CompleteCampaign(p)
    BY <1>0, <1>9 DEF CompleteCampaign, Goto, Process
  <1>10. CASE FinalSave(p)
    BY <1>0, <1>10 DEF FinalSave, Exit, Idle
  <1>11. ~(ReviewCheck(p) \/ ReviewEvent(p) \/ ReviewSave(p) \/ OperatorEvent(p)
            \/ OperatorSave(p))
    BY DEF ReviewCheck, ReviewEvent, ReviewSave, OperatorEvent, OperatorSave
  <1>. QED
    BY <1>1, <1>2, <1>3, <1>4, <1>5, <1>6, <1>7, <1>8, <1>9, <1>10, <1>11 DEF Continue

\* The last save of run_campaign leaves a status that the graph can route on.
LEMMA LastSaveStatus ==
  ASSUME IInv, SInv, NEW p \in Procs, FinalSave(p),
         proc[p].pc = "finish" => proc[p].st.status \notin {"planned", "ready_to_resume"}
  PROVE  ckpt'.status \in Halted \union {"running", "paused_for_human_review"}
  <1>1. /\ proc[p].pc \in {"finish", "final_save"} /\ ckpt' = Revised(proc[p].st)
        /\ proc[p].st \in State /\ Ahead(proc[p], ckpt)
    BY InProgress DEF FinalSave
  <1>2. proc[p].st.status \in Halted \union {"running", "paused_for_human_review"}
    <2>1. CASE proc[p].pc = "final_save"
      BY <1>1, <2>1 DEF Ahead, Ends
    <2>2. CASE proc[p].pc = "finish"
      BY <1>1, <2>2 DEF Ahead, State
    <2>. QED
      BY <1>1, <2>1, <2>2
  <1>. QED
    BY <1>1, <1>2, RevisedFields

\* A campaign that was never interrupted always passes run_campaign's checks.
LEMMA VerifyAccepts ==
  ASSUME IInv, SInv, NEW p \in Procs, Verify(p), crashes = 0
  PROVE  proc'[p].pc # "idle"
  <1>1. /\ proc[p].pc = "verify" /\ Ahead(proc[p], ckpt) /\ log # << >>
        /\ Matches(proc[p].st, log) /\ proc \in [Procs -> Process]
    BY InProgress DEF Verify, IInv, TypeOK
  <1>2. proc[p].st.status \in Runnable /\ EventLogMatches(proc[p].st)
    BY <1>1 DEF Ahead, Matches, EventLogMatches, ChainIntact
  <1>. QED
    BY <1>1, <1>2 DEF Verify, Goto, Process

\* An orchestrator in a run steps the one command there is.
LEMMA RunsAlone ==
  ASSUME SInv, GInv, NEW p \in Procs, StepRun(p)
  PROVE  /\ driver = "run" /\ Continue(p) /\ proc[p].pc \in RunPCs
         /\ thread.next = "campaign_step"
         /\ \A q \in Procs \ {p} : proc[q].pc = "idle"
         /\ proc[p].pc = "finish" => proc[p].st.status \notin {"planned", "ready_to_resume"}
  <1>1. driver = "run" /\ Continue(p) /\ thread.next = "campaign_step"
    BY DEF StepRun, GInv, Driven
  <1>2. proc[p].pc # "idle"
    BY <1>1 DEF Continue, Verify, Announce, SaveRunning, StepObjective, FuzzingStop,
                LockoutPause, BudgetStop, BeginObjective, Selected, EvaluateAndExecute,
                WriteEvidence, RecordResult, PauseEvent, StepSave, StopEvent, StopSave,
                EndLoop, CompleteCampaign, FinalSave, ReviewCheck, ReviewEvent,
                ReviewSave, OperatorEvent, OperatorSave
  <1>. QED
    BY <1>1, <1>2, OthersAreIdle DEF GInv, Driven, Routed

\* The graph follows run_campaign to its exit.
LEMMA StepRunKeeps ==
  ASSUME IInv, SInv, GInv, NEW p \in Procs, StepRun(p)
  PROVE  GInv'
  <1>1. /\ driver = "run" /\ Continue(p) /\ proc[p].pc \in RunPCs
        /\ thread.next = "campaign_step"
        /\ \A q \in Procs \ {p} : proc[q].pc = "idle"
        /\ proc[p].pc = "finish" => proc[p].st.status \notin {"planned", "ready_to_resume"}
    BY RunsAlone
  <1>2. /\ UNCHANGED crashes
        /\ \A q \in Procs \ {p} : proc'[q] = proc[q]
        /\ \/ proc'[p].pc \in RunPCs \ {"finish"}
           \/ /\ proc'[p].pc = "finish"
              /\ proc'[p].st.status \notin {"planned", "ready_to_resume"}
           \/ /\ proc'[p].pc = "idle"
              /\ Verify(p) \/ FinalSave(p)
    BY <1>1, RunSteps
  <1>3. ckpt.status \in Halted => ckpt'.status \in Halted
    BY <1>1, HaltedStays DEF Next
  <1>4. CASE proc'[p].pc # "idle"
    <2>1. UNCHANGED <<driver, thread, saved, killed>>
      BY <1>4 DEF StepRun, graphVars
    <2>. QED
      BY <1>1, <1>2, <1>3, <1>4, <2>1 DEF GInv, Driven, Routed, Unbroken, RunPCs
  <1>5. CASE proc'[p].pc = "idle" /\ proc[p].pc = "verify"
    <2>1. /\ driver' = "idle" /\ thread' = NoThread /\ saved' = thread
          /\ UNCHANGED killed
      BY <1>5 DEF StepRun, Return
    <2>2. Verify(p) /\ ckpt' = ckpt
      BY <1>2, <1>5 DEF FinalSave, Verify, RunPCs
    <2>3. killed
      BY <1>5, <2>2, VerifyAccepts DEF GInv, Unbroken
    <2>. QED
      BY <1>1, <1>2, <1>5, <2>1, <2>2, <2>3
         DEF GInv, Driven, Routed, Unbroken, NoThread, Nodes
  <1>6. CASE proc'[p].pc = "idle" /\ proc[p].pc # "verify"
    <2>1. /\ driver' = "node" /\ thread'.next = RouteAfterStep(ckpt'.status)
          /\ UNCHANGED <<saved, killed>>
      BY <1>6 DEF StepRun, At
    <2>2. FinalSave(p)
      BY <1>2, <1>6 DEF Verify, RunPCs
    <2>3. ckpt'.status \in Halted \union {"running", "paused_for_human_review"}
      BY <1>1, <2>2, LastSaveStatus
    <2>. QED
      BY <1>1, <1>2, <1>3, <1>6, <2>1, <2>3
         DEF GInv, Driven, Routed, Unbroken, Quiet, RouteAfterStep, Nodes
  <1>. QED
    BY <1>4, <1>5, <1>6

\* Only a campaign that waits for a review is resumed.
LEMMA GraphResumeKeeps ==
  ASSUME IInv, GInv, NEW p \in Procs, GraphResume(p)
  PROVE  GInv'
  <1>1. /\ driver' = "review" /\ thread' = saved /\ saved.next = "human_review"
        /\ ckpt.status = "paused_for_human_review" /\ Quiet
        /\ UNCHANGED <<saved, killed, ckpt, log, crashes>>
        /\ proc'[p].pc = "review_check"
        /\ \A q \in Procs \ {p} : proc'[q] = proc[q]
    BY DEF GraphResume, ReviewLoad, Goto, IInv, TypeOK
  <1>. QED
    BY <1>1 DEF GInv, Driven, Routed, Unbroken, Quiet, Nodes

\* The graph follows a review to its save, or to the refusal of the decision.
LEMMA ReviewRunKeeps ==
  ASSUME IInv, SInv, GInv, NEW p \in Procs, ReviewRun(p)
  PROVE  GInv'
  <1>1. /\ driver = "review" /\ Continue(p) /\ thread.next = "human_review"
        /\ ckpt.status = "paused_for_human_review"
        /\ ReviewCheck(p) \/ ReviewEvent(p) \/ ReviewSave(p)
    <2>1. /\ driver = "review" /\ Continue(p) /\ thread.next = "human_review"
          /\ ckpt.status = "paused_for_human_review"
          /\ proc[p].pc \in {"idle", "review_check", "review_event", "review_save"}
      BY DEF ReviewRun, GInv, Driven
    <2>. QED
      BY <2>1 DEF Continue, Verify, Announce, SaveRunning, StepObjective, FuzzingStop,
                  LockoutPause, BudgetStop, BeginObjective, Selected, EvaluateAndExecute,
                  WriteEvidence, RecordResult, PauseEvent, StepSave, StopEvent, StopSave,
                  EndLoop, CompleteCampaign, FinalSave, OperatorEvent, OperatorSave
  <1>2. proc[p].pc \in {"review_check", "review_event", "review_save"}
    BY <1>1 DEF ReviewCheck, ReviewEvent, ReviewSave
  <1>3. \A q \in Procs \ {p} : proc[q].pc = "idle"
    BY <1>2, OthersAreIdle
  <1>4. proc \in [Procs -> Process]
    BY DEF IInv, TypeOK
  <1>5. CASE ReviewSave(p)
    <2>1. /\ proc[p].pc = "review_save" /\ Exit(p) /\ driver' = "node"
          /\ thread'.next = RouteAfterReview(ckpt'.status)
          /\ UNCHANGED <<saved, killed, crashes>>
          /\ ckpt' = Revised(proc[p].st)
      BY <1>5 DEF ReviewRun, ReviewSave, At
    <2>2. proc[p].st \in State /\ Answers(ckpt, proc[p].st)
      BY <2>1, InProgress DEF Ahead
    <2>3. ckpt'.status \in Stopped \union {"ready_to_resume"}
      BY <2>1, <2>2, RevisedFields DEF Answers
    <2>4. \A q \in Procs : proc'[q].pc = "idle"
      BY <1>3, <1>4, <2>1 DEF Exit, Idle
    <2>. QED
      BY <1>1, <2>1, <2>3, <2>4
         DEF GInv, Driven, Routed, Unbroken, Quiet, RouteAfterReview, Nodes
  <1>6. CASE ReviewCheck(p) \/ ReviewEvent(p)
    <2>1. /\ UNCHANGED <<ckpt, crashes>> /\ proc[p].pc # "review_save"
          /\ \A q \in Procs \ {p} : proc'[q] = proc[q]
          /\ proc'[p].pc \in {"idle", "review_event", "review_save"}
      BY <1>4, <1>6 DEF ReviewCheck, ReviewEvent, Exit, Idle, Goto, Process
    <2>2. CASE proc'[p].pc = "idle"
      <3>1. /\ driver' = "idle" /\ thread' = NoThread /\ saved' = thread
            /\ UNCHANGED killed
        BY <2>1, <2>2 DEF ReviewRun, Return
      <3>. QED
        BY <1>1, <1>3, <2>1, <2>2, <3>1
           DEF GInv, Driven, Routed, Unbroken, NoThread, Nodes
    <2>3. CASE proc'[p].pc # "idle"
      <3>1. UNCHANGED <<driver, thread, saved, killed>>
        BY <2>1, <2>3 DEF ReviewRun, graphVars
      <3>. QED
        BY <1>1, <1>3, <2>1, <2>3, <3>1 DEF GInv, Driven, Routed, Unbroken
    <2>. QED
      BY <2>2, <2>3
  <1>. QED
    BY <1>1, <1>5, <1>6

\* An operator's stop between two invocations halts the campaign.
LEMMA StopBetweenKeeps ==
  ASSUME IInv, SInv, GInv, NEW p \in Procs, StopBetween(p)
  PROVE  GInv'
  <1>1. /\ driver = "idle" /\ UNCHANGED <<driver, thread, saved, killed>>
        /\ proc \in [Procs -> Process]
    BY DEF StopBetween, graphVars, IInv, TypeOK
  <1>2. CASE Quiet /\ OperatorLoad(p)
    <2>1. /\ UNCHANGED <<ckpt, log, crashes>> /\ ckpt.status # "absent"
          /\ proc'[p].pc = "operator_event"
          /\ \A q \in Procs \ {p} : proc'[q] = proc[q]
      BY <1>1, <1>2 DEF OperatorLoad, Goto
    <2>. QED
      BY <1>1, <1>2, <2>1 DEF GInv, Driven, Routed, Unbroken, Quiet
  <1>3. CASE OperatorEvent(p)
    <2>1. /\ UNCHANGED <<ckpt, crashes>> /\ proc[p].pc = "operator_event"
          /\ proc'[p].pc = "operator_save"
          /\ \A q \in Procs \ {p} : proc'[q] = proc[q]
      BY <1>1, <1>3 DEF OperatorEvent, Goto
    <2>. QED
      BY <1>1, <2>1 DEF GInv, Driven, Routed, Unbroken, Quiet
  <1>4. CASE OperatorSave(p)
    <2>1. /\ UNCHANGED <<log, crashes>> /\ proc[p].pc = "operator_save"
          /\ proc'[p].pc = "idle"
          /\ \A q \in Procs \ {p} : proc'[q] = proc[q]
          /\ ckpt' = Revised(proc[p].st)
      BY <1>1, <1>4 DEF OperatorSave, Exit, Idle
    <2>2. proc[p].st \in State /\ OperatorStops(ckpt, proc[p].st)
      BY <2>1, InProgress DEF Ahead
    <2>3. ckpt'.status = "stopped_by_operator"
      BY <2>1, <2>2, RevisedFields DEF OperatorStops
    <2>. QED
      BY <1>1, <2>1, <2>3 DEF GInv, Driven, Routed, Unbroken, Quiet
  <1>. QED
    BY <1>2, <1>3, <1>4 DEF StopBetween

\* The invariant holds before the first invocation.
LEMMA GraphInitKeeps == GraphInit => GInv
  BY DEF GraphInit, Init, NoThread, Nodes, NoFile, InitialState, Idle, GInv, Driven,
         Routed, Unbroken, Quiet

(***************************************************************************)
(* The thread of the graph follows the campaign's checkpoint, whatever the *)
(* saver lags, the operator stops in between and the orchestrator's kill   *)
(* cuts short.                                                             *)
(***************************************************************************)
THEOREM GraphInvariant == ASSUME Exclusive PROVE GraphSpec => []GInv
  <1>1. ASSUME IInv, SInv, GInv, GraphNext PROVE GInv'
    BY <1>1, GraphStartKeeps, StepHaltedKeeps, StepRefusedKeeps, GraphReturnKeeps,
       PersistKeeps, DecideKeeps, GraphCrashKeeps, StepBeginKeeps, StepRunKeeps,
       GraphResumeKeeps, ReviewRunKeeps, StopBetweenKeeps
       DEF GraphNext, GraphContinue
  <1>2. ASSUME GInv, UNCHANGED <<vars, graphVars>> PROVE GInv'
    BY <1>2 DEF vars, graphVars, GInv, Driven, Routed, Unbroken, Quiet
  <1>. QED
    BY GraphInitKeeps, GraphImplementsEngine, InductiveInvariant, SerialInvariant,
       <1>1, <1>2, PTL DEF GraphSpec

(***************************************************************************)
(* The graph never settles on an end or a review that the checkpoint does  *)
(* not confirm.                                                            *)
(***************************************************************************)
THEOREM ThreadsFollow == ASSUME Exclusive PROVE GraphSpec => []ThreadFollowsCheckpoint
  <1>1. GInv => ThreadFollowsCheckpoint
    BY DEF GInv, Routed, Unbroken, ThreadFollowsCheckpoint
  <1>. QED
    BY <1>1, GraphInvariant, PTL

(***************************************************************************)
(* An orchestrator that was never killed can always start or resume a      *)
(* campaign that has not halted.                                           *)
(***************************************************************************)
THEOREM OnlyAKillStrands ==
  ASSUME Exclusive PROVE GraphSpec => []UninterruptedCampaignCanGoOn
  <1>1. GInv => UninterruptedCampaignCanGoOn
    BY DEF GInv, Driven, Routed, Unbroken, UninterruptedCampaignCanGoOn,
           GraphAccepts, Nodes
  <1>. QED
    BY <1>1, GraphInvariant, PTL

-----------------------------------------------------------------------------
(* The loop of the step node *)

\* A run with a cap of one objective, as it stands: before its loop it has run
\* none, and where it has not paused or stopped, the last line of the log is the
\* result of the iteration it used.
Stepping(r, lines) ==
  r.pc \in RunPCs =>
    /\ r.cap = 1
    /\ r.pc \in {"verify", "announce", "save_running"} => r.steps = 0
    /\ r.pc \in {"pause_event", "stop_save", "final_save"} => r.st.status # "running"
    /\ r.pc = "step_save" /\ r.st.status = "running" => ResultCloses(r.st, lines)
    /\ r.pc = "loop" /\ r.steps > 0 => ResultCloses(r.st, lines)
    /\ r.pc = "finish" /\ r.st.status = "running" /\ r.st.pending # {} =>
         ResultCloses(r.st, lines)

StepInv == driver = "run" => \A p \in Procs : Stepping(proc[p], log)

\* The graph starts each run with one objective to do.
LEMMA StepBeginCaps ==
  ASSUME IInv, GInv, NEW p \in Procs, StepBegin(p)
  PROVE  StepInv'
  <1>1. /\ proc'[p].pc \in {"announce", "verify"}
        /\ proc'[p].cap = 1 /\ proc'[p].steps = 0
        /\ \A q \in Procs \ {p} : proc'[q].pc = "idle"
    <2>1. /\ \A q \in Procs : proc[q].pc = "idle"
          /\ proc'[p].cap = 1
          /\ StartFresh(p) \/ LoadForRun(p)
          /\ proc \in [Procs -> Process]
      BY DEF StepBegin, Start, IInv, TypeOK, GInv, Driven, Quiet
    <2>2. CASE StartFresh(p)
      <3>1. PICK live \in LiveModes, cap \in StepCaps :
              proc' = [proc EXCEPT ![p] = [Idle EXCEPT !.pc = "announce",
                         !.st = InitialState("planned"), !.live = live, !.cap = cap]]
        BY <2>2, Zenon DEF StartFresh
      <3>. DEFINE r == [Idle EXCEPT !.pc = "announce", !.st = InitialState("planned"),
                                    !.live = live, !.cap = cap]
      <3>2. r.pc = "announce" /\ r.steps = 0
        BY DEF Idle
      <3>. HIDE DEF r
      <3>3. proc' = [proc EXCEPT ![p] = r]
        BY <3>1 DEF r
      <3>4. proc'[p] = r /\ \A q \in Procs \ {p} : proc'[q] = proc[q]
        BY <2>1, <3>3
      <3>. QED
        BY <2>1, <3>2, <3>4
    <2>3. CASE LoadForRun(p)
      <3>1. PICK live \in LiveModes, cap \in StepCaps :
              proc' = [proc EXCEPT ![p] = [Idle EXCEPT !.pc = "verify",
                         !.st = ckpt, !.live = live, !.cap = cap]]
        BY <2>3, Zenon DEF LoadForRun
      <3>. DEFINE r == [Idle EXCEPT !.pc = "verify", !.st = ckpt,
                                    !.live = live, !.cap = cap]
      <3>2. r.pc = "verify" /\ r.steps = 0
        BY DEF Idle
      <3>. HIDE DEF r
      <3>3. proc' = [proc EXCEPT ![p] = r]
        BY <3>1 DEF r
      <3>4. proc'[p] = r /\ \A q \in Procs \ {p} : proc'[q] = proc[q]
        BY <2>1, <3>3
      <3>. QED
        BY <2>1, <3>2, <3>4
    <2>. QED
      BY <2>1, <2>2, <2>3
  <1>. QED
    BY <1>1 DEF StepInv, Stepping, RunPCs

\* A step of run_campaign, seen through what Stepping says of it.
LEMMA RunKeepsStepping ==
  ASSUME IInv, SInv, NEW p \in Procs, proc[p].pc \in RunPCs, Continue(p),
         Stepping(proc[p], log)
  PROVE  Stepping(proc'[p], log')
  <1>. DEFINE Goal == Stepping(proc'[p], log')
  <1>. USE DEF RunPCs
  <1>0. /\ proc \in [Procs -> Process] /\ proc[p] \in Process
        /\ Ahead(proc[p], ckpt) /\ proc[p].st \in State /\ log \in Seq(LogLine)
    BY InProgress DEF IInv, TypeOK
  <1>1. CASE Verify(p)
    BY <1>0, <1>1 DEF Verify, Goto, Exit, Idle, Process, Stepping
  <1>2. CASE Announce(p)
    BY <1>0, <1>2 DEF Announce, Goto, Process, Stepping
  <1>3. CASE SaveRunning(p)
    BY <1>0, <1>3 DEF SaveRunning, Save, Goto, Process, Stepping
  <1>4. ASSUME NEW o \in Objectives, StepObjective(p, o) PROVE Goal
    <2>. DEFINE Taken == proc'[p].pc \in {"stop_event", "gate"}
                           /\ proc'[p].cap = proc[p].cap
    <2>1. ASSUME NEW reason, NEW verdict, StopWithManifest(p, o, reason, verdict)
          PROVE  Taken
      BY <1>0, <2>1 DEF StopWithManifest, Process
    <2>2. ASSUME BeginObjective(p, o) PROVE Taken
      <3>. DEFINE s == Revised([proc[p].st EXCEPT !.current = o])
      <3>1. proc' = [proc EXCEPT ![p].pc = "gate", ![p].st = s, ![p].obj = o]
        BY <2>2 DEF BeginObjective
      <3>. HIDE DEF s
      <3>2. proc'[p].pc = "gate" /\ proc'[p].cap = proc[p].cap
        BY <1>0, <3>1 DEF Process
      <3>. QED
        BY <3>2
    <2>. HIDE DEF Taken
    <2>3. FuzzingStop(p, o) \/ LockoutPause(p, o) => Taken
      BY <2>1 DEF FuzzingStop, LockoutPause
    <2>4. \A late \in BOOLEAN : BudgetStop(p, o, late) => Taken
      BY <2>1, Zenon DEF BudgetStop
    <2>5. Taken
      BY <1>4, <2>2, <2>3, <2>4 DEF StepObjective
    <2>. QED
      BY <2>5 DEF Taken, Stepping
  <1>5. ASSUME NEW answer \in {"allowed", "human", "denied"}, EvaluateAndExecute(p, answer)
        PROVE  Goal
    BY <1>0, <1>5 DEF EvaluateAndExecute, Process, Stepping
  <1>6. CASE WriteEvidence(p)
    BY <1>0, <1>6 DEF WriteEvidence, Goto, Process, Stepping
  <1>7. CASE RecordResult(p)
    <2>. DEFINE o == proc[p].obj
                old == proc[p].st
                s == Charged(p)
                settled ==
                  CASE proc[p].result = "human" -> Paused(s, o, "pre_execution")
                    [] proc[p].result = "denied" ->
                         [Stop(s, o) EXCEPT !.status = "stopped_by_policy"]
                    [] Outcome(p) = "MANUAL_REVIEW" /\ proc[p].result = "allowed" ->
                         Paused(s, o, "post_execution")
                    [] OTHER -> Complete(s, o)
                line == Event(old, "objective_result", o, old.next, Outcome(p))
    <2>1. /\ proc[p].pc = "result" /\ log' = Append(log, line)
          /\ proc' = [proc EXCEPT ![p].st = Noted(settled), ![p].steps = @ + 1,
                         ![p].pc = IF settled.review = "none" THEN "step_save"
                                   ELSE "pause_event"]
      BY <1>7 DEF RecordResult, Emit
    <2>2. line.type = "objective_result" /\ line.iter = old.next
      BY EventFields
    <2>3. /\ old \in State /\ old.status = "running" /\ old.review = "none"
          /\ o \in old.pending
      BY <2>1, InHandSerial
    <2>4. Spent(old, s) /\ o \in s.pending
      BY <2>3, ChargedIsSpent DEF Spent, Same
    <2>5. Settling(old, settled, o)
      <3>. HIDE DEF s, old, o
      <3>1. \A phase \in {"pre_execution", "post_execution"} :
              Settling(old, Paused(s, o, phase), o)
        BY <2>4, PausingSettles
      <3>2. Settling(old, [Stop(s, o) EXCEPT !.status = "stopped_by_policy"], o)
        BY <2>4, StoppingSettles DEF StoppedAs
      <3>3. Settling(old, Complete(s, o), o)
        BY <2>4, CompletingSettles
      <3>. QED
        BY <3>1, <3>2, <3>3
    <2>. HIDE DEF settled, line
    <2>6. /\ proc'[p].st = Noted(settled) /\ proc'[p].cap = proc[p].cap
          /\ proc'[p].pc = IF settled.review = "none" THEN "step_save" ELSE "pause_event"
      BY <1>0, <2>1 DEF Process
    <2>7. Noted(settled).next = old.next + 1 /\ Noted(settled).status = settled.status
      BY <1>0, <2>5, NotedFields DEF Settling
    <2>8. settled.review # "none" => settled.status # "running"
      BY <2>5 DEF Settling
    <2>9. log' # << >> /\ log'[Len(log')] = line
      BY <1>0, <2>1
    <2>10. ResultCloses(Noted(settled), log')
      BY <2>2, <2>3, <2>7, <2>9 DEF ResultCloses, State
    <2>. QED
      BY <1>0, <2>6, <2>7, <2>8, <2>10 DEF Stepping
  <1>8. CASE PauseEvent(p)
    <2>1. Noted(proc[p].st).status = proc[p].st.status
      BY <1>0 DEF Noted, State
    <2>. QED
      BY <1>0, <1>8, <2>1 DEF PauseEvent, Goto, Process, Stepping
  <1>9. CASE StepSave(p) \/ StopSave(p)
    <2>1. /\ Revised(proc[p].st).status = proc[p].st.status
          /\ Revised(proc[p].st).next = proc[p].st.next
      BY <1>0 DEF Revised, State
    <2>. QED
      BY <1>0, <1>9, <2>1 DEF StepSave, StopSave, Save, Goto, Process, Stepping, ResultCloses
  <1>10. CASE StopEvent(p)
    <2>. DEFINE o == proc[p].obj
                s == [proc[p].st EXCEPT !.next = @ + 1]
                paused == Noted(Paused(s, o, "pre_execution"))
                condition == Noted([Stop(s, o) EXCEPT !.status = "stopped_by_condition"])
                operator == Noted([Stop(s, o) EXCEPT !.status = "stopped_by_operator"])
                budget == Noted([Stop(s, o) EXCEPT !.status = "stopped_by_budget"])
    <2>1. /\ paused.status = "paused_for_human_review"
          /\ condition.status = "stopped_by_condition"
          /\ operator.status = "stopped_by_operator"
          /\ budget.status = "stopped_by_budget"
      BY <1>0, Zenon DEF Noted, Paused, Stop, State
    <2>2. \/ Goto(p, "stop_save", paused) \/ Goto(p, "stop_save", condition)
          \/ Goto(p, "finish", operator) \/ Goto(p, "finish", budget)
      BY <1>10 DEF StopEvent
    <2>. HIDE DEF paused, condition, operator, budget
    <2>3. /\ proc'[p].pc \in {"stop_save", "finish"} /\ proc'[p].cap = proc[p].cap
          /\ proc'[p].st.status # "running"
      BY <1>0, <2>1, <2>2 DEF Goto, Process
    <2>. QED
      BY <1>0, <2>3 DEF Stepping
  <1>11. CASE EndLoop(p)
    BY <1>0, <1>11 DEF EndLoop, CapReached, Goto, Process, Stepping
  <1>12. CASE CompleteCampaign(p)
    BY <1>0, <1>12 DEF CompleteCampaign, Goto, Process, Stepping, Noted, State
  <1>13. CASE FinalSave(p)
    BY <1>0, <1>13 DEF FinalSave, Exit, Idle, Stepping
  <1>14. ~(ReviewCheck(p) \/ ReviewEvent(p) \/ ReviewSave(p) \/ OperatorEvent(p)
            \/ OperatorSave(p))
    BY DEF ReviewCheck, ReviewEvent, ReviewSave, OperatorEvent, OperatorSave
  <1>. QED
    BY <1>1, <1>2, <1>3, <1>4, <1>5, <1>6, <1>7, <1>8, <1>9, <1>10, <1>11, <1>12, <1>13,
       <1>14 DEF Continue

\* What the graph, its saver and the operator do besides leaves the run alone.
LEMMA StepInvKept ==
  ASSUME IInv, SInv, GInv, StepInv, GraphNext
  PROVE  StepInv'
  <1>1. CASE driver' # "run"
    BY <1>1 DEF StepInv
  <1>2. ASSUME NEW p \in Procs, StepBegin(p) PROVE StepInv'
    BY <1>2, StepBeginCaps
  <1>3. ASSUME NEW p \in Procs, StepRun(p) PROVE StepInv'
    <2>1. /\ driver = "run" /\ Continue(p) /\ proc[p].pc \in RunPCs
          /\ \A q \in Procs \ {p} : proc[q].pc = "idle"
          /\ proc[p].pc = "finish" => proc[p].st.status \notin {"planned", "ready_to_resume"}
      BY <1>3, RunsAlone
    <2>2. Stepping(proc'[p], log')
      BY <2>1, RunKeepsStepping DEF StepInv
    <2>3. \A q \in Procs \ {p} : proc'[q].pc = "idle"
      BY <2>1, RunSteps
    <2>. QED
      BY <2>2, <2>3 DEF StepInv, Stepping, RunPCs
  <1>4. CASE driver' = "run" /\ \A p \in Procs : ~StepBegin(p) /\ ~StepRun(p)
    <2>1. UNCHANGED <<driver, proc, log>>
      BY <1>4 DEF GraphNext, GraphContinue, GraphStart, StepHalted, StepRefused,
                  GraphReturn, Return, ReviewRun, Persist, Decide, WriteDecision,
                  GraphCrash, GraphResume, StopBetween, graphVars, vars
    <2>. QED
      BY <1>4, <2>1 DEF StepInv
  <1>. QED
    BY <1>1, <1>2, <1>3, <1>4

\* A run that ends with the campaign still running has just spent an iteration.
LEMMA RepeatsOnResults ==
  ASSUME IInv, SInv, GInv, StepInv, GraphNext,
         driver = "run", driver' = "node", thread'.next = "campaign_step"
  PROVE  ResultCloses(ckpt', log')
  <1>1. PICK p \in Procs : StepRun(p)
    BY DEF GraphNext, GraphContinue, GraphStart, StepHalted, StepRefused, StepBegin,
           GraphReturn, Return, ReviewRun, Persist, Decide, GraphCrash, GraphResume,
           StopBetween, graphVars
  <1>2. /\ Continue(p) /\ proc[p].pc \in RunPCs
        /\ proc[p].pc = "finish" => proc[p].st.status \notin {"planned", "ready_to_resume"}
    BY <1>1, RunsAlone
  <1>3. /\ proc'[p].pc = "idle" /\ proc[p].pc # "verify"
        /\ thread'.next = RouteAfterStep(ckpt'.status)
    BY <1>1 DEF StepRun, graphVars, Return, At
  <1>4. FinalSave(p)
    BY <1>2, <1>3, RunSteps DEF Verify, RunPCs
  <1>5. ckpt'.status = "running"
    BY <1>3 DEF RouteAfterStep
  <1>6. /\ ckpt' = Revised(proc[p].st) /\ log' = log /\ proc[p].st \in State
        /\ \/ proc[p].pc = "final_save"
           \/ proc[p].pc = "finish" /\ ~AllDone(proc[p].st)
    BY <1>2, <1>4, InProgress DEF FinalSave, RunPCs
  <1>7. ckpt'.status = proc[p].st.status /\ ckpt'.next = proc[p].st.next
    BY <1>6, RevisedFields
  <1>8. ResultCloses(proc[p].st, log)
    BY <1>2, <1>5, <1>6, <1>7 DEF StepInv, Stepping, AllDone
  <1>. QED
    BY <1>6, <1>7, <1>8 DEF ResultCloses

(***************************************************************************)
(* The step node comes back to itself only after an iteration was spent on *)
(* a result, also in a campaign whose orchestrator was killed and started  *)
(* again: IterationLimitIsHard then bounds how often it does.              *)
(***************************************************************************)
THEOREM LoopSpendsIterations ==
  ASSUME Exclusive PROVE GraphSpec => StepNodeRepeatsOnResults
  <1>1. GraphInit => StepInv
    BY DEF GraphInit, StepInv
  <1>2. IInv /\ SInv /\ GInv /\ StepInv /\ [GraphNext]_<<vars, graphVars>> => StepInv'
    <2>1. StepInv /\ UNCHANGED <<vars, graphVars>> => StepInv'
      BY DEF vars, graphVars, StepInv
    <2>. QED
      BY <2>1, StepInvKept
  <1>3. /\ IInv /\ SInv /\ GInv /\ StepInv /\ [GraphNext]_<<vars, graphVars>>
        => [driver = "run" /\ driver' = "node" /\ thread'.next = "campaign_step" =>
              ResultCloses(ckpt', log')]_<<driver, thread>>
    <2>1. UNCHANGED <<vars, graphVars>> => UNCHANGED <<driver, thread>>
      BY DEF graphVars
    <2>. QED
      BY <2>1, RepeatsOnResults
  <1>. QED
    BY GraphImplementsEngine, InductiveInvariant, SerialInvariant, GraphInvariant,
       <1>1, <1>2, <1>3, PTL DEF GraphSpec, StepNodeRepeatsOnResults

=============================================================================
