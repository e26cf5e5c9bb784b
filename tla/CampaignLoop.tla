---------------------------- MODULE CampaignLoop ----------------------------
(***************************************************************************)
(* The checkpointed campaign engine: run_campaign (campaign_loop.py), the  *)
(* review and operator-stop controls (campaign_control.py), the checkpoint *)
(* file (campaign_state.py) and the hash-chained event log                 *)
(* (campaign_events.py).                                                   *)
(*                                                                         *)
(* Each invocation of a command is a process with a private copy of the    *)
(* CampaignState.  The processes share only files: the checkpoint, the     *)
(* event log, the evidence directories and the operator's review decision. *)
(* One action is the code between two effects on those files, so every     *)
(* crash point and every interleaving of two commands is a behaviour.      *)
(***************************************************************************)
EXTENDS Integers, Sequences, FiniteSets, SafetyBudget

CONSTANTS
  Objectives,    \* the objective ids of the campaign definition
  NoObjective,   \* Python's None as an objective id
  Rank,          \* position of each objective in scheduler.schedule()
  Kinds,         \* the kinds of objective this instance explores
  Procs,         \* command invocations that may be in progress at once
  Exclusive,     \* TRUE: operators never overlap two commands
  LiveModes,     \* values of run_campaign's `live` flag to explore
  StepCaps,      \* values of max_steps to explore, 0 for None
  MaxCrashes     \* bound on the number of crashes

ObjectiveKinds ==
  {"plain",           \* the policy gate allows it
   "needs_approval",  \* requires_human_approval
   "denied",          \* the policy gate denies it for another reason
   "lockout",         \* panel_lockout_risk_detected
   "fuzz_stop",       \* collect_fuzzing_stop_signals is not empty
   "over_budget"}     \* its request_budget exceeds the request limit

ASSUME CampaignAssumption ==
  /\ NoObjective \notin Objectives
  /\ Rank \in [Objectives -> Nat]
  /\ \A o1, o2 \in Objectives : Rank[o1] = Rank[o2] => o1 = o2
  /\ Kinds \subseteq ObjectiveKinds
  /\ Exclusive \in BOOLEAN
  /\ LiveModes \subseteq BOOLEAN
  /\ StepCaps \subseteq Nat
  /\ MaxCrashes \in Nat

VARIABLES
  kind,      \* kind[o], fixed by the campaign definition
  ckpt,      \* the checkpoint file; status "absent" when it does not exist
  log,       \* the lines of the event log
  evidence,  \* evidence[i], the manifest in the directory of iteration i
  decision,  \* the operator's review decision file
  proc,      \* proc[p], a command in progress or Idle
  executed,  \* executed[o], how often the adapter of o ran (history)
  crashes    \* number of crashes so far

vars == <<kind, ckpt, log, evidence, decision, proc, executed, crashes>>

-----------------------------------------------------------------------------
(* Campaign state *)

Runnable_StoppedToo == {"planned", "running", "ready_to_resume", "stopped_by_budget"}
Runnable_NotReady == {"planned", "running"}
Runnable == {"planned", "running", "ready_to_resume"}
Stopped  == {"stopped_by_policy", "stopped_by_operator",
             "stopped_by_budget", "stopped_by_condition"}
Halted   == Stopped \union {"completed"}
Statuses == Runnable \union Halted \union {"paused_for_human_review", "absent"}
Phases   == {"none", "pre_execution", "post_execution"}

State ==
  [status: Statuses, next: Nat \ {0}, current: Objectives \union {NoObjective},
   review: Phases, reviewed: SUBSET Objectives, completed: SUBSET Objectives,
   pending: SUBSET Objectives, stopped: SUBSET Objectives,
   requests: Nat, minute: Nat, failures: Nat, operatorStop: BOOLEAN,
   events: Nat, lastEvent: Nat, rev: Nat]

InitialState(status) ==
  [status |-> status, next |-> 1, current |-> NoObjective, review |-> "none",
   reviewed |-> {}, completed |-> {}, pending |-> Objectives, stopped |-> {},
   requests |-> 0, minute |-> 0, failures |-> 0, operatorStop |-> FALSE,
   events |-> 0, lastEvent |-> 0, rev |-> 0]

NoFile == InitialState("absent")

\* What save_state and load_state insist on.  The lists of the code are sets
\* here: a duplicate could only come from appending what was not removed
\* from another list, which Disjoint excludes.
Disjoint(s) ==
  /\ s.completed \intersect s.pending = {}
  /\ s.completed \intersect s.stopped = {}
  /\ s.pending \intersect s.stopped = {}

ValidState(s) ==
  /\ Disjoint(s)
  /\ s.status = "completed" =>
       /\ s.pending = {} /\ s.stopped = {}
       /\ s.current = NoObjective /\ s.review = "none"
  /\ s.status = "paused_for_human_review" =>
       s.current # NoObjective /\ s.review # "none"
  /\ s.status # "paused_for_human_review" => s.review = "none"

-----------------------------------------------------------------------------
(* The event log.  A hash is abstracted to the number of the line that     *)
(* carries it: every event has a fresh event_id, so no two lines have the  *)
(* same hash.  0 stands for "no previous hash".                            *)

EventTypes == {"campaign_started", "campaign_resumed", "objective_result",
               "campaign_paused", "campaign_stop", "review_decision",
               "operator_stop", "campaign_completed"}

Event(s, type, obj, iter, outcome) ==
  [seq |-> s.events + 1, prev |-> s.lastEvent,
   type |-> type, obj |-> obj, iter |-> iter, outcome |-> outcome]

\* append_campaign_event writes the line, then updates the state in memory.
Emit(s, type, obj, iter, outcome) ==
  log' = Append(log, Event(s, type, obj, iter, outcome))

Noted(s) == [s EXCEPT !.events = s.events + 1, !.lastEvent = Len(log) + 1]

ChainIntact ==
  /\ log # << >>
  /\ \A i \in 1 .. Len(log) : log[i].seq = i /\ log[i].prev = i - 1

EventLogMatches(s) ==
  /\ ChainIntact
  /\ s.lastEvent = Len(log)
  /\ s.events = Len(log)

-----------------------------------------------------------------------------
(* Processes *)

RunPCs == {"verify", "announce", "save_running", "loop", "gate", "manifest",
           "result", "pause_event", "step_save",
           "stop_event", "stop_save", "finish", "final_save"}
PCs == RunPCs \union {"idle", "review_check", "review_event", "review_save",
                      "operator_event", "operator_save"}

Results == {"none", "allowed", "human", "denied",
            "approved", "stop", "fuzz_stop", "lockout", "operator_stop"}
           \union Reasons

Process == [pc: PCs, st: State, obj: Objectives \union {NoObjective},
            result: Results, live: BOOLEAN, cap: Nat, steps: Nat]

Idle == [pc |-> "idle", st |-> NoFile, obj |-> NoObjective, result |-> "none",
         live |-> FALSE, cap |-> 0, steps |-> 0]

Launch(p) ==
  /\ proc[p].pc = "idle"
  /\ Exclusive => \A q \in Procs : proc[q].pc = "idle"

Goto(p, pc, s) == proc' = [proc EXCEPT ![p].pc = pc, ![p].st = s]
Exit(p) == proc' = [proc EXCEPT ![p] = Idle]

\* save_state: the temporary file replaces the checkpoint atomically.
Revised(s) == [s EXCEPT !.rev = s.rev + 1]
Save(p, s, pc) ==
  /\ ckpt' = Revised(s)
  /\ Goto(p, pc, Revised(s))

Put(f, k, v) == [x \in DOMAIN f \union {k} |-> IF x = k THEN v ELSE f[x]]

WriteManifest_NextDirectory(iter, o, verdict) ==
  evidence' = Put(evidence, iter + 1, [obj |-> o, verdict |-> verdict])
WriteManifest(iter, o, verdict) ==
  evidence' = Put(evidence, iter, [obj |-> o, verdict |-> verdict])

Stop(s, o) == [s EXCEPT !.pending = s.pending \ {o},
                        !.stopped = s.stopped \union {o},
                        !.current = NoObjective]
Complete_KeepsPending(s, o) == [s EXCEPT !.completed = s.completed \union {o},
                                         !.current = NoObjective]
Complete_Replaces(s, o) == [s EXCEPT !.pending = s.pending \ {o},
                                     !.completed = {o},
                                     !.current = NoObjective]
Complete(s, o) == [s EXCEPT !.pending = s.pending \ {o},
                            !.completed = s.completed \union {o},
                            !.current = NoObjective]

-----------------------------------------------------------------------------
(* run_campaign: entry *)

\* campaign-run, or the first graph step: no checkpoint and no event log yet.
StartFresh(p) ==
  /\ Launch(p)
  /\ ckpt.status = "absent"
  /\ log = << >>
  /\ \E live \in LiveModes, cap \in StepCaps :
       proc' = [proc EXCEPT ![p] = [Idle EXCEPT !.pc = "announce",
                  !.st = InitialState("planned"), !.live = live, !.cap = cap]]
  /\ UNCHANGED <<kind, ckpt, log, evidence, decision, executed, crashes>>

\* A caller that loads the checkpoint and hands it to run_campaign.
LoadForRun(p) ==
  /\ Launch(p)
  /\ ckpt.status \in Runnable
  /\ \E live \in LiveModes, cap \in StepCaps :
       proc' = [proc EXCEPT ![p] = [Idle EXCEPT !.pc = "verify",
                  !.st = ckpt, !.live = live, !.cap = cap]]
  /\ UNCHANGED <<kind, ckpt, log, evidence, decision, executed, crashes>>

\* The event log must carry exactly the events of the state in hand.
Verify_IgnoresLog(p) ==
  /\ proc[p].pc = "verify"
  /\ Goto(p, IF proc[p].st.status = "ready_to_resume" THEN "announce"
             ELSE "save_running", proc[p].st)
  /\ UNCHANGED <<kind, ckpt, log, evidence, decision, executed, crashes>>
Verify(p) ==
  /\ proc[p].pc = "verify"
  /\ LET s == proc[p].st IN
       IF s.status \in Runnable /\ EventLogMatches(s)
         THEN Goto(p, IF s.status = "ready_to_resume" THEN "announce"
                      ELSE "save_running", s)
         ELSE Exit(p)
  /\ UNCHANGED <<kind, ckpt, log, evidence, decision, executed, crashes>>

Announce(p) ==
  LET s == proc[p].st
      type == IF s.events = 0 THEN "campaign_started" ELSE "campaign_resumed"
      outcome == IF s.events = 0 THEN "planned" ELSE "running"
  IN
  /\ proc[p].pc = "announce"
  /\ Emit(s, type, NoObjective, 0, outcome)
  /\ Goto(p, "save_running", Noted(s))
  /\ UNCHANGED <<kind, ckpt, evidence, decision, executed, crashes>>

SaveRunning(p) ==
  /\ proc[p].pc = "save_running"
  /\ Save(p, [proc[p].st EXCEPT !.status = "running"], "loop")
  /\ UNCHANGED <<kind, log, evidence, decision, executed, crashes>>

-----------------------------------------------------------------------------
(* run_campaign: one objective *)

CapReached_OneEarly(p) == proc[p].cap # 0 /\ proc[p].steps + 1 >= proc[p].cap
CapReached(p) == proc[p].cap # 0 /\ proc[p].steps >= proc[p].cap

\* The loop walks the schedule and skips what is no longer pending.
IsNext_AnyOrder(s, o) == o \in s.pending
IsNext(s, o) ==
  /\ o \in s.pending
  /\ \A other \in s.pending : Rank[o] <= Rank[other]

Selected(p, o) ==
  /\ proc[p].pc = "loop"
  /\ ~CapReached(p)
  /\ IsNext(proc[p].st, o)

LockoutUnreviewed(s, o) == kind[o] = "lockout" /\ o \notin s.reviewed

ProposedRequests(o) == IF kind[o] = "over_budget" THEN MaxRequests + 1 ELSE 1

BudgetOf(s) == [iterations |-> s.next - 1, requests |-> s.requests,
                minute |-> s.minute, failures |-> s.failures]

StopReason(s, o, late) ==
  IF s.operatorStop THEN "operator_stop"
  ELSE DenialReason(BudgetOf(s), late, ProposedRequests(o))

\* A stop before execution starts with its manifest.
StopWithManifest(p, o, reason, verdict) ==
  /\ WriteManifest(proc[p].st.next, o, verdict)
  /\ proc' = [proc EXCEPT ![p].pc = "stop_event", ![p].obj = o,
                          ![p].result = reason]
  /\ UNCHANGED <<kind, ckpt, log, decision, executed, crashes>>

FuzzingStop(p, o) ==
  /\ Selected(p, o)
  /\ kind[o] = "fuzz_stop"
  /\ StopWithManifest(p, o, "fuzz_stop", "STOPPED_BY_POLICY")

LockoutPause(p, o) ==
  /\ Selected(p, o)
  /\ LockoutUnreviewed(proc[p].st, o)
  /\ StopWithManifest(p, o, "lockout", "MANUAL_REVIEW")

\* The clock may have passed max_runtime_seconds at any check.
BudgetStop(p, o, late) ==
  LET reason == StopReason(proc[p].st, o, late) IN
  /\ Selected(p, o)
  /\ kind[o] # "fuzz_stop"
  /\ ~LockoutUnreviewed(proc[p].st, o)
  /\ reason # "none"
  /\ StopWithManifest(p, o, reason, "STOPPED_BY_POLICY")

BeginObjective(p, o) ==
  /\ Selected(p, o)
  /\ kind[o] # "fuzz_stop"
  /\ ~LockoutUnreviewed(proc[p].st, o)
  /\ StopReason(proc[p].st, o, FALSE) = "none"
  /\ LET s == Revised([proc[p].st EXCEPT !.current = o]) IN
       /\ ckpt' = s
       /\ proc' = [proc EXCEPT ![p].pc = "gate", ![p].st = s, ![p].obj = o]
  /\ UNCHANGED <<kind, log, evidence, decision, executed, crashes>>

\* What policy_gate.evaluate can answer.  A dry run's answer is fixed by the
\* hashed scope and campaign; a live run also depends on approvals and time
\* windows, which the environment decides, and skips the human gate.
GateAnswers_NoHumanGate(s, o, live) ==
  IF kind[o] = "denied" THEN {"denied"}
  ELSE IF live THEN {"allowed", "denied"}
  ELSE {"allowed"}
GateAnswers(s, o, live) ==
  IF kind[o] = "denied" THEN {"denied"}
  ELSE IF live THEN {"allowed", "denied"}
  ELSE IF kind[o] = "needs_approval" /\ o \notin s.reviewed THEN {"human"}
  ELSE {"allowed"}

\* The gate is evaluated immediately before the adapter runs.
EvaluateAndExecute(p, answer) ==
  LET o == proc[p].obj IN
  /\ proc[p].pc = "gate"
  /\ answer \in GateAnswers(proc[p].st, o, proc[p].live)
  /\ proc' = [proc EXCEPT ![p].pc = "manifest", ![p].result = answer]
  /\ executed' = [executed EXCEPT ![o] =
                    IF answer = "allowed" THEN executed[o] + 1 ELSE executed[o]]
  /\ UNCHANGED <<kind, ckpt, log, evidence, decision, crashes>>

Outcome(p) ==
  CASE proc[p].result = "human" -> "MANUAL_REVIEW"
    [] proc[p].result = "allowed" /\ proc[p].live -> "MANUAL_REVIEW"
    [] proc[p].result = "allowed" /\ ~proc[p].live -> "INCONCLUSIVE"
    [] OTHER -> "STOPPED_BY_POLICY"

WriteEvidence_Skipped(p) ==
  /\ proc[p].pc = "manifest"
  /\ Goto(p, "result", proc[p].st)
  /\ UNCHANGED <<kind, ckpt, log, evidence, decision, executed, crashes>>
WriteEvidence(p) ==
  /\ proc[p].pc = "manifest"
  /\ WriteManifest(proc[p].st.next, proc[p].obj, Outcome(p))
  /\ Goto(p, "result", proc[p].st)
  /\ UNCHANGED <<kind, ckpt, log, decision, executed, crashes>>

\* Executors report no requests: nothing leaves the process.
Charged_SameIteration(p) ==
  [proc[p].st EXCEPT !.failures =
     IF Outcome(p) = "STOPPED_BY_POLICY" THEN @ + 1 ELSE 0]
Charged(p) ==
  LET s == proc[p].st
      b == Record(BudgetOf(s), 0, Outcome(p) = "STOPPED_BY_POLICY")
  IN [s EXCEPT !.next = s.next + 1, !.requests = b.requests,
               !.minute = b.minute, !.failures = b.failures]

Paused_WithoutCurrent(s, o, phase) ==
  [s EXCEPT !.status = "paused_for_human_review", !.review = phase]
Paused(s, o, phase) == [s EXCEPT !.status = "paused_for_human_review",
                                 !.current = o, !.review = phase]

\* The disposition of the objective follows its objective_result event.
RecordResult(p) ==
  LET o == proc[p].obj
      s == Charged(p)
      settled ==
        CASE proc[p].result = "human" -> Paused(s, o, "pre_execution")
          [] proc[p].result = "denied" ->
               [Stop(s, o) EXCEPT !.status = "stopped_by_policy"]
          [] Outcome(p) = "MANUAL_REVIEW" /\ proc[p].result = "allowed" ->
               Paused(s, o, "post_execution")
          [] OTHER -> Complete(s, o)
  IN
  /\ proc[p].pc = "result"
  /\ Emit(proc[p].st, "objective_result", o, proc[p].st.next, Outcome(p))
  /\ proc' = [proc EXCEPT ![p].st = Noted(settled), ![p].steps = @ + 1,
                ![p].pc = IF settled.review = "none" THEN "step_save"
                          ELSE "pause_event"]
  /\ UNCHANGED <<kind, ckpt, evidence, decision, executed, crashes>>

PauseEvent(p) ==
  LET s == proc[p].st IN
  /\ proc[p].pc = "pause_event"
  /\ Emit(s, "campaign_paused", s.current, s.next - 1, "paused_for_human_review")
  /\ Goto(p, "step_save", Noted(s))
  /\ UNCHANGED <<kind, ckpt, evidence, decision, executed, crashes>>

StepSave(p) ==
  /\ proc[p].pc = "step_save"
  /\ Save(p, proc[p].st,
          IF proc[p].st.status = "running" THEN "loop" ELSE "finish")
  /\ UNCHANGED <<kind, log, evidence, decision, executed, crashes>>

\* The events of _record_fuzzing_condition_stop, _record_panel_lockout_pause
\* and _record_pre_execution_stop; only the last leaves the checkpoint to the
\* end of run_campaign.
StopEvent(p) ==
  LET o == proc[p].obj
      s == [proc[p].st EXCEPT !.next = @ + 1]
      why == proc[p].result
      after ==
        CASE why = "lockout" -> Paused(s, o, "pre_execution")
          [] why = "fuzz_stop" ->
               [Stop(s, o) EXCEPT !.status = "stopped_by_condition"]
          [] why = "operator_stop" ->
               [Stop(s, o) EXCEPT !.status = "stopped_by_operator"]
          [] OTHER -> [Stop(s, o) EXCEPT !.status = "stopped_by_budget"]
  IN
  /\ proc[p].pc = "stop_event"
  /\ Emit(proc[p].st,
          IF why = "lockout" THEN "campaign_paused" ELSE "campaign_stop",
          o, proc[p].st.next,
          IF why \in {"lockout", "fuzz_stop"} THEN after.status
          ELSE "STOPPED_BY_POLICY")
  /\ Goto(p, IF why \in {"lockout", "fuzz_stop"} THEN "stop_save" ELSE "finish",
          Noted(after))
  /\ UNCHANGED <<kind, ckpt, evidence, decision, executed, crashes>>

StopSave(p) ==
  /\ proc[p].pc = "stop_save"
  /\ Save(p, proc[p].st, "finish")
  /\ UNCHANGED <<kind, log, evidence, decision, executed, crashes>>

-----------------------------------------------------------------------------
(* run_campaign: exit *)

EndLoop(p) ==
  /\ proc[p].pc = "loop"
  /\ CapReached(p) \/ proc[p].st.pending = {}
  /\ Goto(p, "finish", proc[p].st)
  /\ UNCHANGED <<kind, ckpt, log, evidence, decision, executed, crashes>>

AllDone(s) == s.status = "running" /\ s.pending = {}

CompleteCampaign(p) ==
  LET s == [proc[p].st EXCEPT !.status = "completed", !.current = NoObjective] IN
  /\ proc[p].pc = "finish"
  /\ AllDone(proc[p].st)
  /\ Emit(s, "campaign_completed", NoObjective, 0, "completed")
  /\ Goto(p, "final_save", Noted(s))
  /\ UNCHANGED <<kind, ckpt, evidence, decision, executed, crashes>>

FinalSave_NotWritten(p) ==
  /\ \/ proc[p].pc = "final_save"
     \/ proc[p].pc = "finish" /\ ~AllDone(proc[p].st)
  /\ Exit(p)
  /\ UNCHANGED <<kind, ckpt, log, evidence, decision, executed, crashes>>
FinalSave(p) ==
  /\ \/ proc[p].pc = "final_save"
     \/ proc[p].pc = "finish" /\ ~AllDone(proc[p].st)
  /\ ckpt' = Revised(proc[p].st)
  /\ Exit(p)
  /\ UNCHANGED <<kind, log, evidence, decision, executed, crashes>>

-----------------------------------------------------------------------------
(* apply_review_decision and request_operator_stop *)

ReviewVerdicts == {"approved", "denied", "stop"}
NoDecision == [digest |-> NoFile, verdict |-> "none"]

\* The operator writes a decision file for the checkpoint on disk, naming its
\* SHA256 (the digest is the content it hashes) and its current objective.
WriteDecision(verdict) ==
  /\ ckpt.status = "paused_for_human_review"
  /\ decision.digest # ckpt
  /\ decision' = [digest |-> ckpt, verdict |-> verdict]
  /\ UNCHANGED <<kind, ckpt, log, evidence, proc, executed, crashes>>

ReviewLoad(p) ==
  /\ Launch(p)
  /\ decision # NoDecision
  /\ ckpt.status = "paused_for_human_review"
  /\ Goto(p, "review_check", ckpt)
  /\ UNCHANGED <<kind, ckpt, log, evidence, decision, executed, crashes>>

\* The SHA256 is that of the file now, not of the state loaded before.
ReviewCheck_AnyCheckpoint(p) ==
  /\ proc[p].pc = "review_check"
  /\ IF EventLogMatches(proc[p].st)
       THEN proc' = [proc EXCEPT ![p].pc = "review_event",
                                 ![p].result = decision.verdict]
       ELSE Exit(p)
  /\ UNCHANGED <<kind, ckpt, log, evidence, decision, executed, crashes>>
ReviewCheck(p) ==
  /\ proc[p].pc = "review_check"
  /\ IF /\ EventLogMatches(proc[p].st)
        /\ decision.digest = ckpt
        /\ decision.digest.current = proc[p].st.current
       THEN proc' = [proc EXCEPT ![p].pc = "review_event",
                                 ![p].result = decision.verdict]
       ELSE Exit(p)
  /\ UNCHANGED <<kind, ckpt, log, evidence, decision, executed, crashes>>

ReviewEvent(p) ==
  LET o == proc[p].st.current
      phase == proc[p].st.review
      verdict == proc[p].result
      s == [proc[p].st EXCEPT !.review = "none"]
      after ==
        CASE verdict = "approved" /\ phase = "pre_execution" ->
               [s EXCEPT !.reviewed = @ \union {o}, !.current = NoObjective,
                         !.status = "ready_to_resume"]
          [] verdict = "approved" /\ phase # "pre_execution" ->
               [Complete(s, o) EXCEPT !.status = "ready_to_resume"]
          [] verdict = "denied" ->
               [Stop(s, o) EXCEPT !.status = "stopped_by_condition"]
          [] OTHER ->
               [Stop(s, o) EXCEPT !.status = "stopped_by_operator",
                                  !.operatorStop = TRUE]
  IN
  /\ proc[p].pc = "review_event"
  /\ Emit(s, "review_decision", o, s.next - 1, verdict)
  /\ Goto(p, "review_save", Noted(after))
  /\ UNCHANGED <<kind, ckpt, evidence, decision, executed, crashes>>

\* campaign-resume goes on to run_campaign with the state it holds; the graph
\* loads the checkpoint again in its next step.
ReviewSave(p) ==
  LET s == Revised(proc[p].st) IN
  /\ proc[p].pc = "review_save"
  /\ ckpt' = s
  /\ \/ Exit(p)
     \/ /\ s.status = "ready_to_resume"
        /\ \E live \in LiveModes :
             proc' = [proc EXCEPT ![p] = [Idle EXCEPT !.pc = "verify",
                                             !.st = s, !.live = live]]
  /\ UNCHANGED <<kind, log, evidence, decision, executed, crashes>>

OperatorLoad(p) ==
  /\ Launch(p)
  /\ ckpt.status \notin {"absent", "completed", "stopped_by_operator"}
  /\ Goto(p, "operator_event", ckpt)
  /\ UNCHANGED <<kind, ckpt, log, evidence, decision, executed, crashes>>

\* The event log is not verified first, and the objective is cleared from the
\* state before the event that should name it is built.
OperatorEvent(p) ==
  LET old == proc[p].st
      o == old.current
      s == [old EXCEPT !.operatorStop = TRUE, !.review = "none",
              !.current = NoObjective, !.status = "stopped_by_operator",
              !.pending = IF o = NoObjective THEN @ ELSE @ \ {o},
              !.stopped = IF o = NoObjective THEN @ ELSE @ \union {o}]
  IN
  /\ proc[p].pc = "operator_event"
  /\ Emit(s, "operator_stop", s.current, 0, "stopped_by_operator")
  /\ Goto(p, "operator_save", Noted(s))
  /\ UNCHANGED <<kind, ckpt, evidence, decision, executed, crashes>>

OperatorSave(p) ==
  /\ proc[p].pc = "operator_save"
  /\ ckpt' = Revised(proc[p].st)
  /\ Exit(p)
  /\ UNCHANGED <<kind, log, evidence, decision, executed, crashes>>

\* The process is killed, or an exception leaves the command: what it held in
\* memory is gone, the files stay as they are.
Crash(p) ==
  /\ proc[p].pc # "idle"
  /\ crashes < MaxCrashes
  /\ crashes' = crashes + 1
  /\ Exit(p)
  /\ UNCHANGED <<kind, ckpt, log, evidence, decision, executed>>

-----------------------------------------------------------------------------

Init ==
  /\ kind \in [Objectives -> Kinds]
  /\ ckpt = NoFile
  /\ log = << >>
  /\ evidence = << >>
  /\ decision = NoDecision
  /\ proc = [p \in Procs |-> Idle]
  /\ executed = [o \in Objectives |-> 0]
  /\ crashes = 0

Start(p) == StartFresh(p) \/ LoadForRun(p)

StepObjective(p, o) ==
  \/ FuzzingStop(p, o)
  \/ LockoutPause(p, o)
  \/ \E late \in BOOLEAN : BudgetStop(p, o, late)
  \/ BeginObjective(p, o)

\* Steps of a command in progress.
Continue(p) ==
  \/ Verify(p)
  \/ Announce(p)
  \/ SaveRunning(p)
  \/ \E o \in Objectives : StepObjective(p, o)
  \/ \E answer \in {"allowed", "human", "denied"} : EvaluateAndExecute(p, answer)
  \/ WriteEvidence(p)
  \/ RecordResult(p)
  \/ PauseEvent(p)
  \/ StepSave(p)
  \/ StopEvent(p)
  \/ StopSave(p)
  \/ EndLoop(p)
  \/ CompleteCampaign(p)
  \/ FinalSave(p)
  \/ ReviewCheck(p)
  \/ ReviewEvent(p)
  \/ ReviewSave(p)
  \/ OperatorEvent(p)
  \/ OperatorSave(p)

Next ==
  \/ \E verdict \in ReviewVerdicts : WriteDecision(verdict)
  \/ \E p \in Procs :
       \/ Start(p)
       \/ ReviewLoad(p)
       \/ OperatorLoad(p)
       \/ Continue(p)
       \/ Crash(p)

Spec == Init /\ [][Next]_vars

=============================================================================
