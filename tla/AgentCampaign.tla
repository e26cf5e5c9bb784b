---------------------------- MODULE AgentCampaign ----------------------------
(***************************************************************************)
(* The agentic campaign of agentic_campaign_loop.py: a model proposes one  *)
(* objective at a time, the proposal gate compares the proposal with the   *)
(* campaign policy, the tool registry judges and charges the call, and the *)
(* workspace keeps what happened.                                          *)
(*                                                                         *)
(* One action is the code between two effects on the outside: a file that  *)
(* is written, or a tool that sends requests.  Runs follow each other in   *)
(* one run directory when an operator gives the same --run-id again.       *)
(***************************************************************************)
EXTENDS Integers, FiniteSets

CONSTANTS
  Objectives,   \* the policy's objectives
  WellKnown,    \* the one whose tool is well_known_text
  Tls,          \* the one whose tool is tls_metadata
  Unknown,      \* an objective id that is not in the policy
  Modes,        \* "governed" by the registry, or a "direct" tool_executor
  Hosts,        \* the kinds of host that --target may name
  MaxRequests,  \* policy.max_requests
  MaxRuns,      \* bound on the runs of one run directory
  MaxKills      \* bound on the runs that are killed

ASSUME AgentAssumption ==
  /\ IsFiniteSet(Objectives) /\ Cardinality(Objectives) = 3
  /\ WellKnown \in Objectives
  /\ Tls \in Objectives \ {WellKnown}
  /\ Unknown \notin Objectives
  /\ Modes \subseteq {"governed", "direct"}
  /\ Hosts \subseteq {"name", "ipv6", "wildcard"}
  /\ MaxRequests \in Nat /\ MaxRequests >= 4
  /\ MaxRuns \in Nat
  /\ MaxKills \in Nat

MaxIterations == 3   \* AgentCampaignPolicy accepts no other value

\* The policy insists on three objectives with three different tools, so a
\* tool is named by the objective that may use it.
Tools == Objectives
Cost(tool) == IF tool = WellKnown THEN 2 ELSE 1

\* The policy accepts any HTTPS origin: of a host "name", of an "ipv6" literal,
\* or of a "wildcard" or another name that is not a single host.
HostKinds == {"name", "ipv6", "wildcard"}

\* A structured proposal.  Its arguments are the approved ones, others that
\* the rules of engagement would let through, or others that they refuse.
Proposals == [obj: Objectives \union {Unknown}, tool: Tools, ours: BOOLEAN,
              args: {"exact", "in_scope", "off_scope"}]

Labels == Objectives \union {"denied", "failed", "model_failed"}

VARIABLES
  runs,      \* number of runs started in this run directory
  run,       \* the run in progress, or the last one
  sent,      \* requests the tools of this run have sent (history)
  called,    \* called[o], how often this run called the tool for o (history)
  evidence,  \* evidence[i, label], the run that wrote iteration-<i>-<label>
  calls,     \* the registry's records, whose names are always fresh
  state,     \* state/campaign, state/campaign-result and the report
  kills      \* number of runs killed so far

agentVars == <<runs, run, sent, called, evidence, calls, state, kills>>

Summary == [iter: Nat, obj: Objectives, digest: Nat]
Progress == [run: Nat, requests: Nat, completed: SUBSET Objectives,
             summaries: SUBSET Summary]
NoProgress == [run |-> 0, requests |-> 0, completed |-> {}, summaries |-> {}]

PCs == {"propose", "deny", "over_budget", "call", "refuse",
        "tool", "tool_record", "tool_failed", "artifact", "progress",
        "result", "ended"}

Endings == {"none", "completed", "model_failed", "denied", "over_budget",
            "refused", "tool_failed", "mismatch", "exhausted", "incomplete",
            "escaped"}

RunRecord ==
  [pc: PCs, mode: {"governed", "direct"}, host: HostKinds,
   iteration: 1 .. MaxIterations + 1, completed: SUBSET Objectives,
   requests: Nat, used: Nat, summaries: SUBSET Summary, ending: Endings,
   proposal: Proposals]

Idle == [pc |-> "ended", mode |-> "governed", host |-> "name", iteration |-> 1,
         completed |-> {}, requests |-> 0, used |-> 0, summaries |-> {}, ending |-> "none",
         proposal |-> [obj |-> Unknown, tool |-> WellKnown, ours |-> FALSE,
                       args |-> "off_scope"]]

-----------------------------------------------------------------------------
(* The workspace *)

Put(f, k, v) == [x \in DOMAIN f \union {k} |-> IF x = k THEN v ELSE f[x]]

\* write_json replaces the file of that name atomically.
WriteEvidence_KeepsOld(label) ==
  evidence' = IF <<run.iteration, label>> \in DOMAIN evidence THEN evidence
              ELSE Put(evidence, <<run.iteration, label>>, runs)
WriteEvidence(label) ==
  evidence' = Put(evidence, <<run.iteration, label>>, runs)

\* The registry names its records with a fresh uuid.
RecordCall(executed) ==
  calls' = calls \union {[run |-> runs, tool |-> run.proposal.tool,
                          obj |-> run.proposal.obj, executed |-> executed]}

Step(pc) == run' = [run EXCEPT !.pc = pc]
End(how) == run' = [run EXCEPT !.pc = "ended", !.ending = how]

-----------------------------------------------------------------------------
(* Decisions *)

Remaining == Objectives \ run.completed

\* evaluate_model_proposal
GateReasons_Repeats(p) ==
  {r \in {"target", "objective", "tool", "arguments"} :
     \/ r = "target" /\ ~p.ours
     \/ r = "objective" /\ p.obj \notin Objectives
     \/ r = "tool" /\ p.obj \in Objectives /\ p.tool # p.obj
     \/ r = "arguments" /\ p.obj \in Objectives /\ p.args # "exact"}
GateReasons_AnyTarget(p) ==
  {r \in {"objective", "tool", "arguments"} :
     \/ r = "objective" /\ p.obj \notin Remaining
     \/ r = "tool" /\ p.obj \in Remaining /\ p.tool # p.obj
     \/ r = "arguments" /\ p.obj \in Remaining /\ p.args # "exact"}
GateReasons(p) ==
  {r \in {"target", "objective", "tool", "arguments"} :
     \/ r = "target" /\ ~p.ours
     \/ r = "objective" /\ p.obj \notin Remaining
     \/ r = "tool" /\ p.obj \in Remaining /\ p.tool # p.obj
     \/ r = "arguments" /\ p.obj \in Remaining /\ p.args # "exact"}

\* build_campaign_tool_roe: the rules accept single hosts only.
RulesCanBeBuilt == run.host # "wildcard"

\* The policy's own arguments, read back by the rules.  They name the host as
\* urlsplit gives it: an IPv6 literal without its brackets.  As the host of a
\* TLS endpoint it is the one in scope; in the URL that build_sprint14_policy
\* puts together it is none, or another one.
ExactInScope(tool) == run.host = "name" \/ (run.host = "ipv6" /\ tool = Tls)

\* NativeToolRegistry.evaluate under the rules that build_campaign_tool_roe
\* makes of the policy; the budget is only looked at when nothing else fails.
RegistryReasons(p) ==
  LET outside == {r \in {"target", "scope"} :
                    \/ r = "target" /\ ~p.ours
                    \/ r = "scope" /\ p.args = "off_scope"
                    \/ r = "scope" /\ p.args = "exact" /\ ~ExactInScope(p.tool)}
  IN IF outside # {} THEN outside
     ELSE IF run.used + Cost(p.tool) > MaxRequests THEN {"budget"} ELSE {}

-----------------------------------------------------------------------------
(* One run *)

\* The run directory may exist; its files stay.  The supervisor may fail to
\* start; the record of it that is written otherwise is never read.
StartRun(mode, host) ==
  /\ run.pc = "ended"
  /\ runs < MaxRuns
  /\ runs' = runs + 1
  /\ \/ run' = [Idle EXCEPT !.pc = "propose", !.mode = mode, !.host = host]
     \/ run' = [Idle EXCEPT !.ending = "escaped", !.mode = mode, !.host = host]
  /\ sent' = 0
  /\ called' = [o \in Objectives |-> 0]
  /\ UNCHANGED <<evidence, calls, state, kills>>

InIteration == run.pc = "propose" /\ run.iteration <= MaxIterations

\* Two attempts of the supervisor gave no structured proposal.
ModelFails ==
  /\ InIteration
  /\ Remaining # {}
  /\ WriteEvidence("model_failed")
  /\ End("model_failed")
  /\ UNCHANGED <<runs, sent, called, calls, state, kills>>

\* What the gate and then the loop's own count of requests make of a proposal.
Propose(p) ==
  /\ InIteration
  /\ Remaining # {}
  /\ run' = [run EXCEPT !.proposal = p, !.pc =
       IF GateReasons(p) # {} THEN "deny"
       ELSE IF run.requests + Cost(p.tool) > MaxRequests THEN "over_budget"
       ELSE "call"]
  /\ UNCHANGED <<runs, sent, called, evidence, calls, state, kills>>

\* How a refusal is recorded: by the loop, or by the registry.
Refusal == CASE run.pc = "deny" -> "denied"
             [] run.pc = "over_budget" -> "over_budget"
             [] OTHER -> "refused"

Deny_Silently ==
  /\ run.pc \in {"deny", "over_budget", "refuse"}
  /\ End(Refusal)
  /\ UNCHANGED <<runs, sent, called, evidence, calls, state, kills>>
Deny_AsksAgain ==
  /\ run.pc \in {"deny", "over_budget", "refuse"}
  /\ Step("propose")
  /\ WriteEvidence("denied")
  /\ UNCHANGED <<runs, sent, called, calls, state, kills>>
Deny ==
  /\ run.pc \in {"deny", "over_budget", "refuse"}
  /\ End(Refusal)
  /\ IF run.pc = "refuse" THEN RecordCall(FALSE) /\ UNCHANGED evidence
     ELSE WriteEvidence("denied") /\ UNCHANGED calls
  /\ UNCHANGED <<runs, sent, called, state, kills>>

\* The registry charges before it calls; a direct executor is not charged.
\* Rules that cannot be built pass for a tool that failed.
Call_ChargesLater ==
  /\ run.pc = "call"
  /\ Step(IF run.mode = "direct" THEN "tool"
          ELSE IF ~RulesCanBeBuilt THEN "tool_failed"
          ELSE IF RegistryReasons(run.proposal) # {} THEN "refuse" ELSE "tool")
  /\ UNCHANGED <<runs, sent, called, evidence, calls, state, kills>>
Call ==
  /\ run.pc = "call"
  /\ IF run.mode = "direct" THEN Step("tool")
     ELSE IF ~RulesCanBeBuilt THEN Step("tool_failed")
     ELSE IF RegistryReasons(run.proposal) # {} THEN Step("refuse")
     ELSE run' = [run EXCEPT !.pc = "tool",
                             !.used = @ + Cost(run.proposal.tool)]
  /\ UNCHANGED <<runs, sent, called, evidence, calls, state, kills>>

\* The tool runs.  It may fail, or raise what neither the registry nor the
\* loop catches, after any number of its requests; a direct executor may
\* also answer for another tool, report another count or refuse.
UseTool(n) ==
  LET t == run.proposal.tool IN
  /\ run.pc = "tool"
  /\ n \in 0 .. Cost(t)
  /\ sent' = sent + n
  /\ called' = [called EXCEPT ![run.proposal.obj] = @ + 1]
  /\ \/ n = Cost(t) /\ Step(IF run.mode = "governed" THEN "tool_record"
                            ELSE "artifact")
     \/ Step("tool_failed")
     \/ End("escaped")
     \/ run.mode = "direct" /\ End("mismatch")
  /\ UNCHANGED <<runs, evidence, calls, state, kills>>

ToolFailed ==
  /\ run.pc = "tool_failed"
  /\ WriteEvidence("failed")
  /\ End("tool_failed")
  /\ UNCHANGED <<runs, sent, called, calls, state, kills>>

ToolRecord ==
  /\ run.pc = "tool_record"
  /\ RecordCall(TRUE)
  /\ Step("artifact")
  /\ UNCHANGED <<runs, sent, called, evidence, state, kills>>

WriteArtifact ==
  /\ run.pc = "artifact"
  /\ WriteEvidence(run.proposal.obj)
  /\ run' = [run EXCEPT !.pc = "progress", !.requests = @ + Cost(run.proposal.tool)]
  /\ UNCHANGED <<runs, sent, called, calls, state, kills>>

ProgressOf(r) == [run |-> runs, requests |-> r.requests,
                  completed |-> r.completed, summaries |-> r.summaries]

\* The summary carries the SHA256 of the artifact as it is on disk.
WriteProgress ==
  /\ run.pc = "progress"
  /\ LET o == run.proposal.obj
         key == <<run.iteration, o>>
         next == [run EXCEPT !.pc = "propose", !.iteration = @ + 1,
                    !.completed = @ \union {o},
                    !.summaries = @ \union
                      {[iter |-> run.iteration, obj |-> o, digest |-> evidence[key]]}]
     IN run' = next /\ state' = [state EXCEPT !.campaign = ProgressOf(next)]
  /\ UNCHANGED <<runs, sent, called, evidence, calls, kills>>

\* The loop is over, or has no objective left to ask for; the bounded
\* contract must be met exactly.
LeaveLoop ==
  /\ run.pc = "propose"
  /\ run.iteration > MaxIterations \/ Remaining = {}
  /\ IF run.iteration <= MaxIterations
       THEN End("exhausted") /\ UNCHANGED state
     ELSE IF Cardinality(run.completed) = 3 /\ run.requests = 4
       THEN Step("result") /\ state' = [state EXCEPT !.report = runs]
     ELSE End("incomplete") /\ UNCHANGED state
  /\ UNCHANGED <<runs, sent, called, evidence, calls, kills>>

WriteResult ==
  /\ run.pc = "result"
  /\ state' = [state EXCEPT !.result = ProgressOf(run)]
  /\ End("completed")
  /\ UNCHANGED <<runs, sent, called, evidence, calls, kills>>

Kill ==
  /\ run.pc # "ended"
  /\ kills < MaxKills
  /\ kills' = kills + 1
  /\ End("escaped")
  /\ UNCHANGED <<runs, sent, called, evidence, calls, state>>

-----------------------------------------------------------------------------

AgentInit ==
  /\ runs = 0
  /\ run = Idle
  /\ sent = 0
  /\ called = [o \in Objectives |-> 0]
  /\ evidence = << >>
  /\ calls = {}
  /\ state = [campaign |-> NoProgress, result |-> NoProgress, report |-> 0]
  /\ kills = 0

\* Steps of a run in progress.
AgentStep ==
  \/ ModelFails
  \/ \E p \in Proposals : Propose(p)
  \/ Deny
  \/ Call
  \/ \E n \in 0 .. 2 : UseTool(n)
  \/ ToolFailed
  \/ ToolRecord
  \/ WriteArtifact
  \/ WriteProgress
  \/ LeaveLoop
  \/ WriteResult

AgentNext == AgentStep \/ (\E mode \in Modes, host \in Hosts : StartRun(mode, host)) \/ Kill

AgentSpec == AgentInit /\ [][AgentNext]_agentVars
FairAgentSpec == AgentSpec /\ WF_agentVars(AgentStep)

-----------------------------------------------------------------------------
(* Properties *)

(***************************************************************************)
(* Type invariant: the run in memory and what the run directory holds.     *)
(***************************************************************************)
AgentTypeOK ==
  /\ runs \in Nat /\ sent \in Nat /\ kills \in Nat
  /\ run \in RunRecord
  /\ called \in [Objectives -> Nat]
  /\ DOMAIN evidence \subseteq (1 .. MaxIterations) \X Labels
  /\ \A key \in DOMAIN evidence : evidence[key] \in Nat
  /\ calls \subseteq [run: Nat, tool: Tools, obj: Objectives \union {Unknown},
                      executed: BOOLEAN]
  /\ state \in [campaign: Progress, result: Progress, report: Nat]

(***************************************************************************)
(* A governed run never sends a request that its budget was not charged    *)
(* for, and never more than the policy allows; whenever it asks for the    *)
(* next proposal, the registry's count and the loop's own are the same.    *)
(***************************************************************************)
RequestsArePaidFor ==
  run.mode = "governed" =>
    /\ sent <= run.used
    /\ run.used <= MaxRequests
    /\ run.pc = "propose" => run.used = run.requests

(***************************************************************************)
(* No objective's tool is called twice in a run, whatever the model        *)
(* repeats.                                                                *)
(***************************************************************************)
EachObjectiveOnce == \A o \in Objectives : called[o] <= 1

(***************************************************************************)
(* The checks behind the proposal gate (the loop's request count, the      *)
(* registry's rules and budget, the final contract) agree with it, except  *)
(* where the policy's own arguments do not survive the way from --target   *)
(* to the rules of engagement: only a call whose exact arguments the rules *)
(* read as another host is refused, and no governed run calls a tool with  *)
(* arguments like that, whatever the gate let through.                     *)
(***************************************************************************)
LaterChecksAgreeWithGate ==
  /\ run.ending \notin {"over_budget", "exhausted", "incomplete"}
  /\ run.ending = "refused" => ~ExactInScope(run.proposal.tool)
  /\ run.mode = "governed" =>
       \A o \in Objectives : called[o] > 0 => ExactInScope(o)

(***************************************************************************)
(* What the gate lets through is never refused later on: the rules that    *)
(* build_campaign_tool_roe translates from the policy allow what the       *)
(* policy approves.  The code breaks it for an IPv6 target.                *)
(***************************************************************************)
ApprovedProposalsAreNotRefused ==
  run.ending \notin {"over_budget", "refused", "exhausted", "incomplete"}

\* The artifacts a progress file names are on disk as they were hashed.
Backed(progress) ==
  \A s \in progress.summaries :
    /\ <<s.iter, s.obj>> \in DOMAIN evidence
    /\ evidence[<<s.iter, s.obj>>] = s.digest

(***************************************************************************)
(* What the latest run reports is true of the run directory: its progress  *)
(* and result name artifacts of this run that are still there, and a       *)
(* result comes with the report, all objectives and four requests.         *)
(***************************************************************************)
LatestRunIsBacked ==
  /\ state.campaign.run = runs => Backed(state.campaign)
  /\ state.result.run = runs /\ runs > 0 =>
       /\ Backed(state.result)
       /\ {s.obj : s \in state.result.summaries} = Objectives
       /\ {s.digest : s \in state.result.summaries} = {runs}
       /\ state.result = state.campaign
       /\ state.report = runs

Written(label) ==
  /\ <<run.iteration, label>> \in DOMAIN evidence
  /\ evidence[<<run.iteration, label>>] = runs

(***************************************************************************)
(* A run that its own checks end says why in its evidence (a direct        *)
(* executor that breaks its contract excepted).  A call that a run got     *)
(* over has an artifact or a failure of that run, and one that it counts   *)
(* as completed under the registry also has the registry's own record.     *)
(***************************************************************************)
EveryEndIsOnRecord ==
  /\ run.ending \in {"denied", "over_budget"} => Written("denied")
  /\ run.ending = "model_failed" => Written("model_failed")
  /\ run.ending = "tool_failed" => Written("failed")
  /\ run.ending = "refused" =>
       [run |-> runs, tool |-> run.proposal.tool, obj |-> run.proposal.obj,
        executed |-> FALSE] \in calls
  /\ run.ending \notin {"escaped", "mismatch"} /\ run.pc \in {"propose", "ended", "result"} =>
       \A o \in Objectives : called[o] > 0 =>
         \/ \E i \in 1 .. run.iteration :
              <<i, o>> \in DOMAIN evidence /\ evidence[<<i, o>>] = runs
         \/ run.proposal.obj = o /\ Written("failed")
  /\ run.mode = "governed" =>
       \A o \in run.completed :
         [run |-> runs, tool |-> o, obj |-> o, executed |-> TRUE] \in calls

\* How many more steps a run can take at most: seven in an iteration that
\* completes an objective, and the last file once the iterations are spent.
StepsToNext ==
  [pc \in PCs |->
     CASE pc = "propose" -> 7
       [] pc = "call" -> 6
       [] pc = "tool" -> 5
       [] pc = "tool_record" -> 4
       [] pc = "artifact" -> 3
       [] pc = "progress" -> 2
       [] pc = "ended" -> 0
       [] OTHER -> 1]

StepsLeft ==
  IF run.pc = "ended" THEN 0
  ELSE 6 * (MaxIterations + 1 - run.iteration) + StepsToNext[run.pc]

(***************************************************************************)
(* Every step of a run, a refused proposal, a failed tool and a kill       *)
(* included, brings it closer to its end: the loop of                      *)
(* agentic_campaign_loop.py has no path that asks the model again without  *)
(* spending an iteration.                                                  *)
(***************************************************************************)
EveryStepIsProgress ==
  [][runs' = runs => StepsLeft' < StepsLeft]_agentVars

(***************************************************************************)
(* A run ends, whatever the model proposes and the tools do.               *)
(***************************************************************************)
RunsEnd == []<>(run.pc = "ended")

=============================================================================
