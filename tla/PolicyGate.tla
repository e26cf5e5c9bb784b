------------------------------ MODULE PolicyGate ------------------------------
(***************************************************************************)
(* What a command does between the documents it is given and the evidence  *)
(* it leaves: it loads them (cli.py), lets the policy gate decide on each  *)
(* objective (policy_gate.py), plans what was allowed (executor.py and the *)
(* planners of bounded_fuzzing.py, control_panel.py, crypto_review.py) and *)
(* records the plan (panel_evidence.py, fuzzing_evidence.py).  Meanwhile   *)
(* time passes, and the operator may replace the scope file.               *)
(*                                                                         *)
(* What a campaign does with the outcomes is the subject of CampaignLoop.  *)
(***************************************************************************)
EXTENDS Engagement, FiniteSets

CONSTANTS
  Inputs,     \* what commands are started with
  Scopes,     \* what an operator may replace the scope file by
  MaxTime     \* bound on the clock

CampaignKinds == {"campaign-run", "campaign-resume"}

\* file: the scope file; case: the case of run-case or policy-check; digest: the scope hash in the
\* checkpoint that is resumed, all its objectives pending; reviewed: objectives
\* a human has approved;
\* artifact: the file of an SBOM review can be read and is an inventory.
Input == [kind: {"run-case", "policy-check"} \union CampaignKinds, live: BOOLEAN,
          file: Scope, approved: BOOLEAN, profile: Profile \union {None}, approval: Approval \union {None},
          case: Objective, campaign: Campaign, digest: Scope \union {None},
          reviewed: SUBSET Ids, artifact: BOOLEAN]

\* An action that is asked for is among the actions asked for.
NamesItsAction(o) == o.action # None => o.action \in o.actions

ASSUME GateAssumption ==
  /\ Scopes \subseteq Scope
  /\ Inputs \subseteq Input
  /\ \A i \in Inputs : i.kind = "campaign-resume" => i.digest # None
  /\ \A i \in Inputs : i.kind = "campaign-run" => i.reviewed = {}
  /\ \A i \in Inputs : NamesItsAction(i.case) /\ \A o \in i.campaign.objectives : NamesItsAction(o)
  /\ None \notin Aliases \union Ids \union Names \union Facets \union Categories \union PanelActions
  /\ MaxTime \in Nat

VARIABLES
  now,
  scopeFile,
  input,
  pc,
  scope,      \* the scope as it was loaded
  digest,     \* the hash of the scope file as it was read afterwards
  taken,      \* objectives already taken from the schedule
  objective,  \* the objective at hand
  reasons,    \* why the gate refuses it
  planned,    \* objectives that were planned and recorded (history)
  edited      \* the scope file was replaced while the command ran (history)

gateVars == <<now, scopeFile, input, pc, scope, digest, taken, objective, reasons,
              planned, edited>>
command == <<input, scope, digest, taken, objective, reasons, planned>>

InCampaign == input.kind \in CampaignKinds

-----------------------------------------------------------------------------
(* evaluate *)

When(condition, reason) == IF condition THEN {reason} ELSE {}

\* A missing category is taken to be the module.
CategoryOf(o) == IF o.category # None THEN o.category ELSE o.module
NetworkCategories == {"wstg_webapp", "service_control_panel", "bounded_fuzzing"}

TargetReasons(s, o) ==
  LET unlisted == o.target \notin Targets(s) IN
  When(o.target # None /\ unlisted, "target")
  \union When(input.live /\ o.target = None, "target missing")
  \union {f \in o.asks : unlisted \/ f \notin s.grants[o.target]}
  \union When(input.live /\ CategoryOf(o) \in NetworkCategories
              /\ ~({"domain", "service"} \subseteq o.asks), "network")

CategoryReasons(s, o) ==
  When(o.module # None /\ o.module # CategoryOf(o), "module")
  \union When(CategoryOf(o) # None /\ CategoryOf(o) \notin s.categories, "category")
  \union When(o.action \in s.forbidden, "forbidden")

CorpusReasons(f, o) ==
  IF o.corpus = None THEN {} ELSE
  IF ~CorpusOK(o.corpus) THEN {"corpus"}
  ELSE When(o.corpus.count > f.payloads, "corpus budget")
       \union When(o.count > 0 /\ o.corpus.count > o.count, "corpus count")
       \union When(o.corpus.class \notin o.classes, "corpus class")

\* fuzzing_boundary_errors
BoundaryReasons(f, o) ==
  When(o.classes = {}, "no payload class")
  \union When(~(o.classes \subseteq SafePayloads), "unsafe payload class")
  \union When(~(o.classes \subseteq f.classes), "unapproved payload class")
  \union When(o.count <= 0 \/ o.count > f.payloads, "payload count")
  \union When(Cardinality(o.classes) > o.count, "payload classes")
  \union When(Budgets(o) = {} \/ (\E b \in Budgets(o) : b < 0), "endpoint budgets")
  \union When(\E b \in Budgets(o) : b > f.perEndpoint, "endpoint limit")
  \union When(PlannedRequests(o) > f.requests, "request budget")
  \union When(~CeilingsOK(o.ceilings), "ceilings")
  \union When(\E c \in Ceilings : o.ceilings[c] > f.ceilings[c], "scope ceilings")
  \union CorpusReasons(f, o)

SignalReasons_OnlyUnknown(o) == When(~(o.signals \subseteq FuzzingSignals), "stop signal")
SignalReasons(o) == When(o.signals # {}, "stop signal")

FuzzingReasons(s, o) ==
  LET f == s.fuzzing IN
  When(~f.authorized, "fuzzing")
  \union When(o.actions = {}, "no fuzzing action")
  \union When(o.actions \intersect f.denied # {}, "denied fuzzing")
  \union When(~(o.actions \subseteq f.approved \union f.denied), "unapproved fuzzing")
  \union BoundaryReasons(f, o)
  \union SignalReasons(o)
  \union When(o.stateChanging /\ ~f.stateChanging, "state change")

LockoutRisk(o) ==
  o.lockout /\ "service_control_panel" \in {o.module, o.category}
Requested(o) == o.observations \union (IF o.observation = None THEN {} ELSE {o.observation})

\* What the panel of the scope says against the objective; it names a panel once.
PanelEntryReasons(p, o) ==
  When(p.target # o.target, "panel target")
  \union When(p.type # o.panelType, "panel type")
  \union When(o.actions \intersect p.denied # {}, "denied panel action")
  \union When(~(o.actions \subseteq p.approved \union PanelUnsafe \union p.denied),
              "unapproved panel action")
ListedPanelReasons(s, o) ==
  UNION {PanelEntryReasons(p, o) : p \in {q \in s.panels : q.alias = o.panel}}

PanelReasons(s, o) ==
  When(~s.panelsAuthorized, "panels")
  \union When(~\E p \in s.panels : p.alias = o.panel, "panel")
  \union ListedPanelReasons(s, o)
  \union When(o.actions \intersect PanelUnsafe # {}, "unsafe panel action")
  \union When(~(Requested(o) \subseteq SafeObservations), "unsafe observation")
  \union When("plan_safe_panel_observations" \in o.actions /\ Requested(o) = {},
              "no observation")
  \union When(LockoutRisk(o) /\ ~o.human, "lockout")

SbomReasons(s, o) == When(o.artifact = None \/ o.artifact \notin s.artifacts, "artifact")

CryptoReasons(s, o) ==
  When(~s.crypto.authorized, "crypto")
  \union When(o.action = None, "no crypto action")
  \union When(o.action \in s.crypto.denied \union CryptoUnsafe, "denied crypto action")
  \union When(o.action \notin s.crypto.approved, "unapproved crypto action")
  \union When(~o.metadata, "crypto metadata")

ModuleReasons(s, o) ==
  (IF CategoryOf(o) = "bounded_fuzzing" THEN FuzzingReasons(s, o) ELSE {})
  \union (IF "service_control_panel" \in {CategoryOf(o), o.module}
            THEN PanelReasons(s, o) ELSE {})
  \union (IF CategoryOf(o) = "sbom_review" THEN SbomReasons(s, o) ELSE {})
  \union (IF CategoryOf(o) = "crypto_controls" THEN CryptoReasons(s, o) ELSE {})

\* In live mode nobody asks for the human approval of an objective: a live
\* result is left for review in any case.
HumanReasons(o) == When(o.approval /\ ~input.live /\ ~o.human, "human approval")

During(period) == period.from <= now /\ now < period.until

AuthorizationReasons(s) ==
  When(~s.live, "not authorized")
  \union When(~s.confirmed, "unconfirmed")
  \union When(s.issued > s.valid.from, "issued late")
  \union When(~During(s.valid), "authorization period")
  \union When(s.agreed > now, "rules of engagement")
  \union When(~\E w \in s.windows : During(w), "window")
  \union When(\E w \in s.windows : w.from >= w.until, "window interval")
  \union When(~({"operator_stop", "policy_denial", "instability",
                 "authentication_lockout_risk", "redaction_failure"} \subseteq s.stops),
              "stop conditions")

ApprovalReasons_AnyScope(s, o) ==
  When(~input.approved, "operator")
  \union (IF input.approval = None \/ ~ApprovalOK(input.approval) THEN {"approval"} ELSE
          LET a == input.approval IN
          When(a.decision # "approved", "decision")
          \union When(~During(a.valid), "approval period")
          \union When(a.operator # s.operator, "approval operator")
          \union When(a.reference # s.reference, "approval reference")
          \union When(o.id \notin a.objectives /\ ~(InCampaign /\ a.campaigns),
                      "approval coverage"))
ApprovalReasons(s, o) ==
  When(~input.approved, "operator")
  \union (IF input.approval = None \/ ~ApprovalOK(input.approval) THEN {"approval"} ELSE
          LET a == input.approval IN
          When(a.decision # "approved", "decision")
          \union When(~During(a.valid), "approval period")
          \union When(a.operator # s.operator, "approval operator")
          \union When(a.reference # s.reference, "approval reference")
          \union When(a.scope # digest, "approval scope")
          \union When(o.id \notin a.objectives /\ ~(InCampaign /\ a.campaigns),
                      "approval coverage"))

ProfileReasons(s, o) ==
  IF input.profile = None \/ ~ProfileOK(input.profile) THEN {"profile"} ELSE
  LET p == input.profile IN
  When(~p.reviewed, "checklist")
  \union When(p.program # s.program, "program")
  \union When(Targets(s) \intersect p.outOfScope # {}, "target out of scope")
  \union When(~(Targets(s) \subseteq p.inScope), "target not in scope")
  \union When(s.categories \intersect p.forbidden # {}, "forbidden category")
  \union When(~(s.categories \subseteq p.allowed), "category not allowed")
  \union When(~(p.prohibited \subseteq s.forbidden), "prohibition")
  \union When(p.reference # s.reference, "profile reference")
  \union When(p.policy # s.policy, "policy")
  \union When(p.accepted > now, "acceptance")
  \union When(s.rate > p.rate, "rate")

Evaluate(s, o) ==
  IF ~ScopeOK(s) THEN {"scope"} ELSE
  TargetReasons(s, o) \union CategoryReasons(s, o) \union ModuleReasons(s, o)
  \union HumanReasons(o) \union When(~s.workspace, "workspace")
  \union (IF input.live
            THEN AuthorizationReasons(s) \union ApprovalReasons(s, o) \union ProfileReasons(s, o)
            ELSE {})

-----------------------------------------------------------------------------
(* execute and the evidence records *)

\* What is built for an objective in a dry run.
PlanOf(o) ==
  CASE /\ o.category = "service_control_panel"
       /\ o.action = "plan_safe_panel_observations" \/ o.observations # {} -> "panel"
    [] o.category = "bounded_fuzzing" -> "fuzzing"
    [] o.category = "sbom_review" -> "sbom"
    [] o.category = "crypto_controls" -> "crypto"
    [] OTHER -> "none"

PanelPlanRaises(o) == Requested(o) = {} \/ ~(Requested(o) \subseteq SafeObservations)
FuzzingPlanRaises(o) ==
  \/ Budgets(o) = {} \/ \E b \in Budgets(o) : b < 0
  \/ o.classes = {} \/ ~(o.classes \subseteq SafePayloads)
  \/ o.count <= 0 \/ Cardinality(o.classes) > o.count
  \/ ~CeilingsOK(o.ceilings)
  \/ o.corpus # None /\ ~CorpusOK(o.corpus)
  \/ o.signals # {}

PlanRaises(o) ==
  CASE PlanOf(o) = "panel" -> PanelPlanRaises(o)
    [] PlanOf(o) = "fuzzing" -> FuzzingPlanRaises(o)
    [] PlanOf(o) = "sbom" -> ~input.artifact
    [] PlanOf(o) = "crypto" -> ~o.metadata \/ ~o.observed
    [] OTHER -> FALSE

\* The record of a panel plan lists requested_observations once and in the
\* order of the plan; a fuzzing record names case, module, target and API.
PanelRecordRaises(o) ==
  ~o.safeOnly \/ o.observations = {} \/ o.observation # None \/ o.repeated
FuzzingRecordRaises(o) ==
  o.id = None \/ o.module # "bounded_fuzzing" \/ o.target = None \/ "api" \notin o.asks

RecordRaises(o) ==
  CASE PlanOf(o) = "panel" -> PanelRecordRaises(o)
    [] PlanOf(o) = "fuzzing" -> FuzzingRecordRaises(o)
    [] OTHER -> FALSE

-----------------------------------------------------------------------------
(* A command *)

GateInit ==
  /\ now = 0
  /\ input \in Inputs
  /\ scopeFile = input.file
  /\ pc = "start"
  /\ scope = None /\ digest = None
  /\ taken = {} /\ objective = None /\ reasons = {} /\ planned = {}
  /\ edited = FALSE

\* The scope is loaded first, the other documents after it.
Load ==
  /\ pc = "start"
  /\ IF ScopeOK(scopeFile) /\ (InCampaign => CampaignOK(input.campaign))
       THEN pc' = "loaded" /\ scope' = scopeFile
       ELSE pc' = "refused" /\ UNCHANGED scope
  /\ UNCHANGED <<now, scopeFile, input, digest, taken, objective, reasons, planned, edited>>

\* A resumed campaign keeps the hash of its checkpoint.
HashScope ==
  /\ pc = "loaded"
  /\ digest' = IF input.kind = "campaign-resume" THEN input.digest ELSE scopeFile
  /\ pc' = IF InCampaign THEN "hashed" ELSE "select"
  /\ UNCHANGED <<now, scopeFile, input, scope, taken, objective, reasons, planned, edited>>

\* run_campaign compares that hash with the file once more.
ConfirmHash ==
  /\ pc = "hashed"
  /\ pc' = IF scopeFile = digest THEN "select" ELSE "refused"
  /\ UNCHANGED <<now, scopeFile, command, edited>>

\* The next objective of the schedule: of those whose dependencies were all
\* taken, the one of the lowest priority number.
Ready_AnyDependency(o, c) ==
  /\ o \in c.objectives /\ o.id \notin taken
  /\ c.depends[o.id] = {} \/ c.depends[o.id] \intersect taken # {}
Ready(o, c) ==
  /\ o \in c.objectives /\ o.id \notin taken
  /\ c.depends[o.id] \subseteq taken
IsNext(o, c) ==
  /\ Ready(o, c)
  /\ \A q \in c.objectives : Ready(q, c) => c.rank[o.id] <= c.rank[q.id]

SelectCase ==
  /\ pc = "select" /\ ~InCampaign
  /\ objective' = input.case
  /\ pc' = "gate"
  /\ UNCHANGED <<now, scopeFile, input, scope, digest, taken, reasons, planned, edited>>

\* A detected stop signal ends the campaign's run before the gate is asked, a
\* lockout risk nobody has reviewed pauses it.
SelectNext ==
  /\ pc = "select" /\ InCampaign
  /\ \E o \in input.campaign.objectives :
       /\ IsNext(o, input.campaign)
       /\ taken' = taken \union {o.id}
       /\ LET human == o.id \in input.reviewed IN
          /\ objective' = [o EXCEPT !.human = human]
          /\ pc' = IF o.signals # {} THEN "stopped"
                   ELSE IF LockoutRisk(o) /\ ~human THEN "paused" ELSE "gate"
  /\ UNCHANGED <<now, scopeFile, input, scope, digest, reasons, planned, edited>>

\* schedule gives up, or every objective was taken.
SelectNone ==
  /\ pc = "select" /\ InCampaign
  /\ \A o \in input.campaign.objectives : ~IsNext(o, input.campaign)
  /\ pc' = IF ObjectiveIds(input.campaign) \subseteq taken THEN "done" ELSE "stuck"
  /\ UNCHANGED <<now, scopeFile, command, edited>>

Gate ==
  /\ pc = "gate"
  /\ reasons' = Evaluate(scope, objective)
  /\ pc' = "decided"
  /\ UNCHANGED <<now, scopeFile, input, scope, digest, taken, objective, planned, edited>>

\* A refusal ends the run; that a human is to approve first pauses it.
Refuse ==
  /\ pc = "decided" /\ reasons # {}
  /\ pc' = IF InCampaign /\ reasons = {"human approval"} THEN "paused" ELSE "stopped"
  /\ UNCHANGED <<now, scopeFile, command, edited>>

\* Live execution is a stub; a campaign pauses until a human reviews its result.
Stub ==
  /\ pc = "decided" /\ reasons = {} /\ input.live /\ input.kind # "policy-check"
  /\ pc' = IF InCampaign THEN "paused" ELSE "done"
  /\ UNCHANGED <<now, scopeFile, command, edited>>

\* policy-check ends with the decision.
Report ==
  /\ pc = "decided" /\ reasons = {} /\ input.kind = "policy-check"
  /\ pc' = "done"
  /\ UNCHANGED <<now, scopeFile, command, edited>>

Plan ==
  /\ pc = "decided" /\ reasons = {} /\ ~input.live /\ input.kind # "policy-check"
  /\ IF PlanRaises(objective) \/ RecordRaises(objective)
       THEN pc' = "failed" /\ UNCHANGED planned
       ELSE /\ pc' = IF InCampaign THEN "select" ELSE "done"
            /\ planned' = planned \union {objective.id}
  /\ UNCHANGED <<now, scopeFile, input, scope, digest, taken, objective, reasons, edited>>

Tick ==
  /\ now < MaxTime
  /\ now' = now + 1
  /\ UNCHANGED <<scopeFile, pc, command, edited>>

ReplaceScope ==
  /\ ~edited /\ pc # "start"
  /\ scopeFile' \in Scopes \ {scopeFile}
  /\ edited' = TRUE
  /\ UNCHANGED <<now, pc, command>>

Step == \/ Load \/ HashScope \/ ConfirmHash \/ SelectCase \/ SelectNext \/ SelectNone
        \/ Gate \/ Refuse \/ Stub \/ Report \/ Plan
GateNext == Step \/ Tick \/ ReplaceScope

GateSpec == GateInit /\ [][GateNext]_gateVars

-----------------------------------------------------------------------------
(* Properties *)

GatePCs == {"start", "refused", "loaded", "hashed", "select", "gate", "decided",
            "stopped", "paused", "failed", "done", "stuck"}

GateTypeOK ==
  /\ now \in Nat
  /\ scopeFile \in Scope
  /\ input \in Input
  /\ pc \in GatePCs
  /\ scope \in Scope \union {None}
  /\ digest \in Scope \union {None}
  /\ taken \subseteq Ids
  /\ objective \in Objective \union {None}
  /\ planned \subseteq Ids \union {None}
  /\ edited \in BOOLEAN

Cleared == pc = "decided" /\ reasons = {}

\* What the project promises of work of each kind, whoever wrote its scope.
SafeFuzzing(s, o) ==
  /\ o.actions \subseteq FuzzingActions
  /\ o.classes \subseteq SafePayloads
  /\ PlannedRequests(o) <= s.fuzzing.requests
  /\ o.signals = {}
SafePanelWork(o) ==
  /\ o.actions \subseteq PanelActions
  /\ Requested(o) \subseteq SafeObservations

\* Work the gate lets through is safe, even though for fuzzing the gate only
\* compares with the scope: parse_scope, policy_gate.py and the vocabularies
\* together leave no unsafe action, payload class or observation.
AllowedWorkIsSafe ==
  Cleared =>
    /\ CategoryOf(objective) = "bounded_fuzzing" => SafeFuzzing(scope, objective)
    /\ "service_control_panel" \in {objective.module, objective.category}
         => SafePanelWork(objective)
    /\ CategoryOf(objective) = "crypto_controls" => objective.action \notin CryptoUnsafe

\* The scope that decides is the one that is vouched for: loaded, hashed and
\* compared at different moments, it is the one the approval of a live run
\* and the checkpoint of a resumed campaign name, unless the file was replaced
\* while the command ran.
ScopeInUseIsVouchedFor ==
  Cleared /\ ~edited =>
    /\ input.live => input.approval.scope = scope
    /\ input.kind = "campaign-resume" => input.digest = scope

\* Where planner or record refuse what the gate allowed: a fuzzing objective
\* without its identity or API, a panel objective that is not marked as
\* observation only or lists its observations twice, an SBOM file that cannot
\* be used, weak-algorithm indicators that are not marked as observations.
UnrecordableFuzzing(o) == o.id = None \/ o.module = None \/ o.target = None \/ "api" \notin o.asks
NotPlannable(o) ==
  \/ o.category = "bounded_fuzzing" /\ UnrecordableFuzzing(o)
  \/ o.category = "service_control_panel" /\ PanelRecordRaises(o)
  \/ o.category = "sbom_review" /\ ~input.artifact
  \/ o.category = "crypto_controls" /\ ~o.observed

\* An objective the gate allowed is planned and recorded: that planner or
\* record raise, which leaves a campaign running for ever, happens only for
\* the reasons above.
AllowedWorkIsRecorded == pc = "failed" => NotPlannable(objective)

\* A campaign that loads can always be scheduled to its end, and nothing is
\* planned before what it depends on.
DependenciesFirst ==
  /\ pc # "stuck"
  /\ InCampaign => \A i \in planned : input.campaign.depends[i] \subseteq planned

=============================================================================
