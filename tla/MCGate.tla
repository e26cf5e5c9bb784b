------------------------------- MODULE MCGate -------------------------------
(***************************************************************************)
(* Documents for TLC: a consistent set of them, and the sets that depart   *)
(* from it in one place.                                                   *)
(***************************************************************************)
EXTENDS PolicyGate

MCIds == {"o1", "o2", "o3"}
MCAliases == {"t1", "t2"}
MCNames == {"prog", "op", "ref", "policy", "panel", "bom", "wipe", "look", "other"}
MCMarked == {"extract_keys"}

-----------------------------------------------------------------------------
(* Scopes *)

Low == [bytes |-> 1, runtime |-> 1, retries |-> 0]
High == [bytes |-> 2, runtime |-> 2, retries |-> 1]
Always == [from |-> 0, until |-> 2]
Later == [from |-> 1, until |-> 2]

BasePanel == [alias |-> "panel", target |-> "t1", type |-> "admin_panel",
              approved |-> PanelActions, denied |-> PanelUnsafe]
BaseFuzzing == [authorized |-> TRUE, stateChanging |-> FALSE, approved |-> FuzzingActions,
                denied |-> FuzzingUnsafe, classes |-> {"boundary_value", "empty_value"},
                payloads |-> 3, requests |-> 3, perEndpoint |-> 2, ceilings |-> High]
BaseScope ==
  [shape |-> TRUE, unique |-> TRUE, program |-> "prog", operator |-> "op",
   reference |-> "ref", policy |-> "policy", live |-> TRUE, confirmed |-> TRUE, issued |-> 0,
   valid |-> Always, agreed |-> 0,
   grants |-> [t \in MCAliases |-> IF t = "t1" THEN Facets ELSE None],
   categories |-> Categories, forbidden |-> {"wipe"}, rate |-> 1, windows |-> {Always},
   stops |-> StopConditions \union {"instability"},
   panelsAuthorized |-> TRUE, panels |-> {BasePanel}, fuzzing |-> BaseFuzzing,
   crypto |-> [authorized |-> TRUE, approved |-> {"look"}, denied |-> {"other"}],
   artifacts |-> {"bom"}, workspace |-> TRUE]

ShapeScopes ==
  {[BaseScope EXCEPT !.shape = FALSE], [BaseScope EXCEPT !.unique = FALSE],
   [BaseScope EXCEPT !.rate = 0], [BaseScope EXCEPT !.workspace = FALSE],
   [BaseScope EXCEPT !.categories = {"sbom_review"}],
   [BaseScope EXCEPT !.grants["t1"] = {"domain"}]}

FuzzingSections ==
  {BaseFuzzing,
   [BaseFuzzing EXCEPT !.authorized = FALSE, !.approved = {}],
   [BaseFuzzing EXCEPT !.authorized = FALSE],
   [BaseFuzzing EXCEPT !.stateChanging = TRUE],
   [BaseFuzzing EXCEPT !.approved = {"plan_bounded_fuzzing"}],
   [BaseFuzzing EXCEPT !.approved = @ \union {"high_volume_fuzzing"},
                       !.denied = @ \ {"high_volume_fuzzing"}],
   [BaseFuzzing EXCEPT !.approved = @ \union {"high_volume_fuzzing"}],
   [BaseFuzzing EXCEPT !.classes = {"empty_value"}],
   [BaseFuzzing EXCEPT !.classes = @ \union {"other"}],
   [BaseFuzzing EXCEPT !.payloads = 1], [BaseFuzzing EXCEPT !.requests = 2],
   [BaseFuzzing EXCEPT !.perEndpoint = 1], [BaseFuzzing EXCEPT !.ceilings["retries"] = -1]}
FuzzingScopes == {[BaseScope EXCEPT !.fuzzing = f] : f \in FuzzingSections}

PanelSections ==
  {BasePanel, [BasePanel EXCEPT !.target = "t2"], [BasePanel EXCEPT !.type = "service_console"],
   [BasePanel EXCEPT !.type = "other"],
   [BasePanel EXCEPT !.approved = {"plan_panel_target_metadata"}],
   [BasePanel EXCEPT !.approved = @ \union {"look"}],
   [BasePanel EXCEPT !.approved = {}],
   [BasePanel EXCEPT !.denied = @ \ {"login_attempt"}],
   [BasePanel EXCEPT !.denied = @ \union {"look"}]}
PanelScopes == {[BaseScope EXCEPT !.panels = {p}] : p \in PanelSections}
               \union {[BaseScope EXCEPT !.panels = {}],
                       [BaseScope EXCEPT !.panelsAuthorized = FALSE]}

CryptoScopes ==
  {BaseScope, [BaseScope EXCEPT !.crypto.authorized = FALSE],
   [BaseScope EXCEPT !.crypto.approved = @ \union {"extract_keys", "token_replay", "other"}]}

LiveScopes ==
  {BaseScope, [BaseScope EXCEPT !.live = FALSE], [BaseScope EXCEPT !.confirmed = FALSE],
   [BaseScope EXCEPT !.issued = 1], [BaseScope EXCEPT !.valid = Later],
   [BaseScope EXCEPT !.agreed = 1], [BaseScope EXCEPT !.windows = {}],
   [BaseScope EXCEPT !.windows = {Later}], [BaseScope EXCEPT !.windows = {[from |-> 2, until |-> 1]}],
   [BaseScope EXCEPT !.stops = {"operator_stop"}], [BaseScope EXCEPT !.rate = 2],
   [BaseScope EXCEPT !.forbidden = {"look"}],
   [BaseScope EXCEPT !.grants["t2"] = {}], [BaseScope EXCEPT !.program = "other"]}

-----------------------------------------------------------------------------
(* Objectives *)

WstgCase ==
  [id |-> "o1", module |-> "wstg_webapp", category |-> "wstg_webapp", action |-> "look",
   actions |-> {"look"}, target |-> "t1", asks |-> {"domain", "service"}, approval |-> FALSE,
   human |-> FALSE, panel |-> None, panelType |-> None, observations |-> {}, observation |-> None,
   repeated |-> FALSE, safeOnly |-> FALSE, lockout |-> FALSE, classes |-> {}, count |-> 0,
   first |-> 0, second |-> 0, ceilings |-> Low, corpus |-> None, signals |-> {},
   stateChanging |-> FALSE, artifact |-> None, metadata |-> FALSE, observed |-> FALSE]

WstgCases ==
  {WstgCase, [WstgCase EXCEPT !.target = "t2"], [WstgCase EXCEPT !.target = None],
   [WstgCase EXCEPT !.action = "wipe", !.actions = {"wipe"}], [WstgCase EXCEPT !.approval = TRUE],
   [WstgCase EXCEPT !.approval = TRUE, !.human = TRUE], [WstgCase EXCEPT !.asks = {"account"}],
   [WstgCase EXCEPT !.category = None], [WstgCase EXCEPT !.category = "bounded_fuzzing"],
   [WstgCase EXCEPT !.module = None, !.category = None]}

FuzzingCase ==
  [WstgCase EXCEPT !.module = "bounded_fuzzing", !.category = "bounded_fuzzing",
     !.action = "plan_bounded_fuzzing", !.actions = {"plan_bounded_fuzzing"},
     !.asks = {"domain", "service", "api"}, !.classes = {"boundary_value", "empty_value"},
     !.count = 2, !.first = 2, !.second = 1]
FuzzingCases ==
  {FuzzingCase, [FuzzingCase EXCEPT !.action = None, !.actions = {}],
   [FuzzingCase EXCEPT !.action = "high_volume_fuzzing", !.actions = {"high_volume_fuzzing"}],
   [FuzzingCase EXCEPT !.actions = @ \union {"active_fuzzing"}],
   [FuzzingCase EXCEPT !.actions = @ \union {"high_volume_fuzzing"}],
   [FuzzingCase EXCEPT !.actions = @ \union {"look"}],
   [FuzzingCase EXCEPT !.classes = {}], [FuzzingCase EXCEPT !.classes = {"other"}],
   [FuzzingCase EXCEPT !.count = 1], [FuzzingCase EXCEPT !.count = 0],
   [FuzzingCase EXCEPT !.count = 4],
   [FuzzingCase EXCEPT !.first = 0, !.second = 0], [FuzzingCase EXCEPT !.first = -1],
   [FuzzingCase EXCEPT !.first = 0], [FuzzingCase EXCEPT !.second = 2],
   [FuzzingCase EXCEPT !.ceilings["bytes"] = 3], [FuzzingCase EXCEPT !.ceilings["retries"] = -1],
   [FuzzingCase EXCEPT !.corpus = [class |-> "empty_value", count |-> 2]],
   [FuzzingCase EXCEPT !.corpus = [class |-> "empty_value", count |-> 3]],
   [FuzzingCase EXCEPT !.corpus = [class |-> "other", count |-> 1]],
   [FuzzingCase EXCEPT !.signals = {"retry_limit"}], [FuzzingCase EXCEPT !.signals = {"other"}],
   [FuzzingCase EXCEPT !.stateChanging = TRUE], [FuzzingCase EXCEPT !.asks = {}],
   [FuzzingCase EXCEPT !.id = None], [FuzzingCase EXCEPT !.module = None],
   [FuzzingCase EXCEPT !.category = None], [FuzzingCase EXCEPT !.target = None]}

PanelCase ==
  [WstgCase EXCEPT !.module = "service_control_panel", !.category = "service_control_panel",
     !.action = "plan_safe_panel_observations", !.actions = {"plan_safe_panel_observations"},
     !.panel = "panel", !.panelType = "admin_panel", !.observations = {"indexing_metadata"},
     !.safeOnly = TRUE]
PanelCases ==
  {PanelCase, [PanelCase EXCEPT !.panel = None], [PanelCase EXCEPT !.panelType = None],
   [PanelCase EXCEPT !.actions = @ \union {"login_attempt"}],
   [PanelCase EXCEPT !.actions = @ \union {"look"}],
   [PanelCase EXCEPT !.observations = {}],
   [PanelCase EXCEPT !.observations = {}, !.observation = "indexing_metadata"],
   [PanelCase EXCEPT !.observations = {"other"}], [PanelCase EXCEPT !.repeated = TRUE],
   [PanelCase EXCEPT !.action = None, !.actions = {}], [PanelCase EXCEPT !.safeOnly = FALSE],
   [PanelCase EXCEPT !.action = "plan_panel_target_metadata",
                     !.actions = {"plan_panel_target_metadata"}, !.observations = {}],
   [PanelCase EXCEPT !.lockout = TRUE], [PanelCase EXCEPT !.lockout = TRUE, !.human = TRUE],
   [PanelCase EXCEPT !.category = None], [PanelCase EXCEPT !.module = None]}

SbomCase == [WstgCase EXCEPT !.module = "sbom_review", !.category = "sbom_review",
                             !.artifact = "bom"]
SbomCases == {SbomCase, [SbomCase EXCEPT !.artifact = "other"], [SbomCase EXCEPT !.artifact = None]}

CryptoCase == [WstgCase EXCEPT !.module = "crypto_controls", !.category = "crypto_controls",
                               !.metadata = TRUE, !.observed = TRUE]
CryptoCases ==
  {CryptoCase, [CryptoCase EXCEPT !.action = None, !.actions = {}],
   [CryptoCase EXCEPT !.metadata = FALSE], [CryptoCase EXCEPT !.observed = FALSE]}
  \union {[CryptoCase EXCEPT !.action = a, !.actions = {a}] :
            a \in {"extract_keys", "token_replay", "other", "wipe"}}

-----------------------------------------------------------------------------
(* Live documents *)

BaseProfile ==
  [shape |-> TRUE, unique |-> TRUE, program |-> "prog", reference |-> "ref", policy |-> "policy",
   inScope |-> {"t1"}, outOfScope |-> {"t2"}, prohibited |-> {"wipe"}, allowed |-> Categories,
   forbidden |-> {}, rate |-> 1, accepted |-> 0, reviewed |-> TRUE]
Profiles ==
  {BaseProfile, None, [BaseProfile EXCEPT !.shape = FALSE], [BaseProfile EXCEPT !.program = "other"],
   [BaseProfile EXCEPT !.reference = "other"], [BaseProfile EXCEPT !.policy = "other"],
   [BaseProfile EXCEPT !.inScope = {"t1", "t2"}],
   [BaseProfile EXCEPT !.inScope = {"t2"}, !.outOfScope = {}],
   [BaseProfile EXCEPT !.prohibited = {"wipe", "look"}],
   [BaseProfile EXCEPT !.allowed = {"wstg_webapp"}],
   [BaseProfile EXCEPT !.allowed = {"wstg_webapp"}, !.forbidden = {"sbom_review"}],
   [BaseProfile EXCEPT !.accepted = 1], [BaseProfile EXCEPT !.reviewed = FALSE]}

BaseApproval ==
  [shape |-> TRUE, unique |-> TRUE, decision |-> "approved", operator |-> "op", reference |-> "ref",
   valid |-> Always, scope |-> BaseScope, objectives |-> {"o1"}, campaigns |-> FALSE]
Approvals ==
  {BaseApproval, None, [BaseApproval EXCEPT !.shape = FALSE],
   [BaseApproval EXCEPT !.decision = "denied"], [BaseApproval EXCEPT !.operator = "other"],
   [BaseApproval EXCEPT !.reference = "other"], [BaseApproval EXCEPT !.valid = Later],
   [BaseApproval EXCEPT !.scope.rate = 2], [BaseApproval EXCEPT !.objectives = {"o2"}],
   [BaseApproval EXCEPT !.objectives = {}],
   [BaseApproval EXCEPT !.objectives = {}, !.campaigns = TRUE]}

-----------------------------------------------------------------------------
(* Campaigns *)

Independent == [i \in MCIds |-> {}]
InOrder == [i \in MCIds |-> CASE i = "o1" -> 1 [] i = "o2" -> 2 [] i = "o3" -> 3]
InReverse == [i \in MCIds |-> 4 - InOrder[i]]

Objectives(base) == {[base EXCEPT !.id = i] : i \in MCIds}
BaseCampaign ==
  [shape |-> TRUE, unique |-> TRUE, stops |-> StopConditions, objectives |-> {WstgCase},
   depends |-> Independent, rank |-> InOrder]
Schedules ==
  {[BaseCampaign EXCEPT !.objectives = Objectives(WstgCase), !.depends = d, !.rank = InReverse] :
     d \in [MCIds -> SUBSET MCIds]}
MixedCampaigns ==
  {[BaseCampaign EXCEPT !.objectives = {o, [q EXCEPT !.id = "o2"]},
                        !.depends = [Independent EXCEPT !["o2"] = {"o1"}]] :
     o \in FuzzingCases \union PanelCases \union WstgCases, q \in {WstgCase, CryptoCase}}
BrokenCampaigns ==
  {[BaseCampaign EXCEPT !.shape = FALSE], [BaseCampaign EXCEPT !.stops = {"operator_stop"}],
   [BaseCampaign EXCEPT !.stops = @ \ {"retry_limit"}, !.objectives = {FuzzingCase}],
   [BaseCampaign EXCEPT !.stops = @ \ {"authentication_lockout_risk"}, !.objectives = {PanelCase}],
   [BaseCampaign EXCEPT !.objectives = {WstgCase, SbomCase}],
   [BaseCampaign EXCEPT !.depends["o1"] = {"o3"}]}
HumanCampaign == [BaseCampaign EXCEPT !.objectives = {[WstgCase EXCEPT !.approval = TRUE]}]

-----------------------------------------------------------------------------
(* Inputs *)

BaseInput ==
  [kind |-> "run-case", live |-> FALSE, file |-> BaseScope, approved |-> FALSE, profile |-> None,
   approval |-> None, case |-> WstgCase, campaign |-> BaseCampaign, digest |-> None,
   reviewed |-> {}, artifact |-> TRUE]

CaseInputs ==
  {[BaseInput EXCEPT !.file = s, !.case = c] : s \in ShapeScopes \union {BaseScope},
                                               c \in WstgCases}
  \union {[BaseInput EXCEPT !.file = s, !.case = c] : s \in FuzzingScopes, c \in FuzzingCases}
  \union {[BaseInput EXCEPT !.file = s, !.case = c] : s \in PanelScopes, c \in PanelCases}
  \union {[BaseInput EXCEPT !.case = c, !.artifact = a] : c \in SbomCases, a \in BOOLEAN}
  \union {[BaseInput EXCEPT !.file = s, !.case = c] : s \in CryptoScopes, c \in CryptoCases}

LiveInput == [BaseInput EXCEPT !.live = TRUE, !.approved = TRUE, !.profile = BaseProfile,
                               !.approval = BaseApproval]
LiveInputs ==
  {[LiveInput EXCEPT !.kind = k, !.file = s, !.approval.scope = s] :
     k \in {"run-case", "policy-check", "campaign-run"}, s \in LiveScopes}
  \union {[LiveInput EXCEPT !.kind = k, !.profile = p] : k \in {"run-case", "campaign-run"},
                                                         p \in Profiles}
  \union {[LiveInput EXCEPT !.kind = k, !.approval = a] : k \in {"run-case", "campaign-run"},
                                                          a \in Approvals}
  \union {[LiveInput EXCEPT !.case = c] : c \in WstgCases \union {FuzzingCase, PanelCase}}
  \union {[LiveInput EXCEPT !.approved = FALSE]}

CampaignInputs ==
  {[BaseInput EXCEPT !.kind = "campaign-run", !.campaign = c] :
     c \in Schedules \union MixedCampaigns \union BrokenCampaigns \union {HumanCampaign}}

ResumeInputs ==
  {[BaseInput EXCEPT !.kind = "campaign-resume", !.live = l, !.approved = l,
                     !.profile = BaseProfile, !.approval = BaseApproval,
                     !.digest = d, !.campaign = c, !.reviewed = r] :
     l \in BOOLEAN, d \in {BaseScope, [BaseScope EXCEPT !.rate = 2]},
     c \in {HumanCampaign, [BaseCampaign EXCEPT !.objectives = {[PanelCase EXCEPT !.lockout = TRUE]}]},
     r \in {{}, {"o1"}}}

MCInputs == CaseInputs \union LiveInputs \union CampaignInputs \union ResumeInputs

\* An edit that widens the scope, and one that breaks it.
MCScopes == {[BaseScope EXCEPT !.rate = 2], [BaseScope EXCEPT !.shape = FALSE]}
=============================================================================
