------------------------------ MODULE Engagement ------------------------------
(***************************************************************************)
(* The documents of an engagement and what the loaders accept of them:     *)
(* the scope, the program profile and the operator approval (config.py),   *)
(* the campaign and its objectives (campaign.py), with the safety          *)
(* vocabularies of bounded_fuzzing.py, control_panel.py and                *)
(* crypto_review.py.                                                       *)
(*                                                                         *)
(* shape says that every required field is there, has its type, is not     *)
(* empty and that no other field is; unique, that no list names a value    *)
(* twice.  A SHA256 is the document it is of; a time is a number.          *)
(***************************************************************************)
EXTENDS Integers

CONSTANTS
  Ids,              \* objective ids
  Aliases,          \* target aliases
  Names,            \* further names: of actions, stop conditions, panels, endpoints, ...
  MarkedActions,    \* names the crypto review refuses for what they contain
  None

-----------------------------------------------------------------------------
(* Vocabularies *)

Categories == {"wstg_webapp", "service_control_panel", "bounded_fuzzing",
               "sbom_review", "crypto_controls"}

FuzzingActions == {"active_fuzzing", "plan_bounded_fuzzing"}
FuzzingUnsafe ==
  {"authentication_abuse", "destructive_fuzzing", "high_volume_fuzzing",
   "kyc_workflow_fuzzing", "payment_workflow_fuzzing", "recovery_workflow_fuzzing",
   "support_workflow_fuzzing"}
SafePayloads == {"boundary_value", "empty_value", "encoded_literal", "format_literal",
                 "type_variation"}
FuzzingSignals == {"authentication_lockout_risk", "response_size_limit", "retry_limit",
                   "runtime_limit", "target_instability"}

PanelTypes == {"admin_panel", "service_console", "monitoring_panel", "mail_admin_interface",
               "ci_cd_panel", "cloud_console_placeholder", "generic_management_interface"}
PanelActions == {"plan_panel_target_metadata", "plan_safe_panel_observations"}
PanelUnsafe ==
  {"brute_force", "credential_attack", "credential_guessing", "credential_stuffing",
   "default_password_check", "destructive_action", "destructive_panel_action",
   "login_attempt", "lockout_triggering", "panel_crawl", "password_spraying",
   "session_hijacking", "token_replay", "unsafe_crawling"}
SafeObservations ==
  {"default_page_metadata", "indexing_metadata", "login_exposure_metadata",
   "response_header_metadata", "tls_configuration_metadata", "version_banner_metadata"}

\* Listed as unsafe, or containing a marker such as decrypt, extract or replay.
CryptoUnsafe ==
  {"decryption_attempt", "destructive_crypto_testing", "key_extraction",
   "live_crypto_probe", "live_tls_probe", "private_key_extraction",
   "secret_bruteforce", "token_replay"} \union MarkedActions

StopConditions ==
  FuzzingSignals \union {"operator_stop", "policy_denial", "human_review", "rate_limit",
                         "iteration_limit", "request_limit", "redaction_failure"}
FuzzingStops == FuzzingSignals \union {"request_limit"}

-----------------------------------------------------------------------------
(* Scope *)

\* What an objective may ask of its target beyond its alias.
Facets == {"domain", "service", "api", "environment", "account"}
Ceilings == {"bytes", "runtime", "retries"}

Panel == [alias: Names, target: Aliases, type: PanelTypes \union Names,
          approved: SUBSET (PanelActions \union Names), denied: SUBSET (PanelUnsafe \union Names)]
Fuzzing == [authorized: BOOLEAN, stateChanging: BOOLEAN,
            approved: SUBSET (FuzzingActions \union FuzzingUnsafe \union Names),
            denied: SUBSET (FuzzingActions \union FuzzingUnsafe),
            classes: SUBSET (SafePayloads \union Names), payloads: Int, requests: Int,
            perEndpoint: Int, ceilings: [Ceilings -> Int]]
Period == [from: Nat, until: Nat]

\* confirmed: the references, confirmations and reporting rules a live run
\* needs; workspace: evidence goes inside the workspace.
Scope == [shape: BOOLEAN, unique: BOOLEAN, program: Names, operator: Names,
          reference: Names, policy: Names,
          live: BOOLEAN, confirmed: BOOLEAN, issued: Nat, valid: Period, agreed: Nat,
          grants: [Aliases -> (SUBSET Facets) \union {None}], categories: SUBSET Categories,
          forbidden: SUBSET (Names \union FuzzingActions \union PanelActions), rate: Int,
          windows: SUBSET Period, stops: SUBSET (StopConditions \union {"instability"}),
          panelsAuthorized: BOOLEAN, panels: SUBSET Panel, fuzzing: Fuzzing,
          crypto: [authorized: BOOLEAN, approved: SUBSET (CryptoUnsafe \union Names),
                   denied: SUBSET (CryptoUnsafe \union Names)],
          artifacts: SUBSET Names, workspace: BOOLEAN]

\* The targets of a scope: an alias that is not listed grants None.
Targets(s) == {t \in Aliases : s.grants[t] # None}

PanelOK(p, targets) ==
  /\ p.type \in PanelTypes
  /\ p.target \in targets
  /\ p.approved # {} /\ p.denied # {}
  /\ p.approved \subseteq PanelActions
  /\ p.approved \intersect p.denied = {}
  /\ PanelUnsafe \subseteq p.denied

CeilingsOK(ceilings) ==
  /\ ceilings["bytes"] > 0 /\ ceilings["runtime"] > 0
  /\ ceilings["retries"] >= 0

FuzzingOK_AnyAction(f) ==
  /\ f.denied # {} /\ f.classes # {}
  /\ f.approved \intersect f.denied = {}
  /\ f.classes \subseteq SafePayloads
  /\ f.payloads > 0 /\ f.requests > 0 /\ f.perEndpoint > 0
  /\ CeilingsOK(f.ceilings)
  /\ ~f.authorized => f.approved = {} /\ ~f.stateChanging
FuzzingOK(f) ==
  /\ f.denied # {} /\ f.classes # {}
  /\ f.approved \subseteq FuzzingActions
  /\ f.approved \intersect f.denied = {}
  /\ FuzzingUnsafe \subseteq f.denied
  /\ f.classes \subseteq SafePayloads
  /\ f.payloads > 0 /\ f.requests > 0 /\ f.perEndpoint > 0
  /\ CeilingsOK(f.ceilings)
  /\ ~f.authorized => f.approved = {} /\ ~f.stateChanging

\* parse_scope leaves the section on cryptographic controls unread.
ScopeOK(s) ==
  /\ s.shape /\ s.unique
  /\ \A p \in s.panels : PanelOK(p, Targets(s))
  /\ FuzzingOK(s.fuzzing)
  /\ s.categories # {} /\ s.forbidden # {}
  /\ s.rate > 0

-----------------------------------------------------------------------------
(* Program profile and operator approval *)

Profile == [shape: BOOLEAN, unique: BOOLEAN, program: Names, reference: Names, policy: Names,
            inScope: SUBSET Aliases, outOfScope: SUBSET Aliases, prohibited: SUBSET Names,
            allowed: SUBSET Categories, forbidden: SUBSET Categories, rate: Int,
            accepted: Nat, reviewed: BOOLEAN]

ProfileOK(p) ==
  /\ p.shape /\ p.unique
  /\ p.inScope # {} /\ p.prohibited # {} /\ p.allowed # {}
  /\ p.inScope \intersect p.outOfScope = {}
  /\ p.allowed \intersect p.forbidden = {}
  /\ p.rate > 0

\* campaigns: the campaign that is run is among those the approval names.
Approval == [shape: BOOLEAN, unique: BOOLEAN, decision: {"approved", "denied"} \union Names,
             operator: Names, reference: Names, valid: Period, scope: Scope,
             objectives: SUBSET Ids, campaigns: BOOLEAN]

ApprovalOK(a) ==
  /\ a.shape /\ a.unique
  /\ a.decision \in {"approved", "denied"}
  /\ a.objectives # {} \/ a.campaigns

-----------------------------------------------------------------------------
(* Objectives and campaigns *)

\* A single case is an objective no campaign loader has looked at: it may
\* leave out what a campaign's objective must have.  actions is what action,
\* panel_action and requested_actions name together; observation is a
\* panel_observation besides requested_observations, and repeated says that
\* a requested observation is named twice.  metadata: the metadata of a
\* crypto review is complete and free of secrets; observed: its indicators
\* are marked as observations; human: human_approved is set.
Corpus == [class: SafePayloads \union Names, count: Int]
Objective ==
  [id: Ids \union {None}, module: Categories \union {None}, category: Categories \union {None},
   action: Names \union FuzzingActions \union FuzzingUnsafe \union PanelActions
           \union PanelUnsafe \union CryptoUnsafe \union {None},
   actions: SUBSET (Names \union FuzzingActions \union FuzzingUnsafe \union PanelActions
                    \union PanelUnsafe \union CryptoUnsafe),
   target: Aliases \union {None}, asks: SUBSET Facets, approval: BOOLEAN, human: BOOLEAN,
   panel: Names \union {None}, panelType: PanelTypes \union {None},
   observations: SUBSET (SafeObservations \union Names),
   observation: SafeObservations \union {None}, repeated: BOOLEAN, safeOnly: BOOLEAN,
   lockout: BOOLEAN,
   classes: SUBSET (SafePayloads \union Names), count: Int,
   first: Int, second: Int, ceilings: [Ceilings -> Int],
   corpus: Corpus \union {None}, signals: SUBSET (FuzzingSignals \union Names),
   stateChanging: BOOLEAN, artifact: Names \union {None},
   metadata: BOOLEAN, observed: BOOLEAN]

\* validate_corpus_reference
CorpusOK(c) == c.class \in SafePayloads /\ c.count > 0

\* Requests planned for two endpoints; 0 stands for an endpoint left out.
Budgets(o) == {o.first, o.second} \ {0}
PlannedRequests(o) == o.first + o.second

ObjectiveOK(o) ==
  /\ o.id # None /\ o.action # None /\ o.target # None /\ o.module # None
  /\ o.category = o.module
  /\ ~o.human /\ o.observation = None
  /\ o.module = "service_control_panel" =>
       o.panel # None /\ o.panelType # None /\ o.observations # {}
  /\ o.module = "bounded_fuzzing" =>
       /\ o.classes # {} /\ o.count > 0
       /\ Budgets(o) # {} /\ \A b \in Budgets(o) : b > 0
       /\ CeilingsOK(o.ceilings)
       /\ o.signals \subseteq FuzzingSignals

\* depends may name ids of no objective of the campaign.
Campaign == [shape: BOOLEAN, unique: BOOLEAN, stops: SUBSET (StopConditions \union Names),
             objectives: SUBSET Objective, depends: [Ids -> SUBSET Ids], rank: [Ids -> Nat]]

ObjectiveIds(c) == {o.id : o \in c.objectives}

\* Among any of the objectives one depends on none of them: no cycle.
Acyclic(ids, depends) ==
  \A S \in SUBSET ids : S # {} => \E i \in S : depends[i] \intersect S = {}

DependenciesOK(ids, depends) ==
  /\ \A i \in ids : depends[i] \subseteq ids /\ i \notin depends[i]
  /\ Acyclic(ids, depends)

CampaignOK(c) ==
  /\ c.shape /\ c.unique
  /\ c.stops \subseteq StopConditions
  /\ {"operator_stop", "policy_denial", "human_review"} \subseteq c.stops
  /\ c.objectives # {}
  /\ \A o \in c.objectives : ObjectiveOK(o)
  /\ \A o, q \in c.objectives : o.id = q.id => o = q
  /\ DependenciesOK(ObjectiveIds(c), c.depends)
  /\ (\E o \in c.objectives : o.module = "service_control_panel")
       => "authentication_lockout_risk" \in c.stops
  /\ (\E o \in c.objectives : o.module = "bounded_fuzzing") => FuzzingStops \subseteq c.stops

=============================================================================
