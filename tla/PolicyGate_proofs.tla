-------------------------- MODULE PolicyGate_proofs --------------------------
(***************************************************************************)
(* Whatever the documents say, whenever they are checked and however often *)
(* the scope file is replaced: what the gate lets through is safe, covered *)
(* by the approval and ordered by its dependencies.                        *)
(***************************************************************************)
EXTENDS PolicyGate, WellFoundedInduction, TLAPS

-----------------------------------------------------------------------------
(* The inductive invariant *)

AfterLoad == GatePCs \ {"start", "refused"}
AfterHash == AfterLoad \ {"loaded"}
Scheduling == AfterHash \ {"hashed"}
AtWork == {"gate", "decided", "failed"}

\* The documents a command works with are those its loaders accepted.
Accepted ==
  pc \in AfterLoad =>
    /\ scope \in Scope /\ ScopeOK(scope)
    /\ InCampaign => CampaignOK(input.campaign)

\* As long as nobody edits the file, loaded scope, hash and file agree.
Unedited ==
  ~edited =>
    /\ pc \in AfterLoad => scopeFile = scope
    /\ pc \in AfterHash =>
         digest = IF input.kind = "campaign-resume" THEN input.digest ELSE scope
    /\ pc \in Scheduling /\ InCampaign => digest = scope

\* The objective at hand is one of the campaign's, or the case.
AtHand ==
  pc \in AtWork => objective \in Objective /\ NamesItsAction(objective)

\* What an empty list of reasons means as long as the objective is at hand.
Judged ==
  Cleared =>
    /\ CategoryReasons(scope, objective) = {}
    /\ ModuleReasons(scope, objective) = {}
    /\ input.live => input.approval # None /\ input.approval.scope = digest

\* Everything taken was planned, except what is at hand.
Progress ==
  InCampaign =>
    /\ taken \subseteq Ids
    /\ planned \subseteq taken
    /\ \A i \in planned : input.campaign.depends[i] \subseteq planned
    /\ pc \in {"start", "loaded", "hashed", "select"} => taken = planned
    /\ pc \in AtWork =>
         /\ taken = planned \union {objective.id}
         /\ input.campaign.depends[objective.id] \subseteq planned

GInv ==
  /\ input \in Inputs
  /\ GateTypeOK /\ Accepted /\ Unedited /\ AtHand /\ Judged /\ Progress
  /\ AllowedWorkIsRecorded
  /\ pc # "stuck"

-----------------------------------------------------------------------------
(* What no reason means *)

\* A reason that is not given: its condition does not hold.
LEMMA NoReason == ASSUME NEW c, NEW r, When(c, r) = {} PROVE ~c
  BY DEF When

\* Of a union without members, neither part has any.
LEMMA FuzzingCleared ==
  ASSUME NEW s \in Scope, NEW o \in Objective, FuzzingReasons(s, o) = {}
  PROVE  /\ o.actions \intersect s.fuzzing.denied = {}
         /\ o.actions \subseteq s.fuzzing.approved \union s.fuzzing.denied
         /\ BoundaryReasons(s.fuzzing, o) = {}
         /\ o.signals = {}
  <1>. DEFINE f == s.fuzzing
  <1>1. /\ When(o.actions \intersect f.denied # {}, "denied fuzzing") = {}
        /\ When(~(o.actions \subseteq f.approved \union f.denied), "unapproved fuzzing") = {}
        /\ BoundaryReasons(f, o) = {}
        /\ SignalReasons(o) = {}
    BY DEF FuzzingReasons
  <1>2. When(o.signals # {}, "stop signal") = {}
    BY <1>1 DEF SignalReasons
  <1>. QED
    BY <1>1, <1>2, NoReason, Zenon

\* Fuzzing without a reason from the boundary stays within it.
LEMMA BoundaryCleared ==
  ASSUME NEW f, NEW o, BoundaryReasons(f, o) = {}
  PROVE  /\ o.classes # {} /\ o.classes \subseteq SafePayloads
         /\ ~(o.count <= 0 \/ o.count > f.payloads)
         /\ ~(Cardinality(o.classes) > o.count)
         /\ ~(Budgets(o) = {} \/ \E b \in Budgets(o) : b < 0)
         /\ ~(PlannedRequests(o) > f.requests)
         /\ CeilingsOK(o.ceilings)
         /\ o.corpus # None => CorpusOK(o.corpus)
  <1>1. /\ When(o.classes = {}, "no payload class") = {}
        /\ When(~(o.classes \subseteq SafePayloads), "unsafe payload class") = {}
        /\ When(o.count <= 0 \/ o.count > f.payloads, "payload count") = {}
        /\ When(Cardinality(o.classes) > o.count, "payload classes") = {}
        /\ When(Budgets(o) = {} \/ (\E b \in Budgets(o) : b < 0), "endpoint budgets") = {}
        /\ When(PlannedRequests(o) > f.requests, "request budget") = {}
        /\ When(~CeilingsOK(o.ceilings), "ceilings") = {}
        /\ CorpusReasons(f, o) = {}
    BY DEF BoundaryReasons
  <1>2. o.corpus # None => CorpusOK(o.corpus)
    BY <1>1 DEF CorpusReasons
  <1>. QED
    BY <1>1, <1>2, NoReason, Zenon

\* Fuzzing that is cleared under a scope that loads is safe.
LEMMA FuzzingIsSafe ==
  ASSUME NEW s \in Scope, ScopeOK(s), NEW o \in Objective, FuzzingReasons(s, o) = {}
  PROVE  SafeFuzzing(s, o) /\ ~FuzzingPlanRaises(o)
  <1>1. FuzzingOK(s.fuzzing)
    BY DEF ScopeOK
  <1>2. o.actions \subseteq FuzzingActions
    BY <1>1, FuzzingCleared DEF FuzzingOK
  <1>3. o.count \in Int /\ PlannedRequests(o) \in Int /\ s.fuzzing.requests \in Int
    BY DEF Objective, Scope, Fuzzing, PlannedRequests
  <1>. QED
    BY <1>2, <1>3, FuzzingCleared, BoundaryCleared DEF SafeFuzzing, FuzzingPlanRaises

\* Panel work that is cleared under a scope that loads is observation only.
LEMMA PanelIsSafe ==
  ASSUME NEW s \in Scope, ScopeOK(s), NEW o \in Objective, PanelReasons(s, o) = {}
  PROVE  /\ SafePanelWork(o)
         /\ "plan_safe_panel_observations" \in o.actions => Requested(o) # {}
  <1>. DEFINE here == {q \in s.panels : q.alias = o.panel}
  <1>1. /\ When(~\E p \in s.panels : p.alias = o.panel, "panel") = {}
        /\ ListedPanelReasons(s, o) = {}
        /\ When(o.actions \intersect PanelUnsafe # {}, "unsafe panel action") = {}
        /\ When(~(Requested(o) \subseteq SafeObservations), "unsafe observation") = {}
        /\ When("plan_safe_panel_observations" \in o.actions /\ Requested(o) = {},
                "no observation") = {}
    BY DEF PanelReasons
  <1>2. PICK p \in here : TRUE
    <2>1. \E p \in s.panels : p.alias = o.panel
      BY <1>1, NoReason, Zenon
    <2>. QED
      BY <2>1
  <1>3. PanelEntryReasons(p, o) = {}
    BY <1>1 DEF ListedPanelReasons
  <1>4. /\ When(o.actions \intersect p.denied # {}, "denied panel action") = {}
        /\ When(~(o.actions \subseteq p.approved \union PanelUnsafe \union p.denied),
                "unapproved panel action") = {}
    BY <1>3 DEF PanelEntryReasons
  <1>5. /\ o.actions \intersect p.denied = {}
        /\ o.actions \subseteq p.approved \union PanelUnsafe \union p.denied
        /\ o.actions \intersect PanelUnsafe = {}
        /\ Requested(o) \subseteq SafeObservations
        /\ "plan_safe_panel_observations" \in o.actions => Requested(o) # {}
    BY <1>1, <1>4, NoReason, Zenon
  <1>6. p.approved \subseteq PanelActions
    BY <1>2 DEF ScopeOK, PanelOK
  <1>. QED
    BY <1>5, <1>6 DEF SafePanelWork

\* A crypto review that is cleared asks for nothing unsafe.
LEMMA CryptoIsSafe ==
  ASSUME NEW s, NEW o, CryptoReasons(s, o) = {}
  PROVE  o.action \notin CryptoUnsafe /\ o.metadata
  <1>1. /\ When(o.action \in s.crypto.denied \union CryptoUnsafe, "denied crypto action") = {}
        /\ When(~o.metadata, "crypto metadata") = {}
    BY DEF CryptoReasons
  <1>. QED
    BY <1>1, NoReason, Zenon

\* Planner and record refuse nothing of what the gate allowed but the gaps.
LEMMA AllowedIsPlannable ==
  ASSUME NEW s \in Scope, ScopeOK(s), NEW o \in Objective, NamesItsAction(o),
         CategoryReasons(s, o) = {}, ModuleReasons(s, o) = {}, ~NotPlannable(o)
  PROVE  ~PlanRaises(o) /\ ~RecordRaises(o)
  <1>1. o.module = None \/ o.module = CategoryOf(o)
    <2>1. When(o.module # None /\ o.module # CategoryOf(o), "module") = {}
      BY DEF CategoryReasons
    <2>. QED
      BY <2>1, NoReason, Zenon
  <1>2. o.category \in Categories => CategoryOf(o) = o.category
    BY GateAssumption DEF CategoryOf
  <1>3. CASE PlanOf(o) = "panel"
    <2>1. o.category = "service_control_panel"
      BY <1>3 DEF PlanOf
    <2>2. PanelReasons(s, o) = {}
      BY <1>2, <2>1 DEF ModuleReasons, Categories
    <2>3. Requested(o) # {}
      <3>1. CASE o.action = "plan_safe_panel_observations"
        <4>1. o.action # None
          BY <3>1, GateAssumption DEF PanelActions
        <4>. QED
          BY <4>1, <3>1, <2>2, PanelIsSafe DEF NamesItsAction
      <3>2. CASE o.observations # {}
        BY <3>2 DEF Requested
      <3>. QED
        BY <3>1, <3>2, <1>3, <2>1 DEF PlanOf
    <2>4. ~PanelPlanRaises(o)
      BY <2>2, <2>3, PanelIsSafe DEF PanelPlanRaises, SafePanelWork
    <2>5. ~PanelRecordRaises(o)
      BY <2>1 DEF NotPlannable
    <2>. QED
      BY <1>3, <2>4, <2>5 DEF PlanRaises, RecordRaises
  <1>4. CASE PlanOf(o) = "fuzzing"
    <2>1. o.category = "bounded_fuzzing"
      BY <1>4 DEF PlanOf
    <2>2. CategoryOf(o) = "bounded_fuzzing"
      BY <1>2, <2>1 DEF Categories
    <2>3. ~FuzzingPlanRaises(o)
      BY <2>2, FuzzingIsSafe DEF ModuleReasons
    <2>4. ~FuzzingRecordRaises(o)
      BY <1>1, <2>1, <2>2 DEF NotPlannable, UnrecordableFuzzing, FuzzingRecordRaises
    <2>. QED
      BY <1>4, <2>3, <2>4 DEF PlanRaises, RecordRaises
  <1>5. CASE PlanOf(o) = "sbom"
    BY <1>5 DEF PlanOf, PlanRaises, RecordRaises, NotPlannable
  <1>6. CASE PlanOf(o) = "crypto"
    <2>1. o.category = "crypto_controls"
      BY <1>6 DEF PlanOf
    <2>2. CryptoReasons(s, o) = {}
      BY <1>2, <2>1 DEF ModuleReasons, Categories
    <2>. QED
      BY <1>6, <2>1, <2>2, CryptoIsSafe DEF PlanRaises, RecordRaises, NotPlannable
  <1>7. CASE PlanOf(o) = "none"
    BY <1>7 DEF PlanRaises, RecordRaises
  <1>. QED
    BY <1>3, <1>4, <1>5, <1>6, <1>7 DEF PlanOf

-----------------------------------------------------------------------------
(* Dependencies *)

\* A set of ranks has a least one.
LEMMA LeastRank ==
  ASSUME NEW R, R \subseteq Nat, R # {}
  PROVE  \E x \in R : \A y \in R : x <= y
  <1>1. PICK x \in R : \A y \in R : ~(<<y, x>> \in OpToRel(<, Nat))
    BY NatLessThanWellFounded, WFMin, Zenon
  <1>2. ASSUME NEW y \in R PROVE x <= y
    <2>1. <<y, x>> \in Nat \X Nat
      OBVIOUS
    <2>2. ~(y < x)
      BY <2>1, <1>1 DEF OpToRel
    <2>. QED
      BY <2>2
  <1>. QED
    BY <1>2

\* Without a cycle the schedule goes on until everything was taken.
LEMMA ScheduleGoesOn ==
  ASSUME NEW c \in Campaign, CampaignOK(c), ~(ObjectiveIds(c) \subseteq taken)
  PROVE  \E o \in c.objectives : IsNext(o, c)
  <1>. DEFINE left == ObjectiveIds(c) \ taken
              ready == {o \in c.objectives : Ready(o, c)}
              ranks == {c.rank[o.id] : o \in ready}
  <1>1. PICK i \in left : c.depends[i] \intersect left = {}
    BY DEF CampaignOK, DependenciesOK, Acyclic
  <1>2. c.depends[i] \subseteq ObjectiveIds(c)
    BY DEF CampaignOK, DependenciesOK
  <1>3. PICK o \in c.objectives : o.id = i
    BY DEF ObjectiveIds
  <1>4. o \in ready
    BY <1>1, <1>2, <1>3 DEF Ready
  <1>5. \A q \in c.objectives : q.id \in Ids
    <2>1. \A q \in c.objectives : q \in Objective /\ q.id # None
      BY DEF CampaignOK, ObjectiveOK, Campaign
    <2>. QED
      BY <2>1 DEF Objective
  <1>6. ranks \subseteq Nat /\ ranks # {}
    BY <1>4, <1>5 DEF Campaign
  <1>7. PICK x \in ranks : \A y \in ranks : x <= y
    BY <1>6, LeastRank
  <1>8. PICK q \in ready : c.rank[q.id] = x
    OBVIOUS
  <1>. QED
    BY <1>7, <1>8 DEF IsNext

-----------------------------------------------------------------------------
(* The invariant holds *)

USE DEF GatePCs, AfterLoad, AfterHash, Scheduling, AtWork, CampaignKinds

\* What a command is started with has its type.
LEMMA Given ==
  ASSUME input \in Inputs
  PROVE  /\ input \in Input
         /\ input.file \in Scope /\ input.digest \in Scope \union {None}
         /\ input.case \in Objective /\ NamesItsAction(input.case)
         /\ input.campaign \in Campaign
         /\ \A o \in input.campaign.objectives : o \in Objective /\ NamesItsAction(o)
  <1>1. input \in Input
    BY GateAssumption
  <1>2. input.campaign \in Campaign
    BY <1>1 DEF Input
  <1>3. \A o \in input.campaign.objectives : o \in Objective
    BY <1>2 DEF Campaign
  <1>. QED
    BY <1>1, <1>2, <1>3, GateAssumption DEF Input

\* A command starts in the invariant.
LEMMA InitGood == GateInit => GInv
  <1>. SUFFICES ASSUME GateInit PROVE GInv
    OBVIOUS
  <1>0. input \in Inputs
    BY DEF GInv, GateInit
  <1>1. GateTypeOK
    BY <1>0, Given, GateAssumption DEF GateInit, GateTypeOK
  <1>2. Accepted
    BY GateAssumption DEF GInv, GateInit, GateTypeOK, Accepted, InCampaign
  <1>3. Unedited
    BY GateAssumption DEF GInv, GateInit, Unedited, InCampaign
  <1>4. AtHand
    BY GateAssumption DEF GInv, GateInit, GateTypeOK, AtHand
  <1>5. Judged
    BY GateAssumption DEF GInv, GateInit, GateTypeOK, Judged, Cleared
  <1>6. Progress
    BY GateAssumption DEF GInv, GateInit, Progress, GateTypeOK, InCampaign
  <1>7. AllowedWorkIsRecorded
    BY GateAssumption DEF GInv, GateInit, AllowedWorkIsRecorded
  <1>8. pc # "stuck"
    BY DEF GInv, GateInit
  <1>. QED
    BY <1>0, <1>1, <1>2, <1>3, <1>4, <1>5, <1>6, <1>7, <1>8 DEF GInv

\* Loading: what was accepted is well formed.
LEMMA LoadKeeps == GInv /\ Load => GInv'
  <1>. SUFFICES ASSUME GInv, Load PROVE GInv'
    OBVIOUS
  <1>0. input' \in Inputs
    BY DEF GInv, Load, command
  <1>1. GateTypeOK'
    BY GateAssumption DEF GInv, Load, command, GateTypeOK
  <1>2. Accepted'
    BY GateAssumption DEF GInv, Load, command, GateTypeOK, Accepted, InCampaign
  <1>3. Unedited'
    BY GateAssumption DEF GInv, Load, command, Unedited, InCampaign
  <1>4. AtHand'
    BY GateAssumption DEF GInv, Load, command, GateTypeOK, AtHand
  <1>5. Judged'
    BY GateAssumption DEF GInv, Load, command, GateTypeOK, Judged, Cleared
  <1>6. Progress'
    BY GateAssumption DEF GInv, Load, command, Progress, GateTypeOK, InCampaign
  <1>7. AllowedWorkIsRecorded'
    BY GateAssumption DEF GInv, Load, command, AllowedWorkIsRecorded
  <1>8. pc' # "stuck"
    BY DEF GInv, Load, command
  <1>. QED
    BY <1>0, <1>1, <1>2, <1>3, <1>4, <1>5, <1>6, <1>7, <1>8 DEF GInv

\* Hashing: the digest is the scope's as long as nobody replaces the file.
LEMMA HashScopeKeeps == GInv /\ HashScope => GInv'
  <1>. SUFFICES ASSUME GInv, HashScope PROVE GInv'
    OBVIOUS
  <1>0. input' \in Inputs
    BY DEF GInv, HashScope, command
  <1>1. GateTypeOK'
    BY Given DEF GInv, HashScope, GateTypeOK
  <1>2. Accepted'
    BY GateAssumption DEF GInv, HashScope, command, GateTypeOK, Accepted, InCampaign
  <1>3. Unedited'
    BY GateAssumption DEF GInv, HashScope, command, Unedited, InCampaign
  <1>4. AtHand'
    BY GateAssumption DEF GInv, HashScope, command, GateTypeOK, AtHand
  <1>5. Judged'
    BY GateAssumption DEF GInv, HashScope, command, GateTypeOK, Judged, Cleared
  <1>6. Progress'
    BY GateAssumption DEF GInv, HashScope, command, Progress, GateTypeOK, InCampaign
  <1>7. AllowedWorkIsRecorded'
    BY GateAssumption DEF GInv, HashScope, command, AllowedWorkIsRecorded
  <1>8. pc' # "stuck"
    BY DEF GInv, HashScope, command
  <1>. QED
    BY <1>0, <1>1, <1>2, <1>3, <1>4, <1>5, <1>6, <1>7, <1>8 DEF GInv

\* Comparing: a campaign goes on only with the digest it has.
LEMMA ConfirmHashKeeps == GInv /\ ConfirmHash => GInv'
  <1>. SUFFICES ASSUME GInv, ConfirmHash PROVE GInv'
    OBVIOUS
  <1>0. input' \in Inputs
    BY DEF GInv, ConfirmHash, command
  <1>1. GateTypeOK'
    BY GateAssumption DEF GInv, ConfirmHash, command, GateTypeOK
  <1>2. Accepted'
    BY GateAssumption DEF GInv, ConfirmHash, command, GateTypeOK, Accepted, InCampaign
  <1>3. Unedited'
    BY GateAssumption DEF GInv, ConfirmHash, command, Unedited, InCampaign
  <1>4. AtHand'
    BY GateAssumption DEF GInv, ConfirmHash, command, GateTypeOK, AtHand
  <1>5. Judged'
    BY GateAssumption DEF GInv, ConfirmHash, command, GateTypeOK, Judged, Cleared
  <1>6. Progress'
    BY GateAssumption DEF GInv, ConfirmHash, command, Progress, GateTypeOK, InCampaign
  <1>7. AllowedWorkIsRecorded'
    BY GateAssumption DEF GInv, ConfirmHash, command, AllowedWorkIsRecorded
  <1>8. pc' # "stuck"
    BY DEF GInv, ConfirmHash, command
  <1>. QED
    BY <1>0, <1>1, <1>2, <1>3, <1>4, <1>5, <1>6, <1>7, <1>8 DEF GInv

\* A single case is taken as it is.
LEMMA SelectCaseKeeps == GInv /\ SelectCase => GInv'
  <1>. SUFFICES ASSUME GInv, SelectCase PROVE GInv'
    OBVIOUS
  <1>0. input' \in Inputs
    BY DEF GInv, SelectCase, command
  <1>1. GateTypeOK'
    BY Given DEF GInv, SelectCase, GateTypeOK
  <1>2. Accepted'
    BY GateAssumption DEF GInv, SelectCase, command, GateTypeOK, Accepted, InCampaign
  <1>3. Unedited'
    BY GateAssumption DEF GInv, SelectCase, command, Unedited, InCampaign
  <1>4. AtHand'
    BY Given DEF GInv, SelectCase, AtHand
  <1>5. Judged'
    BY GateAssumption DEF GInv, SelectCase, command, GateTypeOK, Judged, Cleared
  <1>6. Progress'
    BY GateAssumption DEF GInv, SelectCase, command, Progress, GateTypeOK, InCampaign
  <1>7. AllowedWorkIsRecorded'
    BY GateAssumption DEF GInv, SelectCase, command, AllowedWorkIsRecorded
  <1>8. pc' # "stuck"
    BY DEF GInv, SelectCase, command
  <1>. QED
    BY <1>0, <1>1, <1>2, <1>3, <1>4, <1>5, <1>6, <1>7, <1>8 DEF GInv

\* A campaign takes the next objective, its dependencies before it.
LEMMA SelectNextKeeps == GInv /\ SelectNext => GInv'
  <1>. SUFFICES ASSUME GInv, SelectNext PROVE GInv'
    OBVIOUS
  <1>0. input' \in Inputs
    BY DEF GInv, SelectNext, command
  <1>pick. PICK o \in input.campaign.objectives :
          /\ IsNext(o, input.campaign)
          /\ taken' = taken \union {o.id}
          /\ objective' = [o EXCEPT !.human = (o.id \in input.reviewed)]
    BY DEF SelectNext
  <1>typed. o \in Objective /\ NamesItsAction(o)
    BY Given DEF GInv
  <1>same. /\ objective' \in Objective /\ objective'.id = o.id
        /\ objective'.action = o.action /\ objective'.actions = o.actions
    <2>1. (o.id \in input.reviewed) \in BOOLEAN
      OBVIOUS
    <2>. QED
      BY <1>pick, <1>typed, <2>1, ZenonT(60) DEF Objective
  <1>1. GateTypeOK'
    <2>1. o.id \in Ids
      <3>1. ObjectiveOK(o)
        BY DEF GInv, Accepted, SelectNext, CampaignOK
      <3>. QED
        BY <1>typed, <3>1 DEF ObjectiveOK, Objective
    <2>. QED
      BY <1>pick, <1>same, <2>1 DEF GInv, SelectNext, GateTypeOK
  <1>2. Accepted'
    BY GateAssumption DEF GInv, SelectNext, command, GateTypeOK, Accepted, InCampaign
  <1>3. Unedited'
    BY GateAssumption DEF GInv, SelectNext, command, Unedited, InCampaign
  <1>4. AtHand'
    BY <1>typed, <1>same DEF AtHand, NamesItsAction
  <1>5. Judged'
    BY GateAssumption DEF GInv, SelectNext, command, GateTypeOK, Judged, Cleared
  <1>6. Progress'
    BY <1>1, <1>pick, <1>same DEF GInv, SelectNext, IsNext, Ready, Progress, GateTypeOK, InCampaign
  <1>7. AllowedWorkIsRecorded'
    BY GateAssumption DEF GInv, SelectNext, command, AllowedWorkIsRecorded
  <1>8. pc' # "stuck"
    BY DEF GInv, SelectNext, command
  <1>. QED
    BY <1>0, <1>1, <1>2, <1>3, <1>4, <1>5, <1>6, <1>7, <1>8 DEF GInv

\* An empty schedule means that all objectives were taken.
LEMMA SelectNoneKeeps == GInv /\ SelectNone => GInv'
  <1>. SUFFICES ASSUME GInv, SelectNone PROVE GInv'
    OBVIOUS
  <1>0. input' \in Inputs
    BY DEF GInv, SelectNone, command
  <1>1. GateTypeOK'
    BY GateAssumption DEF GInv, SelectNone, command, GateTypeOK
  <1>2. Accepted'
    BY GateAssumption DEF GInv, SelectNone, command, GateTypeOK, Accepted, InCampaign
  <1>3. Unedited'
    BY GateAssumption DEF GInv, SelectNone, command, Unedited, InCampaign
  <1>4. AtHand'
    BY GateAssumption DEF GInv, SelectNone, command, GateTypeOK, AtHand
  <1>5. Judged'
    BY GateAssumption DEF GInv, SelectNone, command, GateTypeOK, Judged, Cleared
  <1>6. Progress'
    BY GateAssumption DEF GInv, SelectNone, command, Progress, GateTypeOK, InCampaign
  <1>7. AllowedWorkIsRecorded'
    BY GateAssumption DEF GInv, SelectNone, command, AllowedWorkIsRecorded
  <1>8. pc' # "stuck"
    <2>1. CampaignOK(input.campaign) /\ input.campaign \in Campaign
      BY Given DEF GInv, SelectNone, Accepted
    <2>2. ~\E o \in input.campaign.objectives : IsNext(o, input.campaign)
      BY DEF SelectNone
    <2>. QED
      BY <2>1, <2>2, ScheduleGoesOn DEF SelectNone
  <1>. QED
    BY <1>0, <1>1, <1>2, <1>3, <1>4, <1>5, <1>6, <1>7, <1>8 DEF GInv

\* The gate: its reasons are those of Evaluate.
LEMMA GateKeeps == GInv /\ Gate => GInv'
  <1>. SUFFICES ASSUME GInv, Gate PROVE GInv'
    OBVIOUS
  <1>0. input' \in Inputs
    BY DEF GInv, Gate, command
  <1>1. GateTypeOK'
    BY GateAssumption DEF GInv, Gate, command, GateTypeOK
  <1>2. Accepted'
    BY GateAssumption DEF GInv, Gate, command, GateTypeOK, Accepted, InCampaign
  <1>3. Unedited'
    BY GateAssumption DEF GInv, Gate, command, Unedited, InCampaign
  <1>4. AtHand'
    BY GateAssumption DEF GInv, Gate, command, GateTypeOK, AtHand
  <1>5. Judged'
    <2>1. SUFFICES ASSUME Cleared'
                   PROVE  /\ CategoryReasons(scope, objective) = {}
                          /\ ModuleReasons(scope, objective) = {}
                          /\ input.live => /\ input.approval # None
                                           /\ input.approval.scope = digest
      BY DEF Gate, Judged
    <2>2. Evaluate(scope, objective) = {} /\ ScopeOK(scope)
      BY <2>1 DEF Gate, Cleared, GInv, Accepted
    <2>3. /\ CategoryReasons(scope, objective) = {}
          /\ ModuleReasons(scope, objective) = {}
          /\ input.live => ApprovalReasons(scope, objective) = {}
      BY <2>2 DEF Evaluate
    <2>4. ApprovalReasons(scope, objective) = {} =>
            input.approval # None /\ input.approval.scope = digest
      <3>1. SUFFICES ASSUME ApprovalReasons(scope, objective) = {}
                     PROVE  input.approval # None /\ input.approval.scope = digest
        OBVIOUS
      <3>2. ~(input.approval = None \/ ~ApprovalOK(input.approval))
        BY <3>1 DEF ApprovalReasons
      <3>3. When(input.approval.scope # digest, "approval scope") = {}
        BY <3>1, <3>2 DEF ApprovalReasons
      <3>. QED
        BY <3>2, <3>3 DEF When
    <2>. QED
      BY <2>3, <2>4
  <1>6. Progress'
    BY GateAssumption DEF GInv, Gate, command, Progress, GateTypeOK, InCampaign
  <1>7. AllowedWorkIsRecorded'
    BY GateAssumption DEF GInv, Gate, command, AllowedWorkIsRecorded
  <1>8. pc' # "stuck"
    BY DEF GInv, Gate, command
  <1>. QED
    BY <1>0, <1>1, <1>2, <1>3, <1>4, <1>5, <1>6, <1>7, <1>8 DEF GInv

\* A refusal changes only where the command is.
LEMMA RefuseKeeps == GInv /\ Refuse => GInv'
  <1>. SUFFICES ASSUME GInv, Refuse PROVE GInv'
    OBVIOUS
  <1>0. input' \in Inputs
    BY DEF GInv, Refuse, command
  <1>1. GateTypeOK'
    BY GateAssumption DEF GInv, Refuse, command, GateTypeOK
  <1>2. Accepted'
    BY GateAssumption DEF GInv, Refuse, command, GateTypeOK, Accepted, InCampaign
  <1>3. Unedited'
    BY GateAssumption DEF GInv, Refuse, command, Unedited, InCampaign
  <1>4. AtHand'
    BY GateAssumption DEF GInv, Refuse, command, GateTypeOK, AtHand
  <1>5. Judged'
    BY GateAssumption DEF GInv, Refuse, command, GateTypeOK, Judged, Cleared
  <1>6. Progress'
    BY GateAssumption DEF GInv, Refuse, command, Progress, GateTypeOK, InCampaign
  <1>7. AllowedWorkIsRecorded'
    BY GateAssumption DEF GInv, Refuse, command, AllowedWorkIsRecorded
  <1>8. pc' # "stuck"
    BY DEF GInv, Refuse, command
  <1>. QED
    BY <1>0, <1>1, <1>2, <1>3, <1>4, <1>5, <1>6, <1>7, <1>8 DEF GInv

\* A live stub changes only where the command is.
LEMMA StubKeeps == GInv /\ Stub => GInv'
  <1>. SUFFICES ASSUME GInv, Stub PROVE GInv'
    OBVIOUS
  <1>0. input' \in Inputs
    BY DEF GInv, Stub, command
  <1>1. GateTypeOK'
    BY GateAssumption DEF GInv, Stub, command, GateTypeOK
  <1>2. Accepted'
    BY GateAssumption DEF GInv, Stub, command, GateTypeOK, Accepted, InCampaign
  <1>3. Unedited'
    BY GateAssumption DEF GInv, Stub, command, Unedited, InCampaign
  <1>4. AtHand'
    BY GateAssumption DEF GInv, Stub, command, GateTypeOK, AtHand
  <1>5. Judged'
    BY GateAssumption DEF GInv, Stub, command, GateTypeOK, Judged, Cleared
  <1>6. Progress'
    BY GateAssumption DEF GInv, Stub, command, Progress, GateTypeOK, InCampaign
  <1>7. AllowedWorkIsRecorded'
    BY GateAssumption DEF GInv, Stub, command, AllowedWorkIsRecorded
  <1>8. pc' # "stuck"
    BY DEF GInv, Stub, command
  <1>. QED
    BY <1>0, <1>1, <1>2, <1>3, <1>4, <1>5, <1>6, <1>7, <1>8 DEF GInv

\* A report changes only where the command is.
LEMMA ReportKeeps == GInv /\ Report => GInv'
  <1>. SUFFICES ASSUME GInv, Report PROVE GInv'
    OBVIOUS
  <1>0. input' \in Inputs
    BY DEF GInv, Report, command
  <1>1. GateTypeOK'
    BY GateAssumption DEF GInv, Report, command, GateTypeOK
  <1>2. Accepted'
    BY GateAssumption DEF GInv, Report, command, GateTypeOK, Accepted, InCampaign
  <1>3. Unedited'
    BY GateAssumption DEF GInv, Report, command, Unedited, InCampaign
  <1>4. AtHand'
    BY GateAssumption DEF GInv, Report, command, GateTypeOK, AtHand
  <1>5. Judged'
    BY GateAssumption DEF GInv, Report, command, GateTypeOK, Judged, Cleared
  <1>6. Progress'
    BY GateAssumption DEF GInv, Report, command, Progress, GateTypeOK, InCampaign
  <1>7. AllowedWorkIsRecorded'
    BY GateAssumption DEF GInv, Report, command, AllowedWorkIsRecorded
  <1>8. pc' # "stuck"
    BY DEF GInv, Report, command
  <1>. QED
    BY <1>0, <1>1, <1>2, <1>3, <1>4, <1>5, <1>6, <1>7, <1>8 DEF GInv

\* Planning: what is allowed is planned, or one of the known gaps is met.
LEMMA PlanKeeps == GInv /\ Plan => GInv'
  <1>. SUFFICES ASSUME GInv, Plan PROVE GInv'
    OBVIOUS
  <1>0. input' \in Inputs
    BY DEF GInv, Plan, command
  <1>1. GateTypeOK'
    <2>1. objective.id \in Ids \union {None}
      BY DEF GInv, AtHand, Plan, Objective
    <2>. QED
      BY <2>1 DEF GInv, Plan, GateTypeOK
  <1>2. Accepted'
    BY GateAssumption DEF GInv, Plan, command, GateTypeOK, Accepted, InCampaign
  <1>3. Unedited'
    BY GateAssumption DEF GInv, Plan, command, Unedited, InCampaign
  <1>4. AtHand'
    BY GateAssumption DEF GInv, Plan, command, GateTypeOK, AtHand
  <1>5. Judged'
    BY GateAssumption DEF GInv, Plan, command, GateTypeOK, Judged, Cleared
  <1>6. Progress'
    BY GateAssumption DEF GInv, Plan, command, Progress, GateTypeOK, InCampaign
  <1>7. AllowedWorkIsRecorded'
    <2>1. /\ scope \in Scope /\ ScopeOK(scope)
          /\ objective \in Objective /\ NamesItsAction(objective)
          /\ CategoryReasons(scope, objective) = {}
          /\ ModuleReasons(scope, objective) = {}
      BY DEF GInv, Plan, Accepted, AtHand, Judged, Cleared
    <2>2. pc' = "failed" => PlanRaises(objective) \/ RecordRaises(objective)
      BY DEF Plan, InCampaign
    <2>3. pc' = "failed" => NotPlannable(objective)
      BY <2>1, <2>2, AllowedIsPlannable
    <2>. QED
      BY <2>3 DEF Plan, AllowedWorkIsRecorded, NotPlannable
  <1>8. pc' # "stuck"
    BY DEF GInv, Plan, command
  <1>. QED
    BY <1>0, <1>1, <1>2, <1>3, <1>4, <1>5, <1>6, <1>7, <1>8 DEF GInv

\* Time decides nothing that was decided before.
LEMMA TickKeeps == GInv /\ Tick => GInv'
  <1>. SUFFICES ASSUME GInv, Tick PROVE GInv'
    OBVIOUS
  <1>0. input' \in Inputs
    BY DEF GInv, Tick, command
  <1>1. GateTypeOK'
    BY GateAssumption DEF GInv, Tick, command, GateTypeOK
  <1>2. Accepted'
    BY GateAssumption DEF GInv, Tick, command, GateTypeOK, Accepted, InCampaign
  <1>3. Unedited'
    BY GateAssumption DEF GInv, Tick, command, Unedited, InCampaign
  <1>4. AtHand'
    BY GateAssumption DEF GInv, Tick, command, GateTypeOK, AtHand
  <1>5. Judged'
    BY GateAssumption DEF GInv, Tick, command, GateTypeOK, Judged, Cleared
  <1>6. Progress'
    BY GateAssumption DEF GInv, Tick, command, Progress, GateTypeOK, InCampaign
  <1>7. AllowedWorkIsRecorded'
    BY DEF GInv, Tick, command, AllowedWorkIsRecorded, NotPlannable
  <1>8. pc' # "stuck"
    BY DEF GInv, Tick, command
  <1>. QED
    BY <1>0, <1>1, <1>2, <1>3, <1>4, <1>5, <1>6, <1>7, <1>8 DEF GInv

\* A replaced scope file is noticed or marked.
LEMMA ReplaceScopeKeeps == GInv /\ ReplaceScope => GInv'
  <1>. SUFFICES ASSUME GInv, ReplaceScope PROVE GInv'
    OBVIOUS
  <1>0. input' \in Inputs
    BY DEF GInv, ReplaceScope, command
  <1>1. GateTypeOK'
    BY GateAssumption DEF GInv, ReplaceScope, command, GateTypeOK
  <1>2. Accepted'
    BY GateAssumption DEF GInv, ReplaceScope, command, GateTypeOK, Accepted, InCampaign
  <1>3. Unedited'
    BY GateAssumption DEF GInv, ReplaceScope, command, Unedited, InCampaign
  <1>4. AtHand'
    BY GateAssumption DEF GInv, ReplaceScope, command, GateTypeOK, AtHand
  <1>5. Judged'
    BY GateAssumption DEF GInv, ReplaceScope, command, GateTypeOK, Judged, Cleared
  <1>6. Progress'
    BY GateAssumption DEF GInv, ReplaceScope, command, Progress, GateTypeOK, InCampaign
  <1>7. AllowedWorkIsRecorded'
    BY DEF GInv, ReplaceScope, command, AllowedWorkIsRecorded, NotPlannable
  <1>8. pc' # "stuck"
    BY DEF GInv, ReplaceScope, command
  <1>. QED
    BY <1>0, <1>1, <1>2, <1>3, <1>4, <1>5, <1>6, <1>7, <1>8 DEF GInv

\* Every step keeps the invariant.
LEMMA StepsKeep == GInv /\ [GateNext]_gateVars => GInv'
  <1>. SUFFICES ASSUME GInv, [GateNext]_gateVars PROVE GInv'
    OBVIOUS
  <1>1. CASE Step
    BY <1>1, LoadKeeps, HashScopeKeeps, ConfirmHashKeeps, SelectCaseKeeps, SelectNextKeeps,
       SelectNoneKeeps, GateKeeps, RefuseKeeps, StubKeeps, ReportKeeps, PlanKeeps DEF Step
  <1>2. CASE UNCHANGED gateVars
    BY <1>2 DEF gateVars, GInv, GateTypeOK, Accepted, Unedited, AtHand, Judged, Cleared, Progress,
         AllowedWorkIsRecorded, NotPlannable, InCampaign
  <1>. QED
    BY <1>1, <1>2, TickKeeps, ReplaceScopeKeeps DEF GateNext

\* The invariant holds of every command.
THEOREM GateInvariant == GateSpec => []GInv
  BY InitGood, StepsKeep, PTL DEF GateSpec

\* A command only ever works with documents of their type.
THEOREM GateTypeCorrect == GateSpec => []GateTypeOK
  <1>1. GInv => GateTypeOK
    BY DEF GInv
  <1>. QED
    BY <1>1, GateInvariant, PTL

\* Whatever scope and objective say, what evaluate lets through holds no unsafe
\* action, payload class or observation.
THEOREM AllowedIsSafe == GateSpec => []AllowedWorkIsSafe
  <1>1. GInv => AllowedWorkIsSafe
    <2>. SUFFICES ASSUME GInv, Cleared PROVE AllowedWorkIsSafe
      BY DEF AllowedWorkIsSafe
    <2>1. /\ scope \in Scope /\ ScopeOK(scope) /\ objective \in Objective
          /\ ModuleReasons(scope, objective) = {}
      BY DEF GInv, Cleared, Accepted, AtHand, Judged
    <2>2. CategoryOf(objective) = "bounded_fuzzing" => SafeFuzzing(scope, objective)
      BY <2>1, FuzzingIsSafe DEF ModuleReasons
    <2>3. "service_control_panel" \in {objective.module, objective.category}
            => SafePanelWork(objective)
      <3>1. objective.category = "service_control_panel" =>
              CategoryOf(objective) = "service_control_panel"
        BY GateAssumption DEF CategoryOf, Categories
      <3>. QED
        BY <2>1, <3>1, PanelIsSafe DEF ModuleReasons
    <2>4. CategoryOf(objective) = "crypto_controls" => objective.action \notin CryptoUnsafe
      BY <2>1, CryptoIsSafe DEF ModuleReasons
    <2>. QED
      BY <2>2, <2>3, <2>4 DEF AllowedWorkIsSafe
  <1>. QED
    BY <1>1, GateInvariant, PTL

\* The scope the gate decides by is the one the operator approved and the
\* checkpoint names, unless the file was replaced under a running command.
THEOREM ScopeIsVouchedFor == GateSpec => []ScopeInUseIsVouchedFor
  <1>1. GInv => ScopeInUseIsVouchedFor
    BY DEF GInv, ScopeInUseIsVouchedFor, Cleared, Judged, Unedited, InCampaign
  <1>. QED
    BY <1>1, GateInvariant, PTL

\* The planner and the records raise on nothing the gate allowed, except in
\* the gaps NotPlannable names.
THEOREM AllowedIsRecorded == GateSpec => []AllowedWorkIsRecorded
  <1>1. GInv => AllowedWorkIsRecorded
    BY DEF GInv
  <1>. QED
    BY <1>1, GateInvariant, PTL

\* The schedule of a campaign that loads never gets stuck and never overtakes
\* a dependency.
THEOREM DependenciesComeFirst == GateSpec => []DependenciesFirst
  <1>1. GInv => DependenciesFirst
    BY DEF GInv, Progress, DependenciesFirst
  <1>. QED
    BY <1>1, GateInvariant, PTL

=============================================================================
