------------------------------ MODULE WstgPlan ------------------------------
(***************************************************************************)
(* Planning of a live WSTG campaign (wstg/engine.py and the planners of    *)
(* aotp/campaigns): which tests of the catalogue are ready under a profile,*)
(* which requests are queued, which proof is asked for at the end.         *)
(*                                                                         *)
(* A test of the catalogue is named by its position, which is also its     *)
(* place in every plan.                                                    *)
(***************************************************************************)
EXTENDS Naturals, Sequences, FiniteSets

CONSTANT Catalog    \* the WSTG test cases in catalogue order

Tiers == {"passive", "safe_active", "intrusive_active", "destructive_denied"}

AuthNeeds == {"anonymous", "authenticated", "multi_role", "privileged",
              "source_assisted"}

\* A catalogue refuses two cases with one identifier.
CatalogOK ==
  /\ Catalog \in Seq([id: STRING, category: STRING, family: STRING,
                      tier: Tiers, auth: AuthNeeds])
  /\ \A i, j \in DOMAIN Catalog : Catalog[i].id = Catalog[j].id => i = j

ASSUME CatalogAssumption == CatalogOK

Tests == DOMAIN Catalog

-----------------------------------------------------------------------------
(* A profile approves categories, adapter families and safety tiers, says  *)
(* which contexts (sessions, roles, source) the campaign has, and may      *)
(* bound the number of ready tests; 0 stands for no bound.                 *)

ProfileOK(profile) == profile.tiers # {} /\ profile.families # {}

ReasonIf(holds, reason) == IF holds THEN {reason} ELSE {}

AuthReasons(profile, test) ==
  {test.auth} \ (profile.contexts \cup {"anonymous"})

PlanningReasons(profile, test) ==
  UNION {ReasonIf(test.category \notin profile.categories, "category"),
         ReasonIf(test.family \notin profile.families, "family"),
         ReasonIf(test.tier \notin profile.tiers, "tier"),
         ReasonIf(test.tier = "intrusive_active" /\ ~profile.intrusive, "intrusive"),
         AuthReasons(profile, test)}

Runnable(profile) == {i \in Tests : PlanningReasons(profile, Catalog[i]) = {}}

\* A runnable test takes a slot even when it is denied afterwards.
HasSlot(profile, i) ==
  \/ profile.maxReady = 0
  \/ Cardinality({j \in 1 .. i - 1 : j \in Runnable(profile)}) < profile.maxReady

Disposition(profile, i) ==
  CASE Catalog[i].tier = "destructive_denied" -> "denied"
    [] i \in Runnable(profile) /\ HasSlot(profile, i) -> "ready"
    [] OTHER -> "deferred"

\* Why a test is not ready.
Reasons(profile, i) ==
  UNION {PlanningReasons(profile, Catalog[i]),
         ReasonIf(i \in Runnable(profile) /\ ~HasSlot(profile, i), "limit"),
         ReasonIf(Catalog[i].tier = "destructive_denied", "destructive")}

BuildPlan(profile) == [i \in Tests |-> Disposition(profile, i)]

Ready(profile) == {i \in Tests : Disposition(profile, i) = "ready"}

-----------------------------------------------------------------------------
(* The queue of requests.  Every path is requested, ready tests or not; a  *)
(* request is bound to the objectives among its tests that are ready.      *)

\* Of the paths in use, those of an API: the code tests whether a path contains
\* /api/ or begins with /rest/.
ApiPaths == {"/api/Products", "/rest/products/search?q="}

IdsForPath(path) ==
  CASE path = "/" -> {"INFO-02", "INFO-05", "INFO-08"}
    [] path \in {"/robots.txt", "/sitemap.xml"} -> {"INFO-03", "INFO-06"}
    [] path \in ApiPaths -> {"INFO-06", "APIT-01"}
    [] OTHER -> {"INFO-06"}

Shorter(n, m) == IF n < m THEN n ELSE m

\* The number of requests in the queue.
Planned(paths, maxActions) == Shorter(Len(paths), maxActions)

PlanActions(profile, paths, maxActions) ==
  [k \in 1 .. Planned(paths, maxActions) |->
     [path |-> paths[k], ids |-> IdsForPath(paths[k]),
      objectives |-> {i \in Ready(profile) : Catalog[i].id \in IdsForPath(paths[k])}]]

\* What the queue does not serve, with the reasons.
Blocked(profile) == [i \in Tests \ Ready(profile) |-> Reasons(profile, i)]

-----------------------------------------------------------------------------
(* The one target with a live runtime, and the profile both runners plan   *)
(* with.  No authenticated context is configured.                          *)

JuiceShopProfile(maxReady) ==
  [tiers |-> {"passive", "safe_active"},
   families |-> {"http", "browser", "proxy", "tls", "api", "manual", "multi_step"},
   categories |-> {test.category : test \in {Catalog[i] : i \in Tests}},
   contexts |-> {}, intrusive |-> FALSE, maxReady |-> maxReady]

DefaultPaths ==
  <<"/", "/robots.txt", "/sitemap.xml", "/api/Products", "/rest/products/search?q=">>

JuiceShopRuntime(paths, maxReady, maxActions) ==
  [paths |-> IF paths = <<>> THEN DefaultPaths ELSE paths,
   profile |-> JuiceShopProfile(maxReady), maxActions |-> maxActions]

RuntimeOK(runtime) ==
  /\ runtime.paths # <<>>
  /\ runtime.maxActions \in 1 .. 100
  /\ runtime.profile.maxReady \in 0 .. 97

-----------------------------------------------------------------------------
(* Proof requests: the first limit ready tests that were not observed.     *)

Unproved(profile, observed) ==
  {i \in Ready(profile) : Catalog[i].id \notin observed}

\* With a plausible slip: the limit is spent on tests that need no proof.
ProofRequests_LimitFirst(profile, observed, limit) ==
  {i \in Unproved(profile, observed) :
     Cardinality({j \in Ready(profile) : j < i}) < limit}

ProofRequests(profile, observed, limit) ==
  LET open == Unproved(profile, observed)
  IN  {i \in open : Cardinality({j \in open : j < i}) < limit}

-----------------------------------------------------------------------------
(* The benchmark: which of the expected tests a campaign has observed.     *)

Expected ==
  {"INFO-02", "INFO-05", "INFO-06", "INFO-08", "APIT-01",
   "ATHN-01", "ATHN-02", "ATHN-03", "ATHN-07", "ATHN-09",
   "ATHZ-01", "ATHZ-02", "ATHZ-03", "ATHZ-04",
   "SESS-02", "SESS-03", "SESS-06", "SESS-07",
   "INPV-01", "INPV-05", "INPV-11", "INPV-12", "INPV-13", "INPV-19",
   "CLNT-01", "CLNT-04", "CLNT-07", "CLNT-10", "CLNT-11", "CLNT-13",
   "BUSL-01", "BUSL-04", "BUSL-05", "BUSL-08", "BUSL-09",
   "CONF-01", "CONF-07", "ERRH-01", "CRYP-01", "CRYP-04"}

Compare(observed) ==
  [detected |-> Expected \cap observed, missed |-> Expected \ observed,
   extra |-> observed \ Expected]
=============================================================================
