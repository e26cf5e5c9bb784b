------------------------------- MODULE MCLive -------------------------------
(***************************************************************************)
(* Live campaigns over an excerpt of the WSTG catalogue: tests that every  *)
(* rule of the runners mentions and two that the default profile puts off. *)
(***************************************************************************)
EXTENDS LiveCampaign, TLC

Case(id, category, family, tier, auth) ==
  [id |-> id, category |-> category, family |-> family, tier |-> tier, auth |-> auth]

Excerpt == <<
  Case("INFO-01", "INFO", "http", "passive", "anonymous"),
  Case("INFO-02", "INFO", "http", "passive", "anonymous"),
  Case("INFO-03", "INFO", "http", "passive", "anonymous"),
  Case("INFO-06", "INFO", "http", "passive", "anonymous"),
  Case("CONF-01", "CONF", "http", "safe_active", "anonymous"),
  Case("ATHN-01", "ATHN", "multi_step", "safe_active", "anonymous"),
  Case("ATHZ-02", "ATHZ", "multi_step", "safe_active", "multi_role"),
  Case("INPV-05", "INPV", "http", "intrusive_active", "anonymous"),
  Case("ERRH-01", "ERRH", "http", "safe_active", "anonymous"),
  Case("CLNT-01", "CLNT", "browser", "safe_active", "anonymous"),
  Case("APIT-01", "APIT", "api", "safe_active", "anonymous")>>

Harness(paths, maxReady, maxActions, actions, proofLimit) ==
  JuiceShopRuntime(paths, maxReady, maxActions)
    @@ [kind |-> "generic", actions |-> actions, proofLimit |-> proofLimit]

JuiceShop(paths, maxReady, maxActions) ==
  [kind |-> "juice", paths |-> paths, profile |-> JuiceShopProfile(maxReady),
   maxActions |-> maxActions]

\* The default paths of which two are requested, with all tests ready and few
\* proofs asked; one path that is not the root, with few tests ready; the root
\* first; the root last, and repeated.
SomeConfigs ==
  {Harness(<<>>, 0, 5, 2, 3), Harness(<<"/sitemap.xml">>, 4, 1, 0, 20),
   JuiceShop(<<"/", "/robots.txt">>, 30, 1),
   JuiceShop(<<"/api/Products", "/", "/">>, 30, 12)}

\* The root alone, with all tests ready and a proof for each.
RootOnly == {Harness(<<"/">>, 0, 1, 1, 20)}

Response(status, json, hardened, surface) ==
  [status |-> status, json |-> json, hardened |-> hardened, surface |-> surface]

\* A page with scripts and no headers, a server error in JSON, no answer.
SomeResponses ==
  {Response("success", FALSE, FALSE, TRUE), Response("fault", TRUE, TRUE, FALSE),
   Response("none", FALSE, FALSE, FALSE)}

=============================================================================
