---------------------------- MODULE LiveCampaign ----------------------------
(***************************************************************************)
(* The two live WSTG campaigns of aotp/campaigns: the generic harness      *)
(* (wstg_live_campaign.py) and the Juice Shop runner                       *)
(* (juice_shop_campaign.py).  A run sends its requests one by one and      *)
(* leaves a package of evidence files in a directory that is chosen by the *)
(* operator, may hold the package of an earlier run and is not locked.     *)
(*                                                                         *)
(* One action is one write to the directory, with everything that happens  *)
(* in memory since the write before it.  A run may end between any two     *)
(* writes, or inside one, which leaves that file truncated.  SHA256 is     *)
(* taken to be injective: where the code stores a digest, the model stores *)
(* the content.                                                            *)
(***************************************************************************)
EXTENDS WstgPlan

CONSTANTS
  Configs,     \* the configurations a run may be started with
  Responses,   \* what a target may answer to a GET request
  MaxRuns,     \* bound: runs into the one directory
  Torn         \* content of a file whose writer was killed

ASSUME RunsAssumption == MaxRuns \in Nat

\* A configuration's paths are a tuple of strings.
ASSUME ConfigsAssumption == \A config \in Configs : config.paths \in Seq(STRING)

VARIABLES
  disk,        \* the directory: file name -> content
  run,         \* the memory of the latest run
  sealed,      \* SHA256SUMS was last written by the last step of a run
  starts       \* number of runs so far

vars == <<disk, run, sealed, starts>>

-----------------------------------------------------------------------------
(* Configurations, requests and answers.  The generic harness bounds the   *)
(* queue by the runtime and then by the campaign; the Juice Shop runner    *)
(* drops repeated paths and bounds what is left.                           *)

HarnessConfigOK(config) ==
  /\ RuntimeOK(config)
  /\ config.actions \in 0 .. config.maxActions
  /\ config.proofLimit \in 1 .. 100

JuiceConfigOK(config) ==
  /\ config.maxActions \in 1 .. 50
  /\ config.profile.maxReady \in 1 .. 97

ConfigOK(config) ==
  /\ config.kind \in {"generic", "juice"}
  /\ ProfileOK(config.profile)
  /\ IF config.kind = "juice" THEN JuiceConfigOK(config) ELSE HarnessConfigOK(config)

FirstSeen(paths) ==
  {k \in DOMAIN paths : \A j \in 1 .. k - 1 : paths[j] # paths[k]}

\* The k-th path that is not a repetition.
UniquePaths(paths, limit) ==
  [k \in 1 .. Shorter(Cardinality(FirstSeen(paths)), limit) |->
     paths[CHOOSE i \in FirstSeen(paths) :
             Cardinality({j \in FirstSeen(paths) : j < i}) = k - 1]]

ActionLimit(config) ==
  IF config.actions = 0 THEN config.maxActions ELSE config.actions

Requests(config) ==
  IF config.kind = "juice" THEN UniquePaths(config.paths, config.maxActions)
  ELSE SubSeq(config.paths, 1,
              Shorter(Planned(config.paths, config.maxActions), ActionLimit(config)))

\* An answer has a status: "success" (below 400), "refused" (4xx), "fault"
\* (5xx) or "none", when the request failed and nothing was read.
Ok(response) == response.status = "success"

CanReturn(response) ==
  /\ response.status \in {"success", "refused", "fault", "none"}
  /\ response.status = "none" =>
       ~response.json /\ ~response.hardened /\ ~response.surface

\* With a plausible slip: the path decides that an API was seen.
IdsFromObservation_ByPath(path, response) ==
  UNION {{"INFO-06"},
         ReasonIf(path = "/" /\ Ok(response), "INFO-02"),
         ReasonIf(path = "/" /\ Ok(response), "INFO-05"),
         ReasonIf(path = "/" /\ Ok(response), "INFO-08"),
         ReasonIf(path \in {"/robots.txt", "/sitemap.xml"}, "INFO-01"),
         ReasonIf(path \in ApiPaths, "APIT-01"),
         ReasonIf(response.status = "fault", "ERRH-01")}

\* What the Juice Shop runner reads from one answer.
IdsFromObservation(path, response) ==
  UNION {{"INFO-06"},
         ReasonIf(path = "/" /\ Ok(response), "INFO-02"),
         ReasonIf(path = "/" /\ Ok(response), "INFO-05"),
         ReasonIf(path = "/" /\ Ok(response), "INFO-08"),
         ReasonIf(path \in {"/robots.txt", "/sitemap.xml"}, "INFO-01"),
         ReasonIf(response.json, "APIT-01"),
         ReasonIf(response.status = "fault", "ERRH-01")}

\* The harness marks the tests of a request as observed whatever came back.
ObservedIds(kind, path, response) ==
  IF kind = "juice" THEN IdsFromObservation(path, response) ELSE IdsForPath(path)

-----------------------------------------------------------------------------
(* The files of a package.                                                 *)

Named(name) == <<name, 0>>

Sums == Named("SHA256SUMS")
Result == Named("campaign-result.json")
Surface == Named("surface/discovered-surface.json")
FindingsFile == Named("findings/candidate-findings.json")
ProofsFile == Named("proof-requests/proof-requests.json")
Benchmark == Named("reports/benchmark-comparison.json")
StateFile == Named("state/campaign-state.json")
DecisionsFile == Named("agent-decisions.jsonl")
Index == Named("observations/http-observations.json")
Report == Named("reports/campaign-report.md")
FinalState == Named("state/final-campaign-state.json")
Queue == Named("campaign/action-queue.json")

PlanFile(kind) ==
  Named(IF kind = "juice" THEN "campaign-plan.json" ELSE "campaign/plan.json")

Observation(kind, k) ==
  <<IF kind = "juice" THEN "observations/http" ELSE "observations/http-get", k>>

\* The order of the writes of each runner, after the requests.
GenericNext ==
  [plan |-> "queue", queue |-> "fetch", surface |-> "findings",
   findings |-> "proofs", proofs |-> "benchmark", benchmark |-> "state",
   state |-> "decisions", decisions |-> "index", index |-> "report",
   report |-> "final", final |-> "sums", sums |-> "result",
   result |-> "resums", resums |-> "done"]

JuiceNext ==
  [plan |-> "fetch", surface |-> "findings", findings |-> "benchmark",
   benchmark |-> "report", report |-> "decisions", decisions |-> "index",
   index |-> "result", result |-> "resums", resums |-> "done"]

FileAt ==
  [queue |-> Queue, surface |-> Surface, findings |-> FindingsFile,
   proofs |-> ProofsFile, benchmark |-> Benchmark, state |-> StateFile,
   decisions |-> DecisionsFile, index |-> Index, report |-> Report,
   final |-> FinalState, sums |-> Sums, result |-> Result, resums |-> Sums]

\* The file that the next write of run r is about.
Target(r) ==
  CASE r.pc = "plan" -> PlanFile(r.kind)
    [] r.pc = "fetch" -> Observation(r.kind, Len(r.answers) + 1)
    [] OTHER -> FileAt[r.pc]

Following(r) ==
  LET next == IF r.kind = "juice" THEN JuiceNext[r.pc] ELSE GenericNext[r.pc]
  IN  IF next = "fetch" /\ Requests(r.config) = <<>> THEN "surface" ELSE next

-----------------------------------------------------------------------------
(* Derived evidence.                                                       *)

RootAnswers(answers) == {k \in DOMAIN answers : answers[k].path = "/"}

Root(answers) ==
  CHOOSE k \in RootAnswers(answers) : \A j \in RootAnswers(answers) : k <= j

ExtractSurface(answers) ==
  /\ RootAnswers(answers) # {}
  /\ Ok(answers[Root(answers)].response)
  /\ answers[Root(answers)].response.surface

ApiSeen(answers) == \E k \in DOMAIN answers : answers[k].response.json

Finding(id, ids, ref) == [id |-> id, ids |-> ids, ref |-> ref]

\* The Juice Shop runner names the first observation as the root's.
HeaderRef(kind, answers) ==
  Observation(kind, IF kind = "juice" THEN 1 ELSE Root(answers))

CandidateFindings(kind, answers) ==
  UNION {
    ReasonIf(/\ RootAnswers(answers) # {}
             /\ ~answers[Root(answers)].response.hardened,
             Finding("header-gaps", {"CONF-01"}, HeaderRef(kind, answers))),
    ReasonIf(ApiSeen(answers),
             Finding("api-surface", {"INFO-06", "APIT-01"}, Index)),
    ReasonIf(ExtractSurface(answers),
             Finding("client-review", {"CLNT-01", "CLNT-04"}, Surface))}

IdsOf(findings) == UNION {f.ids : f \in findings}

Decision(action, status, ids, refs) ==
  [action |-> action, status |-> status, ids |-> ids, refs |-> refs]

ReportOf(r) ==
  [planned |-> Cardinality(Tests), ready |-> Cardinality(Ready(r.config.profile)),
   requests |-> Len(r.answers), findings |-> r.findings, proofs |-> r.proofs,
   benchmark |-> Compare(r.observed)]

StateOf(r) == [executed |-> Len(r.answers), observed |-> r.observed, log |-> r.log]

-----------------------------------------------------------------------------
(* The runs.                                                               *)

Put(f, key, value) ==
  [k \in DOMAIN f \cup {key} |-> IF k = key THEN value ELSE f[k]]

Listing(files) == [f \in DOMAIN files \ {Sums} |-> files[f]]

Empty == [f \in {} |-> 0]

NoRun == [pc |-> "idle"]

Init == disk = Empty /\ run = NoRun /\ sealed = FALSE /\ starts = 0

Start(config) ==
  /\ run.pc \in {"idle", "done"}
  /\ starts < MaxRuns
  /\ ConfigOK(config)
  /\ run' = [pc |-> "plan", kind |-> config.kind, config |-> config, log |-> <<>>,
             answers |-> <<>>, observed |-> {}, findings |-> {}, proofs |-> {},
             artifacts |-> Empty]
  /\ starts' = starts + 1
  /\ UNCHANGED <<disk, sealed>>

\* One write of the run, whose memory is r afterwards.
Save(content, r) ==
  /\ disk' = Put(disk, Target(run), content)
  /\ run' = [r EXCEPT !.artifacts = Put(run.artifacts, Target(run), content)]
  /\ UNCHANGED <<sealed, starts>>

Advanced(r) == [r EXCEPT !.pc = Following(run)]

Decided(r, action, ids, refs) ==
  [r EXCEPT !.log = Append(@, Decision(action, "completed", ids, refs))]

WritePlan ==
  /\ run.pc = "plan"
  /\ Save(BuildPlan(run.config.profile),
          IF run.kind = "juice"
          THEN Decided(Advanced(run), "build_plan", {}, {PlanFile("juice")})
          ELSE Advanced(run))

WriteQueue ==
  /\ run.pc = "queue"
  /\ Save([actions |-> PlanActions(run.config.profile, run.config.paths, run.config.maxActions),
           blocked |-> Blocked(run.config.profile)],
          Decided(Advanced(run), "build_plan", {}, {PlanFile("generic"), Queue}))

\* One request, its answer and its observation file.
Fetch(response) ==
  /\ run.pc = "fetch"
  /\ CanReturn(response)
  /\ LET k == Len(run.answers) + 1
         path == Requests(run.config)[k]
         ids == ObservedIds(run.kind, path, response)
         answer == [path |-> path, ids |-> ids, response |-> response]
     IN  Save(answer,
              [run EXCEPT !.answers = Append(@, answer),
                          !.observed = @ \cup ids,
                          !.log = Append(@, Decision("http_get",
                            IF Ok(response) THEN "completed" ELSE "observed_error",
                            ids, {Observation(run.kind, k)})),
                          !.pc = IF k = Len(Requests(run.config)) THEN "surface" ELSE @])

WriteSurface ==
  /\ run.pc = "surface"
  /\ Save(ExtractSurface(run.answers),
          [Decided(Advanced(run), "derive_surface",
                   IF run.kind = "juice" THEN {"INFO-05", "INFO-06", "INFO-08"}
                   ELSE run.observed,
                   {Surface}) EXCEPT
             !.observed = IF run.kind = "juice" /\ ExtractSurface(run.answers)
                          THEN @ \cup {"CLNT-01", "CLNT-04"} ELSE @])

WriteFindings ==
  /\ run.pc = "findings"
  /\ LET findings == CandidateFindings(run.kind, run.answers)
     IN  Save(findings,
              [Decided(Advanced(run), "create_candidates", IdsOf(findings), {FindingsFile})
                 EXCEPT !.findings = findings,
                        !.observed = IF run.kind = "juice" THEN @ \cup IdsOf(findings) ELSE @])

WriteProofs ==
  /\ run.pc = "proofs"
  /\ LET proofs == ProofRequests(run.config.profile, run.observed, run.config.proofLimit)
     IN  Save(proofs,
              [Decided(Advanced(run), "request_missing_proof",
                       {Catalog[i].id : i \in proofs}, {ProofsFile})
                 EXCEPT !.proofs = proofs])

WriteBenchmark == run.pc = "benchmark" /\ Save(Compare(run.observed), Advanced(run))

WriteState == run.pc = "state" /\ Save(StateOf(run), Advanced(run))

\* The decisions are written while one is still to come.
WriteDecisions == run.pc = "decisions" /\ Save(run.log, Advanced(run))

WriteIndex ==
  /\ run.pc = "index"
  /\ Save(run.answers,
          IF run.kind = "juice"
          THEN Decided(Advanced(run), "compare_benchmark", run.observed,
                       {Benchmark, Report, DecisionsFile, Index})
          ELSE Advanced(run))

WriteReport ==
  /\ run.pc = "report"
  /\ Save(ReportOf(run),
          IF run.kind = "juice" THEN Advanced(run)
          ELSE Decided(Advanced(run), "write_package", run.observed,
                       {Benchmark, StateFile, DecisionsFile, Index, Report}))

WriteFinalState == run.pc = "final" /\ Save(StateOf(run), Advanced(run))

\* The harness hashes the directory before the result is there, whatever
\* file an earlier run has left, and keeps all digests as its artifacts.
WriteFirstSums ==
  /\ run.pc = "sums"
  /\ disk' = Put(disk, Sums, Listing(disk))
  /\ run' = [Advanced(run) EXCEPT !.artifacts =
       [f \in DOMAIN @ \cup DOMAIN disk \cup {Sums} |->
          IF f = Sums \/ f \in DOMAIN disk THEN disk'[f] ELSE @[f]]]
  /\ sealed' = FALSE
  /\ UNCHANGED starts

ResultOf(r) ==
  [config |-> r.config, log |-> r.log, answers |-> r.answers, observed |-> r.observed,
   findings |-> r.findings, proofs |-> r.proofs, artifacts |-> r.artifacts]

\* With a plausible slip: the hashes are not taken again.
WriteResult_LastWrite ==
  /\ run.pc = "result"
  /\ Save(ResultOf(run), [run EXCEPT !.pc = "done"])

WriteResult ==
  /\ run.pc = "result"
  /\ Save(ResultOf(run), Advanced(run))

WriteLastSums ==
  /\ run.pc = "resums"
  /\ disk' = Put(disk, Sums, Listing(disk))
  /\ run' = [run EXCEPT !.pc = "done"]
  /\ sealed' = TRUE
  /\ UNCHANGED starts

\* The process is killed, or the fetch raises what the executor does not
\* catch: the memory is lost, and so may be the file that was being written.
Die ==
  /\ run.pc \notin {"idle", "done"}
  /\ \/ UNCHANGED disk
     \/ disk' = Put(disk, Target(run), Torn)
  /\ run' = NoRun
  /\ UNCHANGED <<sealed, starts>>

Next ==
  \/ \E config \in Configs : Start(config)
  \/ \E response \in Responses : Fetch(response)
  \/ WritePlan \/ WriteQueue \/ WriteSurface \/ WriteFindings \/ WriteProofs
  \/ WriteBenchmark \/ WriteState \/ WriteDecisions \/ WriteIndex \/ WriteReport
  \/ WriteFinalState \/ WriteFirstSums \/ WriteResult \/ WriteLastSums
  \/ Die

Spec == Init /\ [][Next]_vars

-----------------------------------------------------------------------------
(* What a reader of the directory may rely on.                             *)

\* sha256sum -c succeeds: every listed file is there with its digest.
Verified ==
  /\ Sums \in DOMAIN disk
  /\ disk[Sums] # Torn
  /\ \A f \in DOMAIN disk[Sums] : f \in DOMAIN disk /\ disk[f] = disk[Sums][f]

\* The digests are those of a finished run and all of them match.
Trusted == sealed /\ Verified /\ Result \in DOMAIN disk /\ disk[Result] # Torn

\* The files are those the run of this result wrote.  Two digests of its
\* artifacts are older than the package: SHA256SUMS is written again after
\* the result, and an earlier result may have been listed.
Describes(result, files) ==
  /\ \A k \in DOMAIN result.log : result.log[k].refs \subseteq DOMAIN result.artifacts
  /\ \A f \in DOMAIN result.artifacts \ {Sums, Result} :
       f \in DOMAIN files /\ files[f] = result.artifacts[f]
  /\ \A k \in DOMAIN result.answers :
       /\ Observation(result.config.kind, k) \in DOMAIN files
       /\ files[Observation(result.config.kind, k)] = result.answers[k]

\* A package whose digests verify is whole, although a directory is used
\* again without being emptied and runs are killed anywhere: the result and
\* every file that its decisions refer to are of one run, with the answers
\* it reports.  The exception is a harness killed between its two lists of
\* digests: then an old result is certified beside new evidence.  And a run
\* that finishes leaves digests of every file there is.
VerifiedPackageIsWhole ==
  /\ run.pc = "done" =>
       Result \in DOMAIN disk /\ Sums \in DOMAIN disk /\ disk[Sums] = Listing(disk)
  /\ Trusted => Describes(disk[Result], disk)

\* The target sent a response, whatever its status; a request that failed has
\* nothing that could be looked at.
Responded(response) == response.status # "none"

AnsweredIds(answers) ==
  UNION {answers[k].ids : k \in {j \in DOMAIN answers : Responded(answers[j].response)}}

FailedIds(answers) ==
  UNION {answers[k].ids : k \in {j \in DOMAIN answers : ~Responded(answers[j].response)}}

\* The limit of proof requests was spent on tests before the i-th.
CutOff(i, asked, limit) == Cardinality(asked) = limit /\ \A j \in asked : j < i

\* Where each test of the catalogue is in a trusted package of the harness: it
\* is blocked for a reason, shown by a response, asked for, or cut off because
\* the limit of proof requests was spent on tests before it.  Only the tests
\* of a request that failed are nowhere: mark_observed takes them for observed
\* whatever came back, so they are missing from the proof requests with no
\* response to show them (FailedRequestsAreNoEvidence).  No proof is asked
\* for a test that is blocked or shown, and no action is bound to a blocked one.
EveryTestIsAccountedFor ==
  Trusted /\ disk[Result].config.kind = "generic" =>
    LET result == disk[Result]
        blocked == DOMAIN disk[Queue].blocked
        asked == disk[ProofsFile]
        shown == {i \in Tests : Catalog[i].id \in AnsweredIds(result.answers)}
        failed == {i \in Tests : Catalog[i].id \in FailedIds(result.answers)}
    IN  /\ asked \cap (blocked \cup shown) = {}
        /\ \A i \in blocked : disk[Queue].blocked[i] # {}
        /\ \A k \in DOMAIN disk[Queue].actions :
             disk[Queue].actions[k].objectives \cap blocked = {}
        /\ \A i \in Tests \ (blocked \cup shown \cup asked \cup failed) :
             CutOff(i, asked, result.config.proofLimit)

\* What shows that the file behind a finding supports it: a response of the root
\* without all headers, an answer in JSON, a surface with something on it.
Supports(finding, content) ==
  CASE finding.id = "header-gaps" ->
         /\ content.path = "/"
         /\ Responded(content.response)
         /\ ~content.response.hardened
    [] finding.id = "api-surface" -> ApiSeen(content)
    [] OTHER -> content

\* The first request for the root failed.
RootFailed(answers) ==
  /\ RootAnswers(answers) # {}
  /\ ~Responded(answers[Root(answers)].response)

\* The Juice Shop runner names its first observation as the root's; when the
\* root is a later path, another file of the package supports its finding.
SupportedElsewhere(finding, config) ==
  /\ config.kind = "juice" /\ config.paths[1] # "/"
  /\ \E k \in DOMAIN disk[Index] : Supports(finding, disk[Observation("juice", k)])

\* The claims of a trusted package rest on its own files.  Each finding refers to
\* evidence that supports it, with two exceptions that are the header finding's
\* alone: nothing supports it when the first request for the root failed
\* (FailedRequestsAreNoEvidence), and the Juice Shop runner, which cites its first
\* observation wherever the root is, may cite another file than the one that
\* does.  The benchmark was compared with what the result lists, and each
\* identifier the result lists was claimed by one of its decisions; the Juice
\* Shop runner lists the API test only if an API answered.
ClaimsRestOnEvidence ==
  Trusted =>
    LET result == disk[Result]
    IN  /\ \A finding \in disk[FindingsFile] :
             \/ Supports(finding, disk[finding.ref])
             \/ /\ finding.id = "header-gaps"
                /\ RootFailed(disk[Index]) \/ SupportedElsewhere(finding, result.config)
        /\ disk[Benchmark].detected \subseteq result.observed
        /\ disk[Benchmark].missed \cap result.observed = {}
        /\ \A id \in result.observed :
             \E k \in DOMAIN result.log : id \in result.log[k].ids
        /\ result.config.kind = "juice" /\ "APIT-01" \in result.observed =>
             ApiSeen(disk[Index])

\* A request that failed is evidence of nothing.  The harness asks for a proof of
\* each ready test that no response shows, unless the limit cut it off, and no
\* runner reports header gaps of a root that did not respond.  The code breaks
\* both parts: mark_observed does not look at the answer, and an observation
\* without headers passes for a response that lacks them.
FailedRequestsAreNoEvidence ==
  Trusted =>
    LET result == disk[Result]
        asked == disk[ProofsFile]
    IN  /\ result.config.kind = "generic" =>
             \A i \in Ready(result.config.profile) :
               \/ Catalog[i].id \in AnsweredIds(result.answers)
               \/ i \in asked
               \/ CutOff(i, asked, result.config.proofLimit)
        /\ RootFailed(disk[Index]) =>
             \A finding \in disk[FindingsFile] : finding.id # "header-gaps"

=============================================================================
