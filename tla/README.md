# Formal model of the AOTP campaign platform

AOTP runs bounded security-testing campaigns on targets an operator has been
authorised to test. What the code promises is restraint: an objective runs only
inside its scope and budget, a risky one only after a human has approved it, and
everything that was done, refused or stopped can be found afterwards in a
checkpoint, an event log and evidence files. This directory models the code that
keeps those promises, model-checks it with TLC and proves the most important
results with TLAPS. Source paths below are relative to `src/aotp/`, the
implementation's package in the repository.

## 1. Inventory

### Components

| Component | Source | State it keeps | Operations |
|---|---|---|---|
| Campaign engine | `campaign_loop.py`, `scheduler.py`, `safety_budget.py` | a `CampaignState` in memory, a `SafetyBudget` rebuilt from it at each invocation | `run_campaign`: validate, verify the log, announce, then per objective: fuzzing stop, lockout pause, budget stop, or gate + adapter + evidence + result; complete |
| Operator control | `campaign_control.py` | none of its own; works on a loaded state | `apply_review_decision`, `request_operator_stop` |
| Checkpoint store | `campaign_state.py` | the checkpoint file and its SHA256 file | `save_state`, `load_state`, `validate_state` |
| Event log | `campaign_events.py` | the JSONL file, hash-chained | `append_campaign_event`, `verify_event_log`, `verify_state_event_log` |
| Execution boundary | `executor.py` | none | `execute`: the gate's answer, then an adapter |
| Evidence writer | `evidence.py` | a directory per iteration | `write_manifest` |
| LangGraph orchestrator | `langgraph_orchestration.py` | a thread in SQLite: next node and status | `start`, `resume`, the nodes `campaign_step` and `human_review`, their routes |
| Policy gate and documents | `policy_gate.py`, `config.py`, `campaign.py`, `bounded_fuzzing.py`, `control_panel.py`, `crypto_review.py` | none; scope, profile, approval and campaign are files that may be replaced | the loaders (`parse_scope`, `parse_program_profile`, `parse_operator_approval`, `parse_campaign`), `evaluate`, the planners and records behind it |
| Agentic campaign | `agentic_campaign_loop.py`, `model_proposal_gate.py`, `tool_registry.py`, `request_budget.py`, `agent_workspace.py` | completed objectives, two request counters, the run directory | propose, gate, charge, execute, record, report |
| Finding lifecycle, reporting | `finding_*.py`, `report_*.py`, `submission_gate.py` | the candidate file, its review, the draft package, the submission approval | transition, review, draft, package, submit |
| Sensitive vault, keys | `sensitive_vault.py`, `campaign_key_store.py`, `agent_vault_access.py`, ... | ciphertext and metadata files, campaign key, access log | create a key, store, read with an access record |
| WSTG planning | `wstg/catalog.py`, `wstg/engine.py` | none; the catalogue is a table | `build_wstg_engine_plan`: which test is ready, deferred or denied |
| Live campaigns | `campaigns/`, `lab_targets/juice_shop.py`, `benchmarks/juice_shop.py` | the state of a run in memory, a directory of evidence files with `SHA256SUMS` | `run_wstg_live_campaign`, `run_local_juice_shop_agentic_campaign`: plan, queue, fetch, derive, ask for proof, compare, certify |
| Adapters, parsers, static reviews, CLI | `adapters/`, `agent_tools/`, `integrations/`, `modules/`, `planner.py`, `cli.py`, ... | none | functions from one document to another, network and subprocess calls |

`PROJECT.json` lists all of them with their files and what is left out.

### How they interact

The CLI commands `campaign-run`, `campaign-resume`, `campaign-review` and
`campaign-stop` are separate operating-system processes. They share **files
only**: checkpoint, event log, evidence directories, and the review decision an
operator writes. No command takes a lock. `run_campaign` calls the gate, then an
adapter, then the evidence writer, the event log and the checkpoint store, in that
order. The graph orchestrator calls `run_campaign(max_steps=1)` from its
`campaign_step` node and `apply_review_decision` from `human_review`, and keeps its
own progress in SQLite: the state of an orchestrated campaign is therefore kept
twice. Each command loads the scope and, separately, hashes its file; the approval and
the checkpoint name that hash. The agentic campaign is a separate loop; it shares no
state with the engine. The two live runners share the planner and the shape of their
packages with each other, and nothing with the engine.

### What is hard

* **Crashes.** An iteration writes its evidence, its event and its checkpoint with
  three separate calls, and counts itself only in memory. Each can be the last.
* **Overlap.** Two commands load the same checkpoint, work on private copies and
  each save theirs.
* **Protocol.** Four disposition lists, the current objective, the review phase and
  the status are updated independently by run, review and stop, through pauses,
  approvals, resumptions and stops in any order.
* **Two stores.** The graph's thread and the campaign checkpoint are saved at
  different times, and an operator's `campaign-stop` changes only one.
* **Limits.** The iteration and request budgets are rebuilt at each invocation from
  the checkpoint; pauses consume iterations.
* **Progress.** Every pause costs an iteration and needs a human.
* **Checks in four places.** Loader, gate, planner and record each check part of the
  same vocabulary; a gap in one is only harmless if another closes it.
* **Directories used again.** A live campaign certifies everything its directory
  holds, what an earlier or a killed run left there included.

### What makes each component correct

* *Engine and control*: no objective is lost or counted twice; no risky objective
  runs before its approval; a completed objective has its result in the log and its
  evidence on disk; budgets are hard; a halt is final; a recorded run is never
  repeated, and a run leaves no record only if its command was killed; every command ends,
  and every answered campaign halts.
* *Checkpoint and log*: they agree whenever no command runs; a save is never refused
  after its event; dispositions only grow.
* *Evidence*: the log never refers to missing or foreign evidence.
* *Graph*: the thread never claims an end or a pause that the checkpoint does not
  have; an uninterrupted campaign can always be started or resumed; each round of its
  loop uses an iteration, and it ends.
* *Agentic campaign*: no request without its charge, none beyond the budget, no tool
  called twice for one objective; gate, registry and budgets contradict each other
  only about a host that is lost in translation; what the run directory says of the latest run is true of its files; a run
  ends, with a record of why.
* *Findings*: a report names only validated findings; an approval covers exactly the
  package it was given for.
* *Vault*: what is listed is not lost; a read returns what was stored, only to whom it
  was granted, and has an access record.
* *Gate*: what it lets through is safe, vouched for by documents that belong together,
  accepted by planner and record, and in the order of its dependencies.
* *Live campaigns*: digests that verify certify one whole run; each test ends up
  blocked, shown by a response or asked for, unless its request failed; each claim
  rests on a file of the package, with the two exceptions named in section 3.

The list of hazards, each at its line with the property that catches it or the
reason none does, is in `PROJECT.json`.

## 2. Plan

Most important behaviour first.

1. **Engine** (`CampaignLoop` over `SafetyBudget`; abstract specification
   `CampaignContract`; properties in `CampaignProperties`; proofs in
   `CampaignLoop_proofs` for any commands, and in `CampaignSerial_proofs` for commands
   that do not overlap). *Done.*
2. **Graph** (`CampaignGraph` composes the graph with the engine; proofs in
   `CampaignGraph_proofs`, over those of the engine). *Done.*
3. **Agentic campaign and registry** (`AgentCampaign`): the proposal loop, the two
   budgets, the registry's denial and execution records, the run directory. **Findings**
   (`FindingLifecycle`): lifecycle, review and report by overlapping commands. *Done.*
4. **Vault** (`Vault`): two processes over key file, ciphertexts, metadata and access
   log, with crashes and damage. *Done.*
5. **WSTG planning and live campaigns** (`WstgPlan`, a module of pure operators, and
   `LiveCampaign` over it): both runners, write by write, in a directory that is used
   again. *Done.*
6. **Policy gate and documents** (`Engagement`, what the loaders accept; `PolicyGate`
   over it): the gate's reasons, the commands around it, the schedule. *Done.*
7. **What may follow**: the report package and its submission (library functions that no
   command calls yet).

One run per module and question, with two or three objectives, findings or objects,
one or two processes and one crash, in the sizes of section 4.

## 3. Modules and the code

### `SafetyBudget`

`Budget`, `DenialReason` and `Record` are the fields, `denial_reason` and `record` of
the class of that name, in the code's order of tests. Elapsed time is the parameter
`late`, which callers choose freely: any clock is covered. The minute window is never
reset during an invocation (`safety_budget.py` adds to `requests_this_minute` and
nothing clears it), and the model keeps it so.

### `CampaignLoop`

One process is one invocation of a command, with the private `CampaignState` it
holds (`st`), the objective in hand, the answer of the gate, `live` and `max_steps`.
One action is the code between two effects on the shared files:

| Action | Code |
|---|---|
| `StartFresh`, `LoadForRun`, `Verify`, `Announce`, `SaveRunning` | the entry of `run_campaign` (`campaign_loop.py` 290-337) |
| `FuzzingStop`, `LockoutPause`, `BudgetStop`, `BeginObjective` | the top of the loop (355-432) |
| `EvaluateAndExecute` | gate and adapter (433-456) |
| `WriteEvidence`, `RecordResult`, `PauseEvent`, `StepSave` | an executed or refused objective (458-665) |
| `StopEvent`, `StopSave` | the three `_record_...` helpers (90-287) |
| `EndLoop`, `CompleteCampaign`, `FinalSave` | the exit (667-680) |
| `WriteDecision`, `ReviewLoad`, `ReviewCheck`, `ReviewEvent`, `ReviewSave` | the operator's file and `apply_review_decision` |
| `OperatorLoad`, `OperatorEvent`, `OperatorSave` | `request_operator_stop` |
| `Crash` | the process is killed between any two of these, or an exception leaves it |

`kind[o]` is what the campaign definition makes of an objective (allowed, needs
approval, denied, lockout risk, fuzzing stop, too many requests); it never changes
because the scope and campaign hashes are checked at each start. A SHA256 is
represented by what it hashes; an event's hash by its position, which is sound
because every event carries a fresh id. The state's lists are sets; `Disjoint` is
what the duplicate checks of `validate_state` then amount to.

Some observations made while modelling that are not findings, because no document
says otherwise:

* `operator_stop` events never name the objective: `current_objective_id` is cleared
  (`campaign_control.py:104`) before the event is built (`:111`).
* `request_operator_stop` does not verify the log first; after a crash that left the
  log ahead it appends a second event with the same sequence number.
* The `operator_stop_requested` branch of the loop is unreachable: a state with that
  flag has a status that `run_campaign` refuses. It is in `StopReason` all the same.
* Lockout pauses and fuzzing stops come before the budget check.
* The consecutive-failure limit cannot be reached: a denial stops the campaign at
  once and every other outcome resets the counter.
* A first run killed before its first save leaves a log without a checkpoint, and a
  new run refuses the log.
* `campaign-resume` needs a paused checkpoint and a decision file, so a campaign
  killed while `running` can only be continued by calling `run_campaign` with the
  loaded state, as the graph does.

### `CampaignProperties`, `CampaignContract`

The properties of section 4, and the abstract specification: a reader of the
checkpoints sees objectives settled one at a time in schedule order, pauses about one
objective ended only by an answer about it, and nothing after a halt. `Contract` maps
the checkpoint file to it.

### `CampaignGraph`

`driver` says what the orchestrator process is doing, `thread` is the graph's state in
memory, `saved` what SQLite has, which may lag (`Persist` is a step of its own).
`StepBegin`/`StepRun` run one objective of the engine inside `campaign_step`;
`ReviewRun` runs `apply_review_decision` inside `human_review`; the routes are
`RouteAfterStep` and `RouteAfterReview`. `StopBetween` is a `campaign-stop` between two
invocations. LangGraph itself is external; it is modelled from the way the code uses
its saver, interrupts and snapshot.

### `AgentCampaign`

The agentic campaign is one process. `run` is the run in progress with the local
variables of `run_agentic_campaign` (`iteration`, `completed`, `requests` for
`request_count`, `used` for the registry's `RequestBudget`, `summaries`); `evidence`,
`calls` and `state` are the run directory. `sent` and `called` are history: what the
tools really sent and how often each was called.

| Action | Code |
|---|---|
| `StartRun` | `AgentCampaignWorkspace.create` on a directory that may exist, `supervisor.start` (`agentic_campaign_loop.py` 196-220) |
| `ModelFails`, `Propose` | the supervisor's answer, `evaluate_model_proposal`, the loop's request budget (222-266) |
| `Deny` | `_write_denial`, or the registry's denial record when it is the registry that refuses |
| `Call`, `UseTool`, `ToolRecord` | `NativeToolRegistry.execute`: decide and charge, run the tool, write the record; or an injected `tool_executor` |
| `ToolFailed` | the caught exceptions of a call (280-294) |
| `WriteArtifact`, `WriteProgress`, `LeaveLoop`, `WriteResult` | the rest of an iteration and of the run (295-359) |
| `Kill` | the process ends anywhere |

A proposal is any combination of an objective id (known or not), a tool, the right or a
foreign target alias, and arguments that are exactly the approved ones, others within
the rules of engagement, or others outside them. The policy insists on three objectives
with three different tools, so a tool is named by its objective. A file's SHA256 is
represented by the run that wrote it. `state/supervisor.json` is written and never read,
and is left out. Only the registry's refusals that a campaign's own rules of engagement
can give (target, scope, budget) are there; approvals and higher risk tiers cannot
arise, because the policy names three passive tools and the rules allow just those.

Before the loop calls a tool, `--target` has been taken apart and put together again:
`urlsplit` gives the host, `build_sprint14_policy` makes URLs of it,
`build_campaign_tool_roe` a scope of it, and the registry reads the URLs once more.
`run.host` is the kind of host it names, as far as the code tells them apart:

| Host | What becomes of it |
|---|---|
| `name` | any single host name or IPv4 address arrives as it was |
| `ipv6` | the URLs of the two HTTP tools lose the brackets (`model_proposal_gate.py` 141-143) and name no host or another one, which the rules refuse (`roe.py` 83); the TLS endpoint is the host itself and is allowed |
| `wildcard` | a name that is not a single host is accepted by the policy (`model_proposal_gate.py` 56-68) and refused when the rules are built (`roe.py` 51); the loop catches that as a failed tool |

`RulesCanBeBuilt` and `ExactInScope` say this of the policy's own arguments. A proposal of
arguments that are not the approved ones is denied before the registry sees it, and what
the rules would make of it for each kind of host makes no difference.

Observations that are not findings:

* A run that is given the run id of an earlier one overwrites the earlier evidence file
  by file. If it then fails, the earlier `campaign-result.json` and report are still
  there, beside evidence they no longer match. `LatestRunIsBacked` is therefore about
  the latest run.
* An exception outside the caught classes (280) ends a run whose requests were sent and
  charged with neither an `executed-` nor a `failed` record. The same holds of a direct
  executor that breaks its contract (295-298).
* The request budget is rebuilt for each run: two runs of one directory may each spend it.
* The loop's own budget check (258), the registry's budget refusal, a failing `consume`,
  and both final errors (224, 340) are unreachable behind the proposal gate. The registry
  refuses only exact arguments that the rules read as another host.
  `LaterChecksAgreeWithGate` states both; that the second happens is the finding of
  `agent_host`.
* Rules that cannot be built end the run with a `failed` record that says `executed` of a
  call that was neither made nor charged (280-294).

### `FindingLifecycle`

The commands `finding-create`, `finding-transition`, `report-review-create` and `report`
are processes that share files and take no lock. A *finding* stands for one evidence
manifest file, the verification of it, its review decision and the candidate written for
it. `evidence`, `decisions` with `review`, and `candidate` are those files; a SHA256 is
the version of the manifest, or the position of the decision, that it was taken of.
`cmd[c].cand` is the candidate a command holds in memory. `decisions` (what was ever
written) and `validations` (what a human ran a transition with `--human-validated` on)
are history.

| Action | Code |
|---|---|
| `NewEvidence` | a campaign runs again and `write_manifest` replaces the manifest |
| `ReviewCreate` | `report-review-create` (`cli.py` 516-539) |
| `Create`, `CreateHash` | `create_candidate`: the decision is read once for its contents and again for its SHA256 |
| `TransitionLoad` | `load_candidate`, `transition` (`cli.py` 541-547) |
| `WriteCandidate` | `write_candidate` of either command: validate again, replace the file |
| `GiveUp` | a command is refused, raises or is killed before it replaces the file |
| `ImportCandidate` | a candidate file from elsewhere, well formed, that says `plain` of any evidence |
| `ReportBegin`, `ReportRead` | `generate_markdown`: manifests first, then one candidate after the other |

`kind[f]` is what the manifest says (panel evidence, a mere indicator, or neither),
`candidate[f].kind` what the candidate says of itself. A command that reads a manifest at
its start and uses it later may use any version up to the current one. A decision's
contents and its SHA256 are compared in one step by `report_inclusion_allowed`: the SHA256
in a candidate is always older than both reads, positions only grow, and so a decision
replaced between the two reads is refused just as one replaced before them.

Left out: severity, confidence and evidence strength (given at creation, never changed;
they refuse a transition to `ready_for_report` always or never), the verification record
(any manifest can be given one that says `fail`), and the text of the report.

Observations that are not findings:

* Of two overlapping transitions the later write wins, and the other's history entry and
  reviewer are gone. `HistoryExplainsState` says that what is left is a history of its own.
* `finding-create` overwrites a candidate in any state, also an accepted or rejected one.
  `ConfirmationIsHuman` holds all the same, because the new one starts without the flag.
* `human_validated` stays set: a human who validates at `needs_human_review` lets a later
  transition by `system` confirm.
* A candidate that is ready for report and whose review decision is written again does
  not load any more, and one such file ends the report for all findings.
* An indicator (a component's presence, a weak algorithm) can never be confirmed: no
  command records the verification that `validate` asks for. `observed` is never assigned.
* An imported candidate that hides its panel evidence can be confirmed and made ready; the
  report leaves it out, as `docs/finding-lifecycle.md` promises.

### `Vault`

Any number of processes hold a `SensitiveVault` of one campaign. `keyfile`, `cipher`,
`metadata` and `log` are the files they share; `proc[p]` is what a process is doing, with
the key it took at its start and the request or handle in hand. `generated`, `used`,
`damaged`, `begun`, `decided` and `delivered` are history.

| Action | Code |
|---|---|
| `GetKey`, `WriteKey` | `get_or_create_key` (`campaign_key_store.py` 49-60) |
| `StoreCiphertext`, `StoreMetadata`, `StoreFails` | `store` (`sensitive_vault.py` 84-129), which may fail between its two files |
| `RequestRead` | `read_vault_material` up to the ciphertext (`agent_vault_access.py` 52-70) |
| `CheckCiphertext`, `Decrypt` | `read_raw` (`sensitive_vault.py` 156-168), which reads the ciphertext twice |
| `LogDenied`, `LogAllowed` | `append_access_log`, then the exception or the result |
| `Exit` | the process ends anywhere |
| `Damage` | a ciphertext file is damaged or replaced by another (`tests/test_sensitive_vault.py` tampers with one) |

Material is named by the handle it is stored under; a ciphertext is the key and the
material it was made of, and a SHA256 what it was taken of. A context is reduced to what
the code asks of it: whether the rules of engagement match and are approved (`roe`), the
classes it is granted, whether it has an approval reference, and whether its purpose or
the artifact kind would be taken for sensitive material by the classifier (`telling`). A
request names a class because a handle's text does.

Observations that are not findings:

* Two processes that start on a campaign without a key may each generate one. The file
  keeps the last; what the other stored before it ended is unreadable for good. Hence the
  condition in `ListedMaterialIsNotLost`.
* A read that `read_raw` refuses, or of a handle that is not on record, raises without an
  access record.
* A missing ciphertext is an `OSError` that no caller catches.
* A class given to `store` overrides the inferred one, also when that is `do_not_store`.
* Access records whose purpose or artifact kind contains a word like `poc` are refused
  just as those of recipient-only material are.
* `sensitive_annex.py:73-74` generates the annex's key and does not keep it, so that
  nobody can open the annex.
* No code deletes material or keys, or lets them expire.

### `Engagement`, `PolicyGate`

`Engagement` is what the loaders accept: `ScopeOK` (`parse_scope`), `ProfileOK`,
`ApprovalOK` and `CampaignOK` with `ObjectiveOK`, over records that hold the fields the
checks compare. Everything that is a check of one field's presence or type is the flag
`shape`; duplicate entries are `unique`. The vocabularies (fuzzing, panel and crypto
actions, payload classes, observations, stop conditions) are written out, because the
properties are about them; `Names` stands for every other word.

`PolicyGate` is one command, from its arguments to its outcome:

| Action | Code |
|---|---|
| `Load`, `HashScope` | the scope is parsed, its file is hashed (`cli.py` 171-180, 388-400) |
| `ConfirmHash` | `_validate_resume_inputs` compares file, load and checkpoint (`campaign_loop.py` 68-74) |
| `SelectCase`, `SelectNext`, `SelectNone` | the case of `run-case`, or the next objective of the schedule |
| `Gate` | `evaluate` with all its reasons (`policy_gate.py` 95-535) |
| `Refuse`, `Stub`, `Report`, `Plan` | what `execute` and the record make of the answer; `Plan` may raise |
| `Tick`, `ReplaceScope` | the clock; the operator replaces the scope file |

The gate returns the set of reasons; the code returns them as a list of texts, in an
order nothing reads. `schedule` is the recursion-free `IsNext`: the next objective is
the ready one of least priority and position.

Observations that are not findings:

* `forbidden_actions` of the scope and `prohibited_actions` of the profile are compared
  with an objective's `action` only, not with `requested_actions`.
* In live mode `requires_human_approval` is not looked at: the operator approval takes
  its place. A case file of `run-case` may set `human_approved` itself.
* `docs/human-approval-gates.md:3` lists active fuzzing among the actions that need a
  human; the gate asks for one only if the objective says so.
* Where planner or record are stricter than the gate (`NotPlannable`: an objective
  without id, module or target, or a panel without observations), they raise after the
  campaign was announced, and the campaign stays `running`.

### `WstgPlan`, `LiveCampaign`

`WstgPlan` holds the pure parts: `BuildPlan` with `Reasons` (`build_wstg_engine_plan`),
`PlanActions` and `Blocked` (`plan_campaign_actions`), `ProofRequests`, `Compare`, and the
Juice Shop runtime and profile. A test is its position in the catalogue, whose order is
that of every plan; the catalogue is a constant.

In `LiveCampaign`, `disk` is the directory, a function from file names to contents, and
`run` what the current run has in memory; `sealed` and `starts` are history. Each write to
the directory is an action that takes along what the code does in memory before it:

| Action | Code |
|---|---|
| `Start` | a configuration that was accepted; the directory is created or used again |
| `WritePlan`, `WriteQueue` | plan and action queue (`wstg_live_campaign.py` 131-153) |
| `Fetch` | one request, its observation file, the tests it marks (157-182) |
| `WriteSurface`, `WriteFindings`, `WriteProofs` | what is derived from the answers (183-223) |
| `WriteBenchmark`, `WriteState`, `WriteDecisions`, `WriteIndex`, `WriteReport`, `WriteFinalState` | the rest of the package (224-253) |
| `WriteFirstSums`, `WriteResult`, `WriteLastSums` | `SHA256SUMS`, the result, `SHA256SUMS` again (254-271) |
| `Die` | the process ends between two writes or inside one, which leaves a truncated file (`Torn`), or the fetch raises what the executor does not catch |

`run.kind` says which runner it is; `GenericNext` and `JuiceNext` are the orders of their
writes, and actions differ where the runners do. A SHA256 is the content it was taken of.
An answer is reduced to what the code reads from it: its status, whether it looks like
JSON, has the hardening headers, or holds links, scripts or forms. An answer with status
`none` stands for a request that failed: nothing was read, and so no header either.

A request that failed counts as evidence in two places. Both disagree with the documents
and are findings; `live_unanswered` shows both (`FailedRequestsAreNoEvidence`), and the
properties of the passing run name the cases and show that nothing else is wrong:

* `mark_observed` (`wstg_live_campaign.py` 173) does not look at the answer, so the tests of
  a failed request get no proof request. `EveryTestIsAccountedFor` says that these are the
  only tests which a package neither shows, nor asks for, nor blocks, nor cuts off at the
  limit.
* A failed request for the root has no headers, and both runners report header gaps
  of it (`wstg_live_campaign.py` 363, `juice_shop_campaign.py` 405). `ClaimsRestOnEvidence`
  excepts this, and one wrong citation: the Juice Shop runner's header finding cites
  `observations/http-01.json` also where the root is not the first path (416). The property
  says that there is no third case, and that in the second another file of the package
  supports the finding.

Observations that are not findings:

* The harness takes digests before the result is written and again after it. Killed in
  between, in a directory with an older package, it leaves digests that match everything
  on disk and certify the older result beside new evidence. `VerifiedPackageIsWhole`
  speaks of digests taken by the last step of a run (`sealed`); without that it is violated.
* The digest of `SHA256SUMS` among the artifacts of a result is that of the first list,
  and `agent-decisions.jsonl` is written before the last decision is made.
* The benchmark counts the tests of a failed request as detected, as the harness marks
  them as observed. The Juice Shop runner looks at the answer.
* Neither runner empties or locks its directory.

### `MC*` modules and the faulty variants

`MCCampaign`, `MCGraph`, `MCAgent`, `MCFinding`, `MCVault`, `MCGate` and `MCLive` give
the constants their values. Definitions named
`X_Variant` (for example `Complete_KeepsPending` before `Complete`) are plausible
faults of `X`. Nothing uses them; replacing `X` by its variant makes TLC violate the
property the pair is listed with in `PROJECT.json`, which shows that the property
depends on that code.

## 4. Runs

| Run | Instance | What it shows |
|---|---|---|
| `campaign` | 3 objectives of all six kinds, one command at a time, dry and live, with and without `max_steps`, 1 crash anywhere, 5 iterations, fairness | the nine invariants, five action properties and the refinement of `CampaignContract` hold; a campaign whose pauses are answered and whose commands are not killed halts (1,122,430 states) |
| `graph` | 2 objectives, orchestrator killed at most once, `campaign-stop` between invocations, fairness | thread and checkpoint never disagree so that an uninterrupted campaign is stuck; the step node repeats only after a result; it ends (107,152 states) |
| `gate` | one command; each document as it should be or with one departure (scope, profile, approval, cases of every module, campaigns), all dependency graphs over 3 objectives, 3 times, 1 replaced scope file | what the gate lets through is safe, vouched for, recordable and in order |
| `agent` | the policy's 3 objectives and smallest budget, governed and direct, every kind of host, every proposal, every tool failure, 2 runs in one directory, 1 kill, fairness | budgets agree, and gate and registry do but for a host that is lost in translation; each call is made once and is on record; the latest run's report is backed by its files; every step leaves fewer to take, and runs end (1,327,687 states) |
| `findings` | 1 finding of each kind, 2 commands, 2 reviewers, 2 replaced manifests or decisions, histories up to 4 entries | a report shows what was validated and reviewed, confirmation needs a human, histories are consistent (3,688,392 states) |
| `vault` | 2 processes, 2 handles, 2 keys, 2 reads, five kinds of callers, every handle's file damaged or replaced once, ends anywhere | a read returns what was stored, to whom it was granted, and is on record; what is listed stays (2,584,512 states) |
| `live` | 11 tests of the catalogue, 4 configurations of the two runners, 3 answers, 2 runs into one directory, each of which may die at any write | digests that verify certify one whole run, no test is lost but those of a failed request, each claim but the header finding's rests on the file it cites (188,178 states) |
| `stop_overlap` | **violation**: `campaign-stop` during `campaign-run` | the run's next save takes the stop back |
| `graph_crash` | **violation**: orchestrator killed inside a step, between an event and its save | neither `start` nor `resume` accepts the thread, and `run_campaign` refuses the log of a checkpoint that says it is running |
| `vault_log` | **violation**: recipient-only material is read, allowed or not | its access record is refused, so the attempt is on no record |
| `agent_host` | **violation**: `--target` names an IPv6 literal, governed | the registry refuses the exact arguments that the gate has approved |
| `live_unanswered` | **violation**: a harness run asks for the root alone, and the request fails | no proof is asked for the tests of a failed request, and it yields a finding about its headers |

The type invariants are in no run: section 5 proves each of them for every instance.

The five violations are what the findings in `PROJECT.json` quote the documents
against. The traces of `graph_crash` and `live_unanswered` show two findings each.

**Bounds.** `MaxCrashes = 1`: the properties relate one lost step to what follows, and
a command after a crash starts from files alone; the proofs have no such bound.
`MaxIterations` is 5 in `campaign`: three objectives with a pause each need six, so the limit is
reached, and those with one or two pauses get through. Three objectives give one before, at and after the pause
and make schedule order visible. Commands that overlap are the subject of `stop_overlap` and of
the proofs, which cover any number of them; `campaign` checks one command at a time. `MaxRequests = 5` is above what three objectives
ask and below what an `over_budget` objective asks. `SYMMETRY` is used in `findings` and
in `vault`, runs without liveness. `CHECK_DEADLOCK FALSE`
everywhere: a halted campaign has no next step. Besides the caps on crashes, kills and
runs and the finite sets of the `.cfg` files, `MaxWrites` and `MaxHistory` of `findings` are the
only bounds.

**Fairness.** `WF(Continue(p))`: a started command is ordinary sequential code and goes
on. `WF(Start)`, `WF(ReviewLoad)`, `WF(WriteDecision)`: the operator starts the
campaign, answers pauses and applies the answers, which is what the documented
procedure asks; `campaign-stop` is never required. The graph has the same assumptions
about its own steps. `EventuallyHalts` and `GraphHalts` are conditional on not being killed:
`graph_crash` shows why.
`WF(AgentStep)`: a run that was started is sequential code, the supervisor makes at most
two attempts, and the tools have timeouts; starting a run and killing one are never
required. In `agent`, `MaxRuns = 2` gives an earlier run whose files a later one
overwrites, `MaxKills = 1` a kill in either; `MaxRequests = 4` is the least the policy
accepts, and `Hosts` has all three kinds. In `findings`, `MaxWrites = 2` allows a decision and the manifest or decision that
replaces it; `MaxHistory = 4` is the length at which a candidate becomes ready for report,
so the states after `ready_for_report` are reached by the proofs only. Findings do not
share files, which is why one is enough; the reviewers are symmetric. In `vault`, two keys
are what two first users generate, and the second handle is what a ciphertext can be
replaced by; the five callers are one without rules of engagement, one whose record is
refused, and grants of one class or three with and without an approval. All its variables
are bounded by these sets, so it has no other bound. In `gate`, the documents of `MCGate`
depart from a consistent set in one place each, one for each kind of reason of `evaluate`,
refusal of a loader and way in which planner or record raise; all
512 dependency graphs over three objectives are there, cyclic ones included; the clock's
three times are before, within and after a window, and one replaced scope file is the
one that matters. In `live`, two runs (`MaxRuns = 2`) leave the package of one under that
of the other, of the same or of the other runner; the excerpt of the catalogue has tests
for every rule of the runners and two that the profile puts off; the configurations have
limits below and above what there is to do, the root first, last, repeated and absent;
the answers are a page without headers, a server error in JSON with all of them, and
none. `live_unanswered` needs one run and one request.
Neither `gate` nor `live` states liveness: a command is sequential code that ends or is killed.

## 5. Proofs

`CampaignLoop_proofs` proves for **every** set of objectives, schedule, kinds, number of
processes (overlapping or not), modes, step caps and number of crashes, from
`CampaignAssumption` and `BudgetAssumption` only:

* `TypeCorrectness`: `[]TypeOK`;
* `PartitionIsKept`: `[]EveryObjectiveHasOneDisposition`;
* `SavesSucceed`: `[]SavesAreNeverRefused`;
* `HumanGate`: `[]ApprovalPrecedesExecution`;
* `IterationsAreBounded`: `[]IterationLimitIsHard`;
* `CommandsComeToAnEnd`: `EveryStepIsProgress`, and `StepsLeft` is in
  `0 .. 6 * MaxIterations + 14` for every command.

None of these is inductive alone. `InductiveInvariant` proves `[]IInv`, where `IInv`
adds to the type invariant what each program counter knows of the private state: which
copies are valid and how the objective in hand relates to them, that every objective in
any copy's `reviewed` set has an approving `review_decision` in the log, that a copy
at the gate is within its iteration limit and that its iteration number is carried
unchanged to the result. The link from `reviewed` to the log is the heart: it must hold for **every**
copy (checkpoint, decision file, each process), because overlapping commands write any
of them back. The log only grows, so the fact is stable, and this is why the human gate
survives crashes and overlaps that break the checkpoint itself.
One lemma per action shows that it keeps `IInv`; `ContinueStep` collects those of a running command.

`EveryStepIsProgress` is the part of liveness that is within the prover's reach: no
command loops. `StepsLeft` counts what a command can still do from its private state
alone: the steps that are left of the pass of the loop it is in (`StepsToEnd`), and as
many full passes as its iteration number leaves of the limit (`PassesLeft`). Most steps
go down in the first; only `RecordResult` buys more of these, with an iteration, and the
clause of `IInv` that a copy at the gate is within its limit (and carries its number to
the result) means that there was one to spend. Nothing in the measure is a file, so it holds whatever
overlapping commands write and whatever a crash left.

`CampaignSerial_proofs` proves what holds only when operators run **one command at a
time**. Each theorem has the assumption `Exclusive`, under which a command starts only
when none is in progress; the constant is the operators' habit that the code relies on
and does not enforce, and `stop_overlap` shows the first thing that fails without it. A
command may still be killed at any step, any number of times:

* `CompletionsAreEarned`: `[]CompletionIsEarned`;
* `LogKeepsItsEvidence`: `[]LogRefersToItsEvidence`;
* `IterationsAreNotReused`: `[]OneResultPerIteration`;
* `FilesAgreeAtRest`: `[]QuiescentFilesAgree`;
* `DispositionsStay`: `DispositionsAreFinal`;
* `HaltsAreFinal`: `HaltIsFinal`;
* `AnswersAreFresh`: `DecisionsBindToTheirCheckpoint`;
* `RecordedRunsStay`: `RecordedRunsAreNotRepeated`;
* `RunsAreCounted`: `[]OnlyCrashesRepeatRuns`;
* `EngineImplementsContract`: `ImplementsContract`.

`SerialInvariant` proves `[]SInv`, on top of `IInv`. It has three ideas. A command is at
most one step of the campaign ahead of the checkpoint, and `LeadsTo` says which: it
repeats what is there, finishes, stops at or asks about the due objective, ends the
schedule, applies the answer, or stops for the operator. A state that **matches** the log
accounts for all of it (`UpToDate`): no line names an iteration from the state's own
onwards, and no pending objective has a final result. What a state calls completed is
backed by a line of the log and its manifest (`WellFounded`). Crashes are harmless for
one reason: a command killed between its event and its save leaves a checkpoint behind
the log, and such a checkpoint never matches again, because the log only grows; so
`UpToDate` holds of it trivially, and no command that checks the log builds on it.
`campaign-stop` is the one command that does not check the log, and it only stops. For
the contract, the refinement mapping reads the checkpoint alone: every save is a
`LeadsTo` step, and each kind of these is a step of `ContractNext` or a stutter.

`RunsAreCounted` bounds how often an adapter runs for one objective: once, and once
more for each command that was killed. The count alone is not inductive: it must be known
that an objective which is about to be run has been run at most `crashes` times.
`EInv` says so of every objective the campaign still `ComesTo`: one that is pending in a
state which the event log confirms, unless it waits for the review after its run. The
exception is the command that `HasRun` the adapter and has not logged the result. Logging
it ends the exception, because the result settles the objective or sends it to that
review; a kill ends it too, and raises the bound. The bound is reached: a command
killed between the run and the event leaves nothing that says the adapter ran.

`CampaignGraph_proofs` proves `GraphImplementsEngine` (`GraphSpec => Spec`: every step of
the orchestrator is a step of the engine or leaves its files alone) and from it
`GraphKeepsTheGate`. For one command at a time it also proves

* `ThreadsFollow`: `[]ThreadFollowsCheckpoint`;
* `OnlyAKillStrands`: `[]UninterruptedCampaignCanGoOn`;
* `LoopSpendsIterations`: `StepNodeRepeatsOnResults`.

`GraphInvariant` proves `[]GInv`, on top of the engine's `SInv`: `Driven` says which command
can be in progress for each thing the orchestrator does, `Routed` that the node it goes
to follows from the checkpoint the last command saved, and `Unbroken` that until a kill a
saved thread stands before a review, at the end, or nowhere, and the checkpoint agrees.
That a checkpoint which has halted stays so is the engine's `LeadsTo` again, and what makes
an ended thread's claim stable.
`StepInv` follows one run of the step node: it starts with a cap of one objective and
none done, so a run that comes to its exit with objectives left and the campaign still
running has recorded a result, whose line is still the last of the log. With
`CommandsComeToAnEnd` and `IterationsAreBounded` this is the argument behind
`GraphHalts`, whose fairness part TLC checks.

`AgentCampaign_proofs` proves, from `AgentAssumption` (three objectives, a budget of at
least four requests) and for any number of runs and kills:

* `AgentTypeCorrectness`: `[]AgentTypeOK`;
* `NoUnpaidRequest`: `[]RequestsArePaidFor`;
* `NoRepeatedCall`: `[]EachObjectiveOnce`;
* `RefusalsAreConversions`: `[]LaterChecksAgreeWithGate`;
* `ReportsAreBacked`: `[]LatestRunIsBacked`;
* `EndsAreExplained`: `[]EveryEndIsOnRecord`;
* `RunsComeToAnEnd`: `EveryStepIsProgress`, and `StepsLeft` is in `0 .. 25`.

`AgentInvariant` proves `[]AInv`. Its core ties both counters to the set of completed
objectives: the loop's count is what they cost (`Spent`), the iteration is one more than
their number, and the registry's count is the loop's plus the cost of the call in
progress. From there arithmetic does the rest: three objectives, one of them two
requests, never cost more than four, so there is always room for one more
(`RoomForOneMore`), and all three cost exactly the four that the final contract demands
(`AllCostFour`). That the registry refuses nothing else, and that no tool is called with
arguments the rules read as another host, is `Judged`: what the registry made of a call is
known of the run until it ends or the tool is used.

`RecordInvariant` proves `[]RInv`, which follows the run directory. A file's contents name the
run that wrote it, so that those an earlier run left can be told from this run's own
(`Mine`). Each completed objective has a summary and each summary such an artifact
(`Summarised`); iterations are numbered upwards, so no later artifact of this run overwrites one. The
progress file is what the run had in memory when it last completed something, and a
result is its last act (`Reported`); an ending is decided in the step that writes its
explanation (`Explained`).

`RunsComeToAnEnd` is the argument behind `RunsEnd`. An iteration takes a run at most six
steps from one proposal to the next (`StepsToNext`), only `WriteProgress` leads back to a
proposal, and it spends one of the three iterations; a denial, a failure, an exhausted
budget and a kill end the run. `StepsLeft` adds these up from the iteration and the
program counter, whose bounds come from `AInv`.

`FindingLifecycle_proofs` proves, for any number of findings, commands, reviewers, manifests
and decisions:

* `FindingTypeCorrectness`: `[]FindingTypeOK`;
* `ReportsAreReviewed`: `[]ReportedFindingsAreReviewed`;
* `HumansConfirm`: `[]ConfirmationIsHuman`;
* `HistoriesExplain`: `[]HistoryExplainsState`.

`FindingInvariant` proves `[]FInv`. None of the properties is inductive, because a command
writes back what it loaded long before: `FInv` therefore says of **every** candidate, in a
file or in a command's memory, that it is `Sound`: its flag, and its state if that is one
that follows confirmation, rest on a validation of its manifest, and its history explains
its state. Validations and decisions only grow, so a sound copy stays sound whatever
happens to the file meanwhile. A report's clause about the reviewer comes from the
position of the decision in the candidate and `DecisionsFiled`, that a finding's review
file holds a decision about that finding.

`Vault_proofs` proves, for any number of processes, handles, keys and reads and any
contexts, from `VaultAssumption` (the model values differ from what they stand beside):

* `VaultTypeCorrectness`: `[]VaultTypeOK`;
* `ReadsAreGenuine`: `[]ReadsReturnWhatWasStored`;
* `DeliveriesAreAudited`: `[]DeliveriesAreGrantedAndLogged`;
* `ListedMaterialIsKept`: `[]ListedMaterialIsNotLost`.

`VaultInvariant` proves `[]VInv`. `KeysAreKept` says that every key in use was generated and
that nothing is encrypted before some key is in the file, which gives the clause about the
only key. `FilesAreSound` says that a record names its own handle and, unless the file was
damaged, the ciphertext that is there; `ProcessesAreSound` that a storing process is the
only one with its handle and that a reading one was granted the class that is on record.
The class on record never changes once written, and this is why a grant examined before
the ciphertext is read still holds when it is handed out. `MoveKeepsVInv` is the lemma for
the many steps that only take one process further.

`PolicyGate_proofs` proves, for any names, documents and clock and any number of
replaced scope files, from `GateAssumption` (the inputs are typed, an objective's
action is one of those it asks for, a resumed campaign has a checkpoint):

* `GateTypeCorrect`: `[]GateTypeOK`;
* `AllowedIsSafe`: `[]AllowedWorkIsSafe`;
* `ScopeIsVouchedFor`: `[]ScopeInUseIsVouchedFor`;
* `AllowedIsRecorded`: `[]AllowedWorkIsRecorded`;
* `DependenciesComeFirst`: `[]DependenciesFirst`.

`GateInvariant` proves `[]GInv`: what is loaded was accepted by its loader; as long as
nobody edited the file, load, hash and file agree; an empty set of reasons means that
the checks of category, module and approval have passed for the objective at hand; and
everything taken from the schedule was planned, except what is at hand. Safety is then a
fact about operators: a loader that accepts no unsafe name in an approved list
(`FuzzingOK`, `PanelOK`) and a gate that accepts only approved names together leave
none, although neither checks it alone. That a campaign which loads is never stuck comes
from `Acyclic`, that every set of objectives has one which depends on none of them: among
the objectives left some are ready, and the one of least rank exists because ranks are
natural numbers.

`LiveCampaign_proofs` proves, for every catalogue, every set of configurations and
answers and any number of runs into one directory, from `CatalogAssumption` (a catalogue
is a sequence of cases and refuses two with one identifier) and `ConfigsAssumption` (a
configuration's paths are a tuple of strings):

* `PackageCorrect`: `[]VerifiedPackageIsWhole`;
* `TestsAreAccountedFor`: `[]EveryTestIsAccountedFor`;
* `ClaimsAreBacked`: `[]ClaimsRestOnEvidence`.

The properties are about files that different runs may have written, and are not
inductive. `PackageInvariant` proves `[]IInv`, which follows the files: what a run keeps
among its artifacts is what is on disk (`Memory`), and later decisions refer only to what
was written (`Earlier`); so the result describes the disk when it is written
(`AtTheEnd`), and so do the digests taken right after it (`SealedSums`). A later run may
overwrite files or die anywhere, but it does not write to sealed digests without
unsealing or tearing them, so that digests which still verify carry their description
over to the disk.

`EvidenceInvariant` proves `[]EInv`, which follows what the files say. `Tells` is the
account a run can give of itself: each file derived so far was derived from the answers
and tests in memory (`Derived`), every observed test is named by a decision (`Claimed`,
with one exception that lasts one write: the tests which the Juice Shop runner reads off
the surface are named by the decision about the findings), and the API test was observed
only if an API answered (`Answered`). Of the harness `Answered` also says that it has observed
the tests of exactly its requests, answered or failed, which is what leaves those of a
failed one as the only tests without a place. The order of the writes matters here: the harness
compares and asks only after the last write that adds to what was observed. The account
is handed to the result and then to the digests, where it outlives the run. What remains
are two facts about operators: `FirstOnes`, that of a set of numbers of which the first so
many are taken each one left out comes after all of them, proved from a least and a
greatest member instead of by induction (`LeastMember`); and `FirstPath`, that the Juice
Shop runner begins with the first path it is given, so that its first observation is the
root's if the root is the first path. `FindingsAreSupported` splits the header finding
into its cases: of a response it is supported, by the cited file or by the root's own.

**Only model-checked.** Every safety invariant and every action property of the passing
runs is stated by a theorem. Liveness (`EventuallyHalts`, `GraphHalts`, `RunsEnd`) and
anything about `ENABLED` are outside what TLAPS proves here: what is proved is that
commands, runs and the graph's loop use up a bounded measure, not that fair scheduling
takes them to its end. Outside are also induction over data
and `RECURSIVE` operators, which these modules do not use.

## 6. Not modelled

* **The report package and its submission** (`report_package.py`, `submission_gate.py`):
  functions that no command calls, over finished reports.
* **Two live campaigns at once in one directory**: nothing in the code allows or excludes
  them. Two runs one after the other, and killed ones, are modelled.
* **The rest of `wstg/`**: `coverage.py`, `execution_adapter.py`, `objective_generator.py`
  and `strategy_map.py` are pure functions that no loop of the platform calls; the
  metadata readers convert one document to another. The full catalogue of 97 tests is a
  table of which `live` takes an excerpt.
* **Pure input and output**: argument parsing and printing (`cli.py` and the other
  command lines), the network and subprocess tools (`agent_tools/`), the container
  commands of `lab_targets/`, the local model behind the supervisor. What their callers
  can tell apart (an answer, a failure, an exception nobody catches) is in the modules
  above.
* **Functions without state**: planner, verifier, classifiers, static reviews, parsers
  of `integrations/`, dry-run adapters, redaction, tables of test cases. They turn one
  document into another and unit tests reach them.
* **Abstracted data**: hashes are what they hash, times only order where the code
  compares them, contents of evidence are not represented. Collisions and a damaged file
  system are out of scope.
* **Not checked about modelled parts**: what the dry-run adapters answer beyond the class
  of the outcome; manifests' contents; symbolic links and file modes.
