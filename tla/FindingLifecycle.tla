-------------------------- MODULE FindingLifecycle --------------------------
(***************************************************************************)
(* Findings from evidence to report: finding_candidate.py,                 *)
(* finding_lifecycle.py, report_review.py and reporter.py, driven by the   *)
(* commands finding-create, finding-transition, report-review-create and   *)
(* report.  Each command is a process; they share files and take no lock.  *)
(* One action is the code between two accesses to the files.               *)
(*                                                                         *)
(* A finding stands for one evidence manifest file, the verification, the  *)
(* review decision and the candidate written for it.                       *)
(***************************************************************************)
EXTENDS Integers, Sequences

CONSTANTS
  Findings,
  Commands,      \* processes
  Reviewers,     \* people who review panel evidence
  NoOne,         \* the reviewer of evidence that needs no review
  NoCandidate,   \* there is no candidate file
  MaxWrites,     \* bound on the manifests and review decisions written
  MaxHistory     \* bound on the entries of a candidate's history

ASSUME FindingAssumption ==
  /\ NoOne \notin Reviewers
  /\ MaxWrites \in Nat /\ MaxHistory \in Nat

FINDING_STATES ==
  {"observed", "candidate", "needs_reproduction", "needs_human_review",
   "confirmed", "duplicate_risk", "out_of_scope", "not_security_impacting",
   "ready_for_report", "submitted_manually", "accepted", "rejected", "paid"}

ALLOWED_TRANSITIONS ==
  {"observed"} \X {"candidate", "out_of_scope", "not_security_impacting"}
  \union {"candidate"} \X {"needs_reproduction", "needs_human_review", "duplicate_risk"}
  \union {"needs_reproduction"} \X {"candidate", "needs_human_review", "not_security_impacting"}
  \union {"needs_human_review"} \X {"confirmed", "duplicate_risk", "out_of_scope",
                                    "not_security_impacting"}
  \union {<<"confirmed", "ready_for_report">>, <<"ready_for_report", "submitted_manually">>}
  \union {"submitted_manually"} \X {"accepted", "rejected", "duplicate_risk"}
  \union {<<"accepted", "paid">>}

\* What the manifest's module makes of the evidence: "panel" evidence needs a
\* review decision; an "indicator" (a component's presence, a weak algorithm)
\* needs a verification that no command can record.
Kinds == {"plain", "panel", "indicator"}

VARIABLES
  kind,         \* kind[f], never changes
  evidence,     \* evidence[f], the version of the manifest on disk
  writes,       \* number of manifests and decisions written
  decisions,    \* every review decision written (history)
  review,       \* review[f], the position in decisions of the file, or 0
  candidate,    \* candidate[f], the candidate file
  cmd,          \* cmd[c], the command a process runs
  reporter,     \* the candidates a report has yet to read, those it includes
  validations   \* what a human has validated (history)

files == <<kind, evidence, writes, decisions, review, candidate>>
findingVars == <<files, cmd, reporter, validations>>

Versions == 1 .. MaxWrites + 1
Decisions == [f: Findings, manifest: Versions, reviewer: Reviewers]
Moves == [from: FINDING_STATES \union {"none"}, to: FINDING_STATES]
\* kind is what the candidate itself says of its evidence.
Candidates ==
  [state: FINDING_STATES, validated: BOOLEAN, kind: Kinds,
   manifest: Versions, reviewer: Reviewers \union {NoOne}, review: Nat,
   history: Seq(Moves)]

Idle == [pc |-> "idle"]
Entries == [f: Findings, manifest: Versions, reviewer: Reviewers \union {NoOne}]

-----------------------------------------------------------------------------
(* Gates *)

\* report_inclusion_allowed; needed is what the caller takes for the
\* requirement: the candidate's own field, or the manifest's module.
ReviewStands(f, c) ==
  /\ c.kind = "panel"
  /\ c.state = "ready_for_report"
  /\ c.validated
  /\ c.review # 0
  /\ c.review = review[f]
  /\ decisions[c.review].manifest = c.manifest
  /\ decisions[c.review].reviewer = c.reviewer
InclusionAllowed(f, c, needed) == needed => ReviewStands(f, c)

\* FindingCandidate.validate; that a ready finding has a severity and enough
\* evidence is left out, both are given at its creation and never change.
Valid_ReportOnly(f, c) ==
  /\ c.kind = "panel" => c.reviewer # NoOne /\ c.review # 0
  /\ c.state = "ready_for_report" =>
       /\ c.validated
       /\ c.kind # "indicator"
       /\ InclusionAllowed(f, c, c.kind = "panel")
Valid(f, c) ==
  /\ c.kind = "panel" => c.reviewer # NoOne /\ c.review # 0
  /\ c.state \in {"confirmed", "ready_for_report"} =>
       c.validated /\ c.kind # "indicator"
  /\ c.state = "ready_for_report" => InclusionAllowed(f, c, c.kind = "panel")

\* generate_markdown includes a candidate.
Reportable_TrustsCandidate(f, c) ==
  /\ c.state = "ready_for_report"
  /\ InclusionAllowed(f, c, c.kind = "panel")
  /\ c.kind # "indicator"
Reportable(f, c) ==
  /\ c.state = "ready_for_report"
  /\ InclusionAllowed(f, c, kind[f] = "panel")
  /\ kind[f] # "indicator"

\* transition
Moved_ForgetsHistory(c, new, human) ==
  [c EXCEPT !.state = new, !.validated = @ \/ human]
Moved(c, new, human) ==
  [c EXCEPT !.state = new, !.validated = @ \/ human,
            !.history = Append(@, [from |-> c.state, to |-> new])]

-----------------------------------------------------------------------------
(* Evidence, verification and review *)

\* A campaign runs again and replaces the manifest.
NewEvidence(f) ==
  /\ writes < MaxWrites
  /\ writes' = writes + 1
  /\ evidence' = [evidence EXCEPT ![f] = @ + 1]
  /\ UNCHANGED <<kind, decisions, review, candidate, cmd, reporter, validations>>

\* report-review-create reads a manifest and later writes a decision about it;
\* it is refused for evidence that needs no review.
ReviewCreate(f, version, person) ==
  /\ kind[f] = "panel"
  /\ version \in 1 .. evidence[f]
  /\ writes < MaxWrites
  /\ writes' = writes + 1
  /\ decisions' = Append(decisions, [f |-> f, manifest |-> version, reviewer |-> person])
  /\ review' = [review EXCEPT ![f] = Len(decisions) + 1]
  /\ UNCHANGED <<kind, evidence, candidate, cmd, reporter, validations>>

-----------------------------------------------------------------------------
(* finding-create and finding-transition *)

Fresh(version, claimed, reviewer) ==
  [state |-> "candidate", validated |-> FALSE, kind |-> claimed,
   manifest |-> version, reviewer |-> reviewer, review |-> 0,
   history |-> <<[from |-> "none", to |-> "candidate"]>>]

\* create_candidate: the manifest was read first and may have been replaced
\* since.  The decision must be about it if the evidence needs one.  So must
\* the verification, which says FAIL of any manifest sooner or later.
Create(c, f, version) ==
  /\ cmd[c] = Idle
  /\ version \in 1 .. evidence[f]
  /\ IF kind[f] = "panel"
       THEN /\ review[f] # 0
            /\ decisions[review[f]].manifest = version
            /\ cmd' = [cmd EXCEPT ![c] = [pc |-> "hash", f |-> f,
                 cand |-> Fresh(version, "panel", decisions[review[f]].reviewer)]]
       ELSE cmd' = [cmd EXCEPT ![c] = [pc |-> "write", f |-> f,
                      cand |-> Fresh(version, kind[f], NoOne)]]
  /\ UNCHANGED <<files, reporter, validations>>

\* The decision file is read again for its SHA256.
CreateHash(c) ==
  LET hashed == [cmd[c].cand EXCEPT !.review = review[cmd[c].f]] IN
  /\ cmd[c].pc = "hash"
  /\ cmd' = [cmd EXCEPT ![c] = [pc |-> "write", f |-> cmd[c].f, cand |-> hashed]]
  /\ UNCHANGED <<files, reporter, validations>>

\* load_candidate and transition
TransitionLoad(c, f, new, human) ==
  /\ cmd[c] = Idle
  /\ candidate[f] # NoCandidate
  /\ Len(candidate[f].history) < MaxHistory
  /\ Valid(f, candidate[f])
  /\ <<candidate[f].state, new>> \in ALLOWED_TRANSITIONS
  /\ LET moved == Moved(candidate[f], new, human) IN
       /\ Valid(f, moved)
       /\ cmd' = [cmd EXCEPT ![c] = [pc |-> "write", f |-> f, cand |-> moved]]
  /\ validations' = IF human
       THEN validations \union {[f |-> f, manifest |-> candidate[f].manifest]}
       ELSE validations
  /\ UNCHANGED <<files, reporter>>

\* write_candidate validates again and replaces the file, whatever it holds.
WriteCandidate(c) ==
  /\ cmd[c].pc = "write"
  /\ Valid(cmd[c].f, cmd[c].cand)
  /\ candidate' = [candidate EXCEPT ![cmd[c].f] = cmd[c].cand]
  /\ cmd' = [cmd EXCEPT ![c] = Idle]
  /\ UNCHANGED <<kind, evidence, writes, decisions, review, reporter, validations>>

\* A command is refused, raises or is killed; it has changed nothing.
GiveUp(c) ==
  /\ cmd[c] # Idle
  /\ cmd' = [cmd EXCEPT ![c] = Idle]
  /\ UNCHANGED <<files, reporter, validations>>

\* A candidate file from elsewhere, which takes any evidence for plain.
ImportCandidate(f, version) ==
  /\ candidate[f] = NoCandidate
  /\ version \in 1 .. evidence[f]
  /\ candidate' = [candidate EXCEPT ![f] = Fresh(version, "plain", NoOne)]
  /\ UNCHANGED <<kind, evidence, writes, decisions, review, cmd, reporter, validations>>

-----------------------------------------------------------------------------
(* report *)

NewReport == [todo |-> Findings, included |-> {}]

\* Once every candidate is done with, the report is printed.
ReportBegin ==
  /\ reporter.todo = {}
  /\ reporter' = NewReport
  /\ UNCHANGED <<files, cmd, validations>>

\* The manifest was read first and may have been replaced since.  A candidate
\* that does not load, or is about another manifest, ends the report.
ReportRead(f, version) ==
  LET c == candidate[f]
      entry == [f |-> f, manifest |-> version, reviewer |-> c.reviewer]
  IN /\ f \in reporter.todo
     /\ version \in 1 .. evidence[f]
     /\ reporter' =
          IF c = NoCandidate THEN [reporter EXCEPT !.todo = @ \ {f}]
          ELSE IF ~Valid(f, c) \/ c.manifest # version THEN NewReport
          ELSE [todo |-> reporter.todo \ {f},
                included |-> IF Reportable(f, c) THEN reporter.included \union {entry}
                             ELSE reporter.included]
     /\ UNCHANGED <<files, cmd, validations>>

-----------------------------------------------------------------------------

FindingInit ==
  /\ kind \in [Findings -> Kinds]
  /\ evidence = [f \in Findings |-> 1]
  /\ writes = 0
  /\ decisions = << >>
  /\ review = [f \in Findings |-> 0]
  /\ candidate = [f \in Findings |-> NoCandidate]
  /\ cmd = [c \in Commands |-> Idle]
  /\ reporter = NewReport
  /\ validations = {}

FindingNext ==
  \/ \E f \in Findings :
       \/ NewEvidence(f)
       \/ \E version \in Versions :
            \/ \E person \in Reviewers : ReviewCreate(f, version, person)
            \/ ImportCandidate(f, version)
            \/ ReportRead(f, version)
  \/ \E c \in Commands :
       \/ \E f \in Findings :
            \/ \E version \in Versions : Create(c, f, version)
            \/ \E new \in FINDING_STATES, human \in BOOLEAN :
                 TransitionLoad(c, f, new, human)
       \/ CreateHash(c)
       \/ WriteCandidate(c)
       \/ GiveUp(c)
  \/ ReportBegin

FindingSpec == FindingInit /\ [][FindingNext]_findingVars

-----------------------------------------------------------------------------
(* Properties *)

(***************************************************************************)
(* Type invariant: the files and what a command holds of them.             *)
(***************************************************************************)
CommandStates ==
  {Idle}
  \union [pc: {"hash", "write"}, f: Findings, cand: Candidates]
FindingTypeOK ==
  /\ kind \in [Findings -> Kinds]
  /\ evidence \in [Findings -> Versions]
  /\ decisions \in Seq(Decisions)
  /\ review \in [Findings -> 0 .. Len(decisions)]
  /\ candidate \in [Findings -> Candidates \union {NoCandidate}]
  /\ cmd \in [Commands -> CommandStates]
  /\ reporter \in [todo: SUBSET Findings, included: SUBSET Entries]
  /\ writes \in Nat
  /\ validations \subseteq [f: Findings, manifest: Versions]

(***************************************************************************)
(* Whatever commands overlap, and whatever evidence, decision or candidate *)
(* is replaced meanwhile: a finding in a report was validated by a human   *)
(* on the very manifest that the report shows; an indicator alone is never *)
(* in it; and panel evidence was reviewed, as that manifest, by the        *)
(* reviewer whom the report names.                                         *)
(***************************************************************************)
ReportedFindingsAreReviewed ==
  \A e \in reporter.included :
    /\ [f |-> e.f, manifest |-> e.manifest] \in validations
    /\ kind[e.f] # "indicator"
    /\ kind[e.f] = "panel" => \E i \in DOMAIN decisions : decisions[i] = e

(***************************************************************************)
(* Confirmation, and all that comes after it, rests on a human who         *)
(* validated a candidate for the same manifest; also when the candidate    *)
(* was created again, or written by overlapping commands.                  *)
(***************************************************************************)
Settled == {"confirmed", "ready_for_report", "submitted_manually", "accepted",
            "rejected", "paid"}
ConfirmationIsHuman ==
  \A f \in Findings :
    candidate[f] # NoCandidate /\ candidate[f].state \in Settled =>
      [f |-> f, manifest |-> candidate[f].manifest] \in validations

(***************************************************************************)
(* The history in a candidate file leads from its creation to its state,   *)
(* by allowed transitions only, whichever command wrote it last.           *)
(***************************************************************************)
Explains(c) ==
  LET h == c.history IN
    /\ h # << >>
    /\ h[1] = [from |-> "none", to |-> "candidate"]
    /\ \A i \in 2 .. Len(h) :
         /\ h[i].from = h[i - 1].to
         /\ <<h[i].from, h[i].to>> \in ALLOWED_TRANSITIONS
    /\ h[Len(h)].to = c.state
HistoryExplainsState ==
  \A f \in Findings : candidate[f] # NoCandidate => Explains(candidate[f])

=============================================================================
