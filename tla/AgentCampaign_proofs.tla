------------------------ MODULE AgentCampaign_proofs ------------------------
(***************************************************************************)
(* The two request counters, the proposal gate and the registry agree for  *)
(* every policy with three objectives and a budget of at least four        *)
(* requests, every sequence of proposals, tool failures, runs and kills.   *)
(* The second part follows the run directory: what its latest result       *)
(* claims is backed by files of that run, and every end is on record.      *)
(***************************************************************************)
EXTENDS AgentCampaign, FiniteSetTheorems, TLAPS

\* What the completed objectives cost.
Spent(done) == Cardinality(done) + (IF WellKnown \in done THEN 1 ELSE 0)

Approved == {"call", "tool", "tool_record", "tool_failed", "artifact", "progress"}
Charging == {"tool", "tool_record", "artifact"}
BeforeTool == {"propose", "deny", "call"}

\* Every objective completed was asked for in an iteration of its own.
Counted ==
  run.pc # "ended" =>
    /\ run.iteration = Cardinality(run.completed) + 1
    /\ run.requests =
         Spent(run.completed) + (IF run.pc = "progress" THEN Cost(run.proposal.obj) ELSE 0)

\* What has passed the gate is the objective's own call.
PassedTheGate ==
  run.pc \in Approved =>
    /\ run.proposal.obj \in Objectives \ run.completed
    /\ run.proposal.tool = run.proposal.obj
    /\ run.proposal.ours
    /\ run.proposal.args = "exact"

\* The registry's count runs ahead of the loop's by the call in progress; a call
\* that failed was charged or could not be judged.
Charges ==
  run.mode = "governed" /\ run.pc \notin {"ended", "tool_failed"} =>
    run.used = run.requests + (IF run.pc \in Charging THEN Cost(run.proposal.obj) ELSE 0)

Sendings ==
  run.mode = "governed" =>
    /\ run.used <= MaxRequests
    /\ sent <= run.used
    /\ run.pc \in BeforeTool \union {"result"} => sent <= run.requests
    /\ run.pc = "tool" => sent <= run.requests

Callings ==
  \A o \in Objectives :
    /\ called[o] <= 1
    /\ run.pc # "ended" /\ o \notin run.completed =>
         called[o] = 0 \/ (run.pc \in Approved \ {"call", "tool"} /\ o = run.proposal.obj)

\* The registry refuses what the rules read as another host, and nothing else;
\* how a run ends is only said when it has.
Judged ==
  /\ run.pc # "ended" => run.ending = "none"
  /\ run.pc = "refuse" => ~ExactInScope(run.proposal.tool)
  /\ run.pc = "tool" /\ run.mode = "governed" => ExactInScope(run.proposal.tool)

\* An iteration beyond the last proposes nothing; an artifact is on disk before
\* its progress is recorded.
InBounds ==
  /\ run.pc \notin {"propose", "result", "ended"} => run.iteration <= MaxIterations
  /\ run.pc = "progress" => <<run.iteration, run.proposal.obj>> \in DOMAIN evidence

AInv ==
  /\ AgentTypeOK
  /\ InBounds
  /\ run.pc # "over_budget"
  /\ LaterChecksAgreeWithGate
  /\ Judged
  /\ Counted
  /\ PassedTheGate
  /\ Charges
  /\ Sendings
  /\ Callings

-----------------------------------------------------------------------------
(* The cost of a set of objectives *)

\* A set of completed objectives is finite and has at most three members.
LEMMA CompletedIsSmall ==
  ASSUME NEW done \in SUBSET Objectives
  PROVE  /\ IsFiniteSet(done)
         /\ Cardinality(done) \in Nat
         /\ Cardinality(done) <= 3
         /\ Spent(done) \in Nat
         /\ Cardinality(done) = 3 => done = Objectives
  BY AgentAssumption, FS_Subset, FS_CardinalityType DEF Spent

\* Completing one more objective costs what its tool costs.
LEMMA CostOfOneMore ==
  ASSUME NEW done \in SUBSET Objectives, NEW o \in Objectives \ done
  PROVE  /\ Cardinality(done \union {o}) = Cardinality(done) + 1
         /\ Spent(done \union {o}) = Spent(done) + Cost(o)
         /\ Cardinality(done) < 3
  <1>1. Cardinality(done \union {o}) = Cardinality(done) + 1
    BY CompletedIsSmall, FS_AddElement
  <1>2. Cardinality(done \union {o}) <= 3
    <2>1. done \union {o} \in SUBSET Objectives
      OBVIOUS
    <2>. QED
      BY <2>1, CompletedIsSmall
  <1>3. Spent(done \union {o}) = Spent(done) + Cost(o)
    BY <1>1, CompletedIsSmall DEF Spent, Cost
  <1>. QED
    BY <1>1, <1>2, <1>3, CompletedIsSmall

\* Three objectives, one of them two requests: never more than four.
LEMMA AtMostFour ==
  ASSUME NEW done \in SUBSET Objectives
  PROVE  Spent(done) <= 4
  BY CompletedIsSmall DEF Spent

\* All three objectives cost exactly the four requests of the contract.
LEMMA AllCostFour ==
  ASSUME NEW done \in SUBSET Objectives, Cardinality(done) = 3
  PROVE  Spent(done) = 4 /\ done = Objectives
  BY CompletedIsSmall, AgentAssumption DEF Spent

\* The smallest budget the policy accepts always leaves room for one more.
LEMMA RoomForOneMore ==
  ASSUME NEW done \in SUBSET Objectives, NEW o \in Objectives \ done
  PROVE  /\ Spent(done) + Cost(o) <= MaxRequests
         /\ Cost(o) \in 1 .. 2
  <1>1. done \union {o} \in SUBSET Objectives
    OBVIOUS
  <1>2. Spent(done \union {o}) <= 4
    BY <1>1, AtMostFour
  <1>. QED
    BY <1>2, CostOfOneMore, CompletedIsSmall, AgentAssumption DEF Cost

-----------------------------------------------------------------------------
(* One lemma for each action *)

USE DEF Approved, Charging, BeforeTool

\* The record of a run that has not begun.
LEMMA IdleTyped == Idle \in RunRecord
  BY AgentAssumption
     DEF RunRecord, Idle, PCs, MaxIterations, Endings, Proposals, Tools, HostKinds

\* A new directory satisfies the invariant.
LEMMA AgentInitEstablishes == AgentInit => AInv
  <1>. SUFFICES ASSUME AgentInit PROVE AInv
    OBVIOUS
  <1>1. Idle \in RunRecord
    BY IdleTyped
  <1>2. AgentTypeOK
    BY <1>1 DEF AgentInit, AgentTypeOK, Progress, NoProgress
  <1>. QED
    BY <1>2, AgentAssumption
       DEF AgentInit, AInv, Idle, LaterChecksAgreeWithGate, Judged, Counted,
           PassedTheGate, Charges, Sendings, Callings, InBounds

\* The facts of the type invariant that the steps of a run build on.
LEMMA RunTyped ==
  ASSUME AgentTypeOK
  PROVE  /\ run.completed \in SUBSET Objectives
         /\ run.requests \in Nat /\ run.used \in Nat /\ sent \in Nat
         /\ run.iteration \in 1 .. 4
         /\ called \in [Objectives -> Nat]
         /\ run.proposal.tool \in Objectives
         /\ Cost(run.proposal.tool) \in 1 .. 2
         /\ runs \in Nat
  BY DEF AgentTypeOK, RunRecord, MaxIterations, Proposals, Tools, Cost

\* Writing an evidence file keeps the type of the evidence directory.
LEMMA EvidenceTyped ==
  ASSUME AgentTypeOK, NEW label \in Labels, run.iteration <= MaxIterations,
         WriteEvidence(label)
  PROVE  /\ DOMAIN evidence' \subseteq (1 .. MaxIterations) \X Labels
         /\ \A key \in DOMAIN evidence' : evidence'[key] \in Nat
  BY DEF AgentTypeOK, RunRecord, WriteEvidence, Put, MaxIterations

\* A run that ends, with or without a last record, leaves the invariant.
LEMMA EndStep ==
  ASSUME AInv, NEW how \in Endings, End(how), runs' = runs, UNCHANGED <<sent, called>>,
         how \notin {"over_budget", "exhausted", "incomplete"},
         how = "refused" => ~ExactInScope(run.proposal.tool),
         AgentTypeOK'
  PROVE  AInv'
  <1>1. /\ run'.pc = "ended" /\ run'.ending = how
        /\ run'.used = run.used /\ run'.mode = run.mode /\ run'.host = run.host
        /\ run'.proposal = run.proposal
    BY DEF AInv, AgentTypeOK, RunRecord, End
  <1>2. LaterChecksAgreeWithGate' /\ Judged'
    BY <1>1 DEF AInv, LaterChecksAgreeWithGate, Judged, ExactInScope
  <1>. QED
    BY <1>1, <1>2 DEF AInv, Counted, PassedTheGate, Charges, Sendings, Callings, InBounds

\* What End makes of the run is well typed.
LEMMA EndTyped ==
  ASSUME AgentTypeOK, NEW how \in Endings, End(how)
  PROVE  run' \in RunRecord
  BY DEF AgentTypeOK, RunRecord, End, PCs

\* A new run starts from zero in a directory that may have files already.
LEMMA StartRunStep == ASSUME AInv, NEW mode \in Modes, NEW host \in Hosts, StartRun(mode, host) PROVE AInv'
  <1>1. Idle \in RunRecord
    BY IdleTyped
  <1>2. mode \in {"governed", "direct"} /\ host \in HostKinds
    BY AgentAssumption DEF HostKinds
  <1>3. AgentTypeOK'
    <2>1. run' \in RunRecord
      <3>1. \/ run' = [Idle EXCEPT !.pc = "propose", !.mode = mode, !.host = host]
            \/ run' = [Idle EXCEPT !.ending = "escaped", !.mode = mode, !.host = host]
        BY DEF StartRun
      <3>2. /\ [Idle EXCEPT !.pc = "propose", !.mode = mode, !.host = host] \in RunRecord
            /\ [Idle EXCEPT !.ending = "escaped", !.mode = mode, !.host = host] \in RunRecord
        BY <1>1, <1>2 DEF RunRecord, PCs, Endings
      <3>. QED
        BY <3>1, <3>2
    <2>. QED
      BY <2>1 DEF AInv, AgentTypeOK, StartRun
  <1>4. /\ run'.pc \in {"propose", "ended"}
        /\ run'.pc = "ended" => run'.ending = "escaped"
        /\ run'.pc = "propose" => run'.ending = "none"
        /\ run'.iteration = 1 /\ run'.completed = {}
        /\ run'.requests = 0 /\ run'.used = 0
        /\ sent' = 0
        /\ \A o \in Objectives : called'[o] = 0
    <2>1. CASE run' = [Idle EXCEPT !.pc = "propose", !.mode = mode, !.host = host]
      <3>1. /\ run'.pc = "propose" /\ run'.ending = "none" /\ run'.iteration = 1
            /\ run'.completed = {} /\ run'.requests = 0 /\ run'.used = 0
        BY <2>1 DEF Idle
      <3>. QED
        BY <3>1 DEF StartRun
    <2>2. CASE run' = [Idle EXCEPT !.ending = "escaped", !.mode = mode, !.host = host]
      <3>1. /\ run'.pc = "ended" /\ run'.ending = "escaped" /\ run'.iteration = 1
            /\ run'.completed = {} /\ run'.requests = 0 /\ run'.used = 0
        BY <2>2 DEF Idle
      <3>. QED
        BY <3>1 DEF StartRun
    <2>. QED
      BY <2>1, <2>2 DEF StartRun
  <1>5. Cardinality({}) = 0 /\ Spent({}) = 0
    BY FS_EmptySet DEF Spent
  <1>. QED
    BY <1>3, <1>4, <1>5, AgentAssumption
       DEF AInv, LaterChecksAgreeWithGate, Judged, Counted, PassedTheGate, Charges,
           Sendings, Callings, InBounds

\* No proposal, no call: the failure is recorded and the run ends.
LEMMA ModelFailsStep == ASSUME AInv, ModelFails PROVE AInv'
  <1>1. AgentTypeOK'
    BY EvidenceTyped, EndTyped DEF AInv, AgentTypeOK, ModelFails, InIteration, Labels, Endings
  <1>. QED
    BY <1>1, EndStep DEF ModelFails, Endings

\* What the gate lets through fits the remaining budget.
LEMMA ProposeStep == ASSUME AInv, NEW p \in Proposals, Propose(p) PROVE AInv'
  <1>. USE DEF AInv
  <1>1. /\ run.pc = "propose" /\ run'.proposal = p
        /\ run' = [run EXCEPT !.proposal = p, !.pc = run'.pc]
        /\ UNCHANGED <<runs, sent, called, evidence, calls, state, kills>>
        /\ run'.pc = IF GateReasons(p) # {} THEN "deny"
                     ELSE IF run.requests + Cost(p.tool) > MaxRequests THEN "over_budget"
                     ELSE "call"
    BY DEF Propose, InIteration, AgentTypeOK, RunRecord
  <1>2. ASSUME GateReasons(p) = {}
        PROVE  /\ p.obj \in Objectives \ run.completed /\ p.tool = p.obj
               /\ p.ours /\ p.args = "exact"
    <2>1. /\ "target" \notin GateReasons(p) /\ "objective" \notin GateReasons(p)
          /\ "tool" \notin GateReasons(p) /\ "arguments" \notin GateReasons(p)
      BY <1>2
    <2>. QED
      BY <2>1 DEF GateReasons, Remaining, Proposals
  <1>3. ASSUME GateReasons(p) = {}
        PROVE  run.requests + Cost(p.tool) <= MaxRequests
    <2>1. run.requests = Spent(run.completed)
      BY <1>1, RunTyped, CompletedIsSmall DEF Counted
    <2>2. Spent(run.completed) + Cost(p.tool) <= MaxRequests
      BY <1>2, <1>3, RunTyped, RoomForOneMore
    <2>. QED
      BY <2>1, <2>2
  <1>4. run'.pc \in {"deny", "call"}
    BY <1>1, <1>3, RunTyped, AgentAssumption DEF Proposals, Tools, Cost
  <1>5. AgentTypeOK'
    BY <1>1, <1>4 DEF AgentTypeOK, RunRecord, PCs
  <1>6. /\ run'.completed = run.completed /\ run'.requests = run.requests
        /\ run'.iteration = run.iteration /\ run'.used = run.used
        /\ run'.mode = run.mode /\ run'.host = run.host /\ run'.ending = run.ending
        /\ run'.pc # "progress" /\ run'.pc \notin Charging
        /\ called' = called
    BY <1>1, <1>4 DEF AgentTypeOK, RunRecord
  <1>7. Counted' /\ Charges' /\ Sendings' /\ Callings' /\ InBounds'
    BY <1>1, <1>4, <1>6 DEF Counted, Charges, Sendings, Callings, InBounds, Propose, InIteration
  <1>8. PassedTheGate'
    BY <1>1, <1>2, <1>4, <1>6 DEF PassedTheGate
  <1>9. LaterChecksAgreeWithGate' /\ Judged'
    <2>1. run'.ending = "none"
      BY <1>1, <1>6 DEF Judged
    <2>. QED
      BY <1>1, <1>4, <1>6, <2>1 DEF LaterChecksAgreeWithGate, Judged, ExactInScope
  <1>. QED
    BY <1>4, <1>5, <1>7, <1>8, <1>9

\* A record of the registry is well typed.
LEMMA RecordTyped ==
  ASSUME AgentTypeOK, NEW executed \in BOOLEAN, RecordCall(executed)
  PROVE  calls' \subseteq [run: Nat, tool: Tools, obj: Objectives \union {Unknown},
                           executed: BOOLEAN]
  <1>1. run.proposal \in Proposals /\ runs \in Nat
    BY DEF AgentTypeOK, RunRecord
  <1>2. /\ run.proposal.tool \in Tools
        /\ run.proposal.obj \in Objectives \union {Unknown}
    BY <1>1 DEF Proposals
  <1>. DEFINE line == [run |-> runs, tool |-> run.proposal.tool,
                       obj |-> run.proposal.obj, executed |-> executed]
              Lines == [run: Nat, tool: Tools, obj: Objectives \union {Unknown},
                        executed: BOOLEAN]
  <1>3. line \in Lines
    BY <1>1, <1>2
  <1>4. calls' = calls \union {line} /\ calls \subseteq Lines
    BY DEF RecordCall, AgentTypeOK
  <1>. QED
    BY <1>3, <1>4

\* The loop only denies what the gate denied, and the registry what the rules
\* read as another host.
LEMMA DenyStep == ASSUME AInv, Deny PROVE AInv'
  <1>1. CASE run.pc = "deny"
    <2>1. End("denied") /\ WriteEvidence("denied") /\ calls' = calls
      BY <1>1 DEF Deny, Refusal
    <2>2. run.iteration <= MaxIterations
      BY <1>1 DEF AInv, InBounds
    <2>3. AgentTypeOK'
      BY <2>1, <2>2, EvidenceTyped, EndTyped DEF AInv, AgentTypeOK, Deny, Labels, Endings
    <2>. QED
      BY <2>1, <2>3, EndStep DEF Deny, Endings
  <1>2. CASE run.pc = "refuse"
    <2>1. End("refused") /\ RecordCall(FALSE) /\ evidence' = evidence
      BY <1>2 DEF Deny, Refusal
    <2>2. AgentTypeOK'
      BY <2>1, RecordTyped, EndTyped DEF AInv, AgentTypeOK, Deny, Endings
    <2>3. ~ExactInScope(run.proposal.tool)
      BY <1>2 DEF AInv, Judged
    <2>. QED
      BY <2>1, <2>2, <2>3, EndStep DEF Deny, Endings
  <1>. QED
    BY <1>1, <1>2 DEF AInv, Deny

\* A call changes the place in the run and the charge, and nothing else.
LEMMA CallFields ==
  ASSUME run \in RunRecord, NEW pc, NEW paid \in Nat,
         run' = [run EXCEPT !.pc = pc, !.used = paid]
  PROVE  /\ run'.pc = pc /\ run'.used = paid /\ run'.mode = run.mode
         /\ run'.host = run.host /\ run'.iteration = run.iteration
         /\ run'.completed = run.completed /\ run'.requests = run.requests
         /\ run'.ending = run.ending /\ run'.proposal = run.proposal
         /\ run' = [run EXCEPT !.pc = run'.pc, !.used = run'.used]
  BY DEF RunRecord

\* A step that leaves the charge alone writes it again.
LEMMA SameCharge ==
  ASSUME run \in RunRecord, NEW pc
  PROVE  [run EXCEPT !.pc = pc] = [run EXCEPT !.pc = pc, !.used = run.used]
  BY DEF RunRecord

\* The registry charges a call before it is made, and refuses what the gate
\* approved only where the rules read it as another host.
LEMMA CallStep == ASSUME AInv, Call PROVE AInv'
  <1>. USE DEF AInv
  <1>. DEFINE o == run.proposal.obj
              charge == IF run'.pc = "tool" /\ run.mode = "governed" THEN Cost(o) ELSE 0
  <1>1. /\ run.pc = "call" /\ o \in Objectives \ run.completed
        /\ run.proposal.tool = o /\ run.proposal.ours /\ run.proposal.args = "exact"
        /\ UNCHANGED <<runs, sent, called, evidence, calls, state, kills>>
    BY DEF Call, PassedTheGate
  <1>2. /\ run.requests = Spent(run.completed)
        /\ Spent(run.completed) + Cost(o) <= MaxRequests
        /\ Cost(o) \in 1 .. 2
    BY <1>1, RunTyped, RoomForOneMore, CompletedIsSmall DEF Counted
  <1>3. ASSUME run.mode = "governed"
        PROVE  RegistryReasons(run.proposal) = {} <=> ExactInScope(o)
    <2>1. run.used + Cost(o) <= MaxRequests
      BY <1>1, <1>2, <1>3, RunTyped DEF Charges
    <2>2. CASE ExactInScope(o)
      BY <1>1, <2>1, <2>2, AgentAssumption, RunTyped DEF RegistryReasons
    <2>3. CASE ~ExactInScope(o)
      BY <1>1, <2>3 DEF RegistryReasons
    <2>. QED
      BY <2>2, <2>3
  <1>4. \E pc \in {"tool", "tool_failed", "refuse"}, paid \in Nat :
           /\ run' = [run EXCEPT !.pc = pc, !.used = paid]
           /\ paid = run.used + (IF pc = "tool" /\ run.mode = "governed" THEN Cost(o) ELSE 0)
           /\ pc = "refuse" => ~ExactInScope(o)
           /\ pc = "tool" /\ run.mode = "governed" => ExactInScope(o)
    <2>1. /\ run \in RunRecord /\ run.mode \in {"governed", "direct"}
          /\ run.used \in Nat /\ run.used + Cost(o) \in Nat
      BY <1>2 DEF AgentTypeOK, RunRecord
    <2>2. ASSUME NEW pc \in {"tool", "tool_failed", "refuse"}, Step(pc)
          PROVE  run' = [run EXCEPT !.pc = pc, !.used = run.used]
      BY <2>1, <2>2, SameCharge DEF Step
    <2>3. CASE run.mode = "direct"
      <3>1. run' = [run EXCEPT !.pc = "tool", !.used = run.used]
        BY <2>2, <2>3 DEF Call
      <3>. USE <2>1
      <3>. WITNESS "tool" \in {"tool", "tool_failed", "refuse"}, run.used \in Nat
      <3>. QED
        BY <2>1, <2>3, <3>1
    <2>4. CASE run.mode = "governed" /\ ~RulesCanBeBuilt
      <3>1. run' = [run EXCEPT !.pc = "tool_failed", !.used = run.used]
        BY <2>2, <2>4 DEF Call
      <3>. USE <2>1
      <3>. WITNESS "tool_failed" \in {"tool", "tool_failed", "refuse"}, run.used \in Nat
      <3>. QED
        BY <2>1, <2>4, <3>1
    <2>5. CASE run.mode = "governed" /\ RulesCanBeBuilt /\ ~ExactInScope(o)
      <3>1. run' = [run EXCEPT !.pc = "refuse", !.used = run.used]
        BY <1>3, <2>2, <2>5 DEF Call
      <3>. USE <2>1
      <3>. WITNESS "refuse" \in {"tool", "tool_failed", "refuse"}, run.used \in Nat
      <3>. QED
        BY <2>1, <2>5, <3>1
    <2>6. CASE run.mode = "governed" /\ RulesCanBeBuilt /\ ExactInScope(o)
      <3>1. run' = [run EXCEPT !.pc = "tool", !.used = run.used + Cost(o)]
        BY <1>1, <1>3, <2>6 DEF Call
      <3>. USE <2>1
      <3>. WITNESS "tool" \in {"tool", "tool_failed", "refuse"}, run.used + Cost(o) \in Nat
      <3>. QED
        BY <2>1, <2>6, <3>1
    <2>. QED
      BY <2>1, <2>3, <2>4, <2>5, <2>6
  <1>5. /\ run'.pc \in {"tool", "tool_failed", "refuse"}
        /\ run'.used = run.used + charge
        /\ run'.mode = run.mode /\ run'.host = run.host
        /\ run'.iteration = run.iteration
        /\ run'.completed = run.completed /\ run'.requests = run.requests
        /\ run'.ending = run.ending /\ run'.proposal = run.proposal
        /\ run'.pc = "refuse" => ~ExactInScope(o)
        /\ run'.pc = "tool" /\ run.mode = "governed" => ExactInScope(o)
        /\ run' = [run EXCEPT !.pc = run'.pc, !.used = run'.used]
    <2>1. PICK pc \in {"tool", "tool_failed", "refuse"}, paid \in Nat :
             /\ run' = [run EXCEPT !.pc = pc, !.used = paid]
             /\ paid = run.used + (IF pc = "tool" /\ run.mode = "governed" THEN Cost(o) ELSE 0)
             /\ pc = "refuse" => ~ExactInScope(o)
             /\ pc = "tool" /\ run.mode = "governed" => ExactInScope(o)
      BY <1>4
    <2>2. run \in RunRecord
      BY DEF AgentTypeOK
    <2>. QED
      BY <2>1, <2>2, CallFields
  <1>6. charge \in 0 .. 2 /\ run'.used \in Nat
    BY <1>2, <1>5, RunTyped
  <1>7. AgentTypeOK'
    BY <1>1, <1>5, <1>6 DEF AgentTypeOK, RunRecord, PCs
  <1>8. run.mode = "governed" => run.used = run.requests /\ sent <= run.requests
    BY <1>1, RunTyped DEF Charges, Sendings
  <1>9. Charges'
    BY <1>1, <1>5, <1>8 DEF Charges
  <1>10. Sendings'
    BY <1>1, <1>2, <1>5, <1>6, <1>8, RunTyped DEF Sendings
  <1>11. Counted' /\ PassedTheGate' /\ Callings' /\ InBounds'
    BY <1>1, <1>5 DEF Counted, PassedTheGate, Callings, InBounds
  <1>12. LaterChecksAgreeWithGate' /\ Judged'
    BY <1>1, <1>5 DEF LaterChecksAgreeWithGate, Judged, ExactInScope
  <1>. QED
    BY <1>5, <1>7, <1>9, <1>10, <1>11, <1>12

\* The tool sends at most what was charged, and is called for the first time.
LEMMA UseToolStep == ASSUME AInv, NEW n \in 0 .. 2, UseTool(n) PROVE AInv'
  <1>. USE DEF AInv
  <1>. DEFINE o == run.proposal.obj
  <1>1. /\ run.pc = "tool" /\ o \in Objectives \ run.completed
        /\ run.proposal.tool = o /\ n <= Cost(o) /\ sent' = sent + n
        /\ called' = [called EXCEPT ![o] = @ + 1]
        /\ Cost(o) \in 1 .. 2
    BY RunTyped DEF UseTool, PassedTheGate
  <1>2. /\ run'.pc \in {"tool_record", "artifact", "tool_failed", "ended"}
        /\ run'.ending \in {run.ending, "escaped", "mismatch"}
        /\ run'.used = run.used
        /\ run'.mode = run.mode /\ run'.host = run.host /\ run'.iteration = run.iteration
        /\ run'.completed = run.completed /\ run'.requests = run.requests
        /\ run'.proposal = run.proposal
        /\ run' = [run EXCEPT !.pc = run'.pc, !.ending = run'.ending]
    BY DEF UseTool, Step, End, AgentTypeOK, RunRecord
  <1>3. AgentTypeOK'
    <2>1. run' \in RunRecord
      BY <1>2 DEF AgentTypeOK, RunRecord, PCs, Endings
    <2>2. sent' \in Nat /\ called' \in [Objectives -> Nat]
      BY <1>1, RunTyped
    <2>. QED
      BY <2>1, <2>2 DEF AgentTypeOK, UseTool
  <1>4. Sendings'
    <2>1. run.mode = "governed" => sent + n <= run.used
      BY <1>1, RunTyped DEF Sendings, Charges
    <2>. QED
      BY <2>1, <1>1, <1>2, RunTyped DEF Sendings
  <1>5. Callings'
    <2>1. called[o] = 0
      BY <1>1 DEF Callings
    <2>2. called'[o] = 1 /\ \A x \in Objectives \ {o} : called'[x] = called[x]
      BY <2>1, <1>1, RunTyped
    <2>3. \A x \in Objectives \ {o} : x \notin run.completed => called[x] = 0
      BY <1>1 DEF Callings
    <2>. QED
      BY <1>1, <1>2, <2>2, <2>3 DEF Callings
  <1>6. Counted' /\ PassedTheGate' /\ Charges' /\ InBounds'
    BY <1>1, <1>2 DEF Counted, PassedTheGate, Charges, InBounds
  <1>7. LaterChecksAgreeWithGate' /\ Judged'
    <2>1. run.mode = "governed" => ExactInScope(o)
      BY <1>1 DEF Judged
    <2>2. \A x \in Objectives \ {o} : called'[x] = called[x]
      BY <1>1, RunTyped
    <2>3. run'.ending \notin {"over_budget", "refused", "exhausted", "incomplete"}
      BY <1>1, <1>2 DEF Judged
    <2>4. run'.pc # "ended" => run'.ending = "none"
      BY <1>1 DEF UseTool, Step, End, Judged, AgentTypeOK, RunRecord
    <2>. QED
      BY <1>1, <1>2, <2>1, <2>2, <2>3, <2>4 DEF LaterChecksAgreeWithGate, Judged, ExactInScope
  <1>. QED
    BY <1>2, <1>3, <1>4, <1>5, <1>6, <1>7

\* A failed tool is recorded and the run ends.
LEMMA ToolFailedStep == ASSUME AInv, ToolFailed PROVE AInv'
  <1>1. run.iteration <= MaxIterations
    BY DEF AInv, InBounds, ToolFailed
  <1>2. AgentTypeOK'
    BY <1>1, EvidenceTyped, EndTyped DEF AInv, AgentTypeOK, ToolFailed, Labels, Endings
  <1>. QED
    BY <1>2, EndStep DEF ToolFailed, Endings

\* The registry's record of the call.
LEMMA ToolRecordStep == ASSUME AInv, ToolRecord PROVE AInv'
  <1>. USE DEF AInv
  <1>1. /\ run.pc = "tool_record" /\ run'.pc = "artifact"
        /\ run'.ending = run.ending /\ run'.used = run.used
        /\ run'.mode = run.mode /\ run'.host = run.host /\ run'.iteration = run.iteration
        /\ run'.completed = run.completed /\ run'.requests = run.requests
        /\ run'.proposal = run.proposal
        /\ UNCHANGED <<sent, called>>
    BY DEF ToolRecord, Step, AgentTypeOK, RunRecord
  <1>2. AgentTypeOK'
    <2>1. run' \in RunRecord
      BY DEF ToolRecord, Step, AgentTypeOK, RunRecord, PCs
    <2>. QED
      BY <2>1, RecordTyped DEF ToolRecord, AgentTypeOK
  <1>. QED
    BY <1>1, <1>2
       DEF LaterChecksAgreeWithGate, Judged, ExactInScope, Counted, PassedTheGate, Charges,
           Sendings, Callings, InBounds

\* The loop counts the requests of the call it has got over.
LEMMA WriteArtifactStep == ASSUME AInv, WriteArtifact PROVE AInv'
  <1>. USE DEF AInv
  <1>. DEFINE o == run.proposal.obj
  <1>1. /\ run.pc = "artifact" /\ o \in Objectives /\ run.proposal.tool = o
        /\ Cost(o) \in 1 .. 2 /\ run.iteration <= MaxIterations
        /\ WriteEvidence(o)
    BY RunTyped DEF WriteArtifact, PassedTheGate, InBounds
  <1>2. /\ run'.pc = "progress" /\ run'.requests = run.requests + Cost(o)
        /\ run'.ending = run.ending /\ run'.used = run.used
        /\ run'.mode = run.mode /\ run'.host = run.host /\ run'.iteration = run.iteration
        /\ run'.completed = run.completed
        /\ run'.proposal = run.proposal
        /\ UNCHANGED <<sent, called>>
    BY <1>1 DEF WriteArtifact, AgentTypeOK, RunRecord
  <1>3. AgentTypeOK'
    <2>1. run.requests + Cost(o) \in Nat
      BY <1>1, RunTyped
    <2>2. run' = [run EXCEPT !.pc = "progress", !.requests = run.requests + Cost(o)]
      BY <1>1 DEF WriteArtifact
    <2>3. run' \in RunRecord
      BY <2>1, <2>2 DEF AgentTypeOK, RunRecord, PCs
    <2>. QED
      BY <2>3, <1>1, EvidenceTyped DEF WriteArtifact, AgentTypeOK, Labels
  <1>4. Counted' /\ Charges'
    BY <1>1, <1>2, RunTyped, CompletedIsSmall DEF Counted, Charges
  <1>. QED
    BY <1>1, <1>2, <1>3, <1>4
       DEF LaterChecksAgreeWithGate, Judged, ExactInScope, PassedTheGate, Sendings, Callings, InBounds,
           WriteEvidence, Put

\* The objective is completed and the next iteration begins.
LEMMA WriteProgressStep == ASSUME AInv, WriteProgress PROVE AInv'
  <1>. USE DEF AInv
  <1>. DEFINE o == run.proposal.obj
              key == <<run.iteration, o>>
              new == [iter |-> run.iteration, obj |-> o, digest |-> evidence[key]]
  <1>1. /\ run.pc = "progress" /\ o \in Objectives \ run.completed
        /\ run.iteration = Cardinality(run.completed) + 1
        /\ run.requests = Spent(run.completed) + Cost(o)
    BY DEF WriteProgress, PassedTheGate, Counted
  <1>2. /\ run'.pc = "propose" /\ run'.iteration = run.iteration + 1
        /\ run'.completed = run.completed \union {o}
        /\ run'.summaries = run.summaries \union {new}
        /\ run'.requests = run.requests /\ run'.used = run.used
        /\ run'.mode = run.mode /\ run'.host = run.host /\ run'.ending = run.ending
        /\ run'.proposal = run.proposal
        /\ run' = [run EXCEPT !.pc = "propose", !.iteration = run.iteration + 1,
                     !.completed = run.completed \union {o},
                     !.summaries = run.summaries \union {new}]
    BY DEF WriteProgress, AgentTypeOK, RunRecord
  <1>3. /\ run.iteration + 1 \in 1 .. 4
        /\ Cardinality(run'.completed) = Cardinality(run.completed) + 1
        /\ Spent(run'.completed) = Spent(run.completed) + Cost(o)
    BY <1>1, <1>2, RunTyped, CostOfOneMore, CompletedIsSmall
  <1>4. AgentTypeOK'
    <2>1. new \in Summary
      BY <1>1, RunTyped DEF InBounds, AgentTypeOK, Summary
    <2>. DEFINE done == run.completed \union {o}
                sums == run.summaries \union {new}
    <2>0. /\ done \in SUBSET Objectives /\ sums \in SUBSET Summary
          /\ run.iteration + 1 \in 1 .. MaxIterations + 1
          /\ run \in RunRecord
      BY <2>1, <1>1, <1>3, RunTyped DEF AgentTypeOK, RunRecord, MaxIterations
    <2>2. run' \in RunRecord
      BY <2>0, <1>2 DEF RunRecord, PCs
    <2>3. ProgressOf(run') \in Progress
      BY <2>2, RunTyped DEF ProgressOf, Progress, RunRecord
    <2>4. state' = [state EXCEPT !.campaign = ProgressOf(run')]
      BY DEF WriteProgress, ProgressOf
    <2>5. state' \in [campaign: Progress, result: Progress, report: Nat]
      BY <2>3, <2>4 DEF AgentTypeOK
    <2>. QED
      BY <2>2, <2>5 DEF WriteProgress, AgentTypeOK
  <1>5. /\ run.mode = "governed" => run.used = run.requests
        /\ UNCHANGED <<sent, called>>
    BY <1>1, RunTyped DEF Charges, WriteProgress
  <1>6. Counted' /\ Charges'
    BY <1>1, <1>2, <1>3, <1>5, RunTyped, CompletedIsSmall DEF Counted, Charges
  <1>7. Sendings'
    BY <1>2, <1>5 DEF Sendings
  <1>8. Callings'
    BY <1>1, <1>2, <1>5 DEF Callings
  <1>9. LaterChecksAgreeWithGate' /\ Judged'
    BY <1>1, <1>2, <1>5 DEF LaterChecksAgreeWithGate, Judged, ExactInScope
  <1>. QED
    BY <1>2, <1>4, <1>6, <1>7, <1>8, <1>9 DEF PassedTheGate, InBounds

\* The loop is left with all objectives completed and four requests.
LEMMA LeaveLoopStep == ASSUME AInv, LeaveLoop PROVE AInv'
  <1>. USE DEF AInv
  <1>1. /\ run.pc = "propose" /\ run.completed \in SUBSET Objectives
        /\ run.iteration = Cardinality(run.completed) + 1
        /\ run.requests = Spent(run.completed)
    BY RunTyped, CompletedIsSmall DEF LeaveLoop, Counted
  <1>2. Cardinality(run.completed) = 3
    <2>1. CASE Remaining = {}
      <3>1. run.completed = Objectives
        BY <2>1, <1>1 DEF Remaining
      <3>. QED
        BY <3>1, AgentAssumption
    <2>2. CASE run.iteration > MaxIterations
      BY <2>2, <1>1, CompletedIsSmall DEF MaxIterations
    <2>. QED
      BY <2>1, <2>2 DEF LeaveLoop
  <1>3. run.requests = 4 /\ run.iteration = 4
    BY <1>1, <1>2, AllCostFour
  <1>4. /\ Step("result") /\ state' = [state EXCEPT !.report = runs]
        /\ UNCHANGED <<runs, sent, called, evidence, calls, kills>>
    BY <1>2, <1>3 DEF LeaveLoop, MaxIterations
  <1>5. /\ run'.pc = "result" /\ run'.ending = run.ending /\ run'.used = run.used
        /\ run'.mode = run.mode /\ run'.host = run.host /\ run'.iteration = run.iteration
        /\ run'.completed = run.completed /\ run'.requests = run.requests
        /\ run'.proposal = run.proposal
    BY <1>4 DEF Step, AgentTypeOK, RunRecord
  <1>6. AgentTypeOK'
    <2>1. run' \in RunRecord
      BY <1>4 DEF Step, AgentTypeOK, RunRecord, PCs
    <2>. QED
      BY <2>1, <1>4 DEF AgentTypeOK
  <1>. QED
    BY <1>1, <1>4, <1>5, <1>6
       DEF LaterChecksAgreeWithGate, Judged, ExactInScope, Counted, PassedTheGate, Charges,
           Sendings, Callings, InBounds

\* The result is what the run has in memory.
LEMMA WriteResultStep == ASSUME AInv, WriteResult PROVE AInv'
  <1>1. ProgressOf(run) \in Progress
    BY DEF AInv, AgentTypeOK, RunRecord, ProgressOf, Progress
  <1>2. AgentTypeOK'
    BY <1>1, EndTyped DEF AInv, AgentTypeOK, WriteResult, Endings
  <1>. QED
    BY <1>2, EndStep DEF WriteResult, Endings

\* A run is killed.
LEMMA KillStep == ASSUME AInv, Kill PROVE AInv'
  <1>1. AgentTypeOK'
    BY EndTyped DEF AInv, AgentTypeOK, Kill, Endings
  <1>. QED
    BY <1>1, EndStep DEF Kill, Endings

-----------------------------------------------------------------------------
(* What is on record *)

\* An evidence file that the run in progress wrote.
Mine(i, label) == /\ <<i, label>> \in DOMAIN evidence
                  /\ evidence[<<i, label>>] = runs

\* The registry's record that the run's call for o was carried out.
Recorded(o) == [run |-> runs, tool |-> o, obj |-> o, executed |-> TRUE] \in calls

\* The registry's record that it refused the run's proposal.
Refused == [run |-> runs, tool |-> run.proposal.tool, obj |-> run.proposal.obj,
            executed |-> FALSE] \in calls

\* Every completed objective has a summary, and every summary an artifact of
\* this run.
Summarised ==
  /\ run.completed = {s.obj : s \in run.summaries}
  /\ \A s \in run.summaries :
       s.iter <= run.iteration /\ s.digest = runs /\ Mine(s.iter, s.obj)
  /\ run.pc = "progress" => Mine(run.iteration, run.proposal.obj)

\* The files of the latest run say what the run has in memory; a result of it
\* is only written as its last act.
Reported ==
  /\ state.campaign.run <= runs
  /\ state.result.run <= runs
  /\ run.pc # "ended" => runs > 0 /\ state.result.run < runs
  /\ state.campaign.run = runs => state.campaign.summaries \subseteq run.summaries
  /\ run.pc \in {"propose", "result"} /\ run.completed # {} =>
       state.campaign = ProgressOf(run)
  /\ run.pc = "result" => run.completed = Objectives /\ state.report = runs
  /\ runs > 0 /\ state.result.run = runs =>
       /\ run.completed = Objectives
       /\ state.campaign = ProgressOf(run)
       /\ state.result = state.campaign
       /\ state.report = runs

\* An ending is decided with the record that explains it.
Explained ==
  /\ run.pc # "ended" => run.ending = "none"
  /\ run.ending = "denied" => Mine(run.iteration, "denied")
  /\ run.ending = "model_failed" => Mine(run.iteration, "model_failed")
  /\ run.ending = "tool_failed" => Mine(run.iteration, "failed")
  /\ run.ending = "refused" => Refused
  /\ run.pc = "ended" /\ run.ending \notin {"escaped", "mismatch"} =>
       \A o \in Objectives : called[o] > 0 =>
         \/ o \in run.completed
         \/ run.proposal.obj = o /\ Mine(run.iteration, "failed")

\* The registry has recorded what a governed run counts as completed, or is
\* about to.
Registered ==
  run.mode = "governed" =>
    /\ \A o \in run.completed : Recorded(o)
    /\ run.pc \in {"artifact", "progress"} => Recorded(run.proposal.obj)

RInv == Summarised /\ Reported /\ Explained /\ Registered

\* A file that is written belongs to the run, and so do those it had.
LEMMA MineKept ==
  ASSUME NEW label, WriteEvidence(label), runs' = runs
  PROVE  /\ \A i, l : Mine(i, l) => Mine(i, l)'
         /\ \A i : i = run.iteration => Mine(i, label)'
  BY DEF WriteEvidence, Put, Mine

\* What the run has on record when it goes on without completing anything.
LEMMA GoesOn ==
  ASSUME AInv, RInv, runs' = runs, state' = state,
         run'.completed = run.completed, run'.summaries = run.summaries,
         run'.iteration = run.iteration, run'.mode = run.mode /\ run'.host = run.host,
         run'.ending = run.ending, run'.proposal.obj = run.proposal.obj,
         run.pc # "ended", run'.pc \notin {"ended", "propose", "result"},
         \A i, l : Mine(i, l) => Mine(i, l)',
         run'.pc = "progress" => Mine(run.iteration, run.proposal.obj)',
         calls \subseteq calls',
         run.mode = "governed" /\ run'.pc \in {"artifact", "progress"} =>
           Recorded(run.proposal.obj)'
  PROVE  RInv'
  <1>1. Summarised'
    BY DEF RInv, Summarised
  <1>2. Reported'
    BY DEF RInv, Reported, AInv, AgentTypeOK, Progress
  <1>3. Explained'
    BY DEF RInv, Explained
  <1>4. Registered'
    BY DEF RInv, Registered, Recorded
  <1>. QED
    BY <1>1, <1>2, <1>3, <1>4 DEF RInv

\* What the run has on record when it ends without a result.
LEMMA EndsOnRecord ==
  ASSUME AInv, RInv, NEW how \in Endings, End(how), runs' = runs, state' = state,
         run.pc # "ended",
         \A i, l : Mine(i, l) => Mine(i, l)',
         calls \subseteq calls',
         \A i : i = run.iteration =>
           /\ how = "denied" => Mine(i, "denied")'
           /\ how = "model_failed" => Mine(i, "model_failed")'
           /\ how = "tool_failed" => Mine(i, "failed")',
         how = "refused" => Refused',
         how \notin {"escaped", "mismatch"} =>
           \A o \in Objectives : called'[o] > 0 =>
             o \in run.completed \/ (run.proposal.obj = o /\ how = "tool_failed")
  PROVE  RInv'
  <1>1. /\ run'.completed = run.completed /\ run'.summaries = run.summaries
        /\ run'.iteration = run.iteration /\ run'.mode = run.mode /\ run'.host = run.host
        /\ run'.requests = run.requests
        /\ run'.proposal = run.proposal /\ run'.pc = "ended" /\ run'.ending = how
    BY DEF End, AInv, AgentTypeOK, RunRecord
  <1>2. Summarised'
    BY <1>1 DEF RInv, Summarised
  <1>3. Reported'
    BY <1>1, RunTyped DEF AInv, AgentTypeOK, RInv, Reported
  <1>4. Explained'
    BY <1>1 DEF RInv, Explained
  <1>5. Registered'
    BY <1>1 DEF RInv, Registered, Recorded
  <1>. QED
    BY <1>2, <1>3, <1>4, <1>5 DEF RInv

\* Nothing is on record in a new directory.
LEMMA InitOnRecord == AgentInit => RInv
  BY DEF AgentInit, Idle, NoProgress, RInv, Summarised, Reported, Explained, Registered

\* A new run leaves the files of earlier runs, which do not pass for its own.
LEMMA StartRunOnRecord ==
  ASSUME AInv, RInv, NEW mode \in Modes, NEW host \in Hosts, StartRun(mode, host)
  PROVE  RInv'
  <1>1. /\ run'.summaries = {} /\ run'.completed = {}
        /\ run'.pc \in {"propose", "ended"}
        /\ run'.pc = "ended" => run'.ending = "escaped"
        /\ run'.pc = "propose" => run'.ending = "none"
        /\ state' = state /\ runs' = runs + 1 /\ runs \in Nat
        /\ state.campaign.run \in Nat /\ state.result.run \in Nat
    BY DEF StartRun, Idle, AInv, AgentTypeOK, Progress
  <1>2. Summarised'
    BY <1>1 DEF Summarised
  <1>3. Reported'
    BY <1>1 DEF RInv, Reported
  <1>4. Explained'
    BY <1>1 DEF Explained
  <1>5. Registered'
    BY <1>1 DEF Registered
  <1>. QED
    BY <1>2, <1>3, <1>4, <1>5 DEF RInv

\* A tool that has been called belongs to a completed objective, between calls.
LEMMA CalledIsCompleted ==
  ASSUME AInv, run.pc \in {"propose", "deny", "refuse", "call", "tool", "result"},
         NEW o \in Objectives, called[o] > 0
  PROVE  o \in run.completed
  BY DEF AInv, Callings

\* The model's failure is written as this run's own.
LEMMA ModelFailsOnRecord == ASSUME AInv, RInv, ModelFails PROVE RInv'
  BY MineKept, EndsOnRecord, CalledIsCompleted DEF ModelFails, InIteration, Endings

\* A proposal changes nothing on record.
LEMMA ProposeOnRecord == ASSUME AInv, AInv', RInv, NEW p \in Proposals, Propose(p) PROVE RInv'
  <1>1. /\ run'.completed = run.completed /\ run'.summaries = run.summaries
        /\ run'.iteration = run.iteration /\ run'.mode = run.mode /\ run'.host = run.host
        /\ run'.ending = run.ending /\ run.pc = "propose"
        /\ run'.pc \in {"deny", "call", "over_budget"}
        /\ UNCHANGED <<runs, state, evidence, calls, called>>
    BY DEF Propose, InIteration, AInv, AgentTypeOK, RunRecord
  <1>2. Summarised'
    BY <1>1 DEF RInv, Summarised, Mine
  <1>3. Reported'
    BY <1>1 DEF RInv, Reported, AInv, AgentTypeOK, Progress
  <1>4. Explained'
    BY <1>1 DEF RInv, Explained
  <1>5. Registered'
    BY <1>1 DEF RInv, Registered, Recorded
  <1>. QED
    BY <1>2, <1>3, <1>4, <1>5 DEF RInv

\* A refusal is written before the run ends: the gate's in the evidence, the
\* registry's among its own records.
LEMMA DenyOnRecord == ASSUME AInv, RInv, Deny PROVE RInv'
  <1>1. CASE run.pc = "deny"
    <2>1. End("denied") /\ WriteEvidence("denied") /\ calls' = calls
      BY <1>1 DEF Deny, Refusal
    <2>. QED
      BY <1>1, <2>1, MineKept, EndsOnRecord, CalledIsCompleted DEF Deny, Endings
  <1>2. CASE run.pc = "refuse"
    <2>1. End("refused") /\ RecordCall(FALSE) /\ UNCHANGED <<runs, called, evidence, state>>
      BY <1>2 DEF Deny, Refusal
    <2>2. run'.proposal = run.proposal
      BY <2>1 DEF End, AInv, AgentTypeOK, RunRecord
    <2>3. Refused' /\ calls \subseteq calls'
      BY <2>1, <2>2 DEF RecordCall, Refused
    <2>4. \A i, l : Mine(i, l) => Mine(i, l)'
      BY <2>1 DEF Mine
    <2>. QED
      BY <1>2, <2>1, <2>3, <2>4, EndsOnRecord, CalledIsCompleted DEF Endings
  <1>. QED
    BY <1>1, <1>2 DEF AInv, Deny

\* A call is on its way.
LEMMA CallOnRecord == ASSUME AInv, AInv', RInv, Call PROVE RInv'
  <1>1. /\ run'.completed = run.completed /\ run'.summaries = run.summaries
        /\ run'.iteration = run.iteration /\ run'.mode = run.mode /\ run'.host = run.host
        /\ run'.ending = run.ending /\ run'.proposal = run.proposal
        /\ run.pc = "call" /\ run'.pc \in {"tool", "tool_failed", "refuse"}
        /\ UNCHANGED <<runs, state, evidence, calls>>
    <2>1. run \in RunRecord
      BY DEF AInv, AgentTypeOK
    <2>2. ASSUME NEW pc, Step(pc)
          PROVE  /\ run'.completed = run.completed /\ run'.summaries = run.summaries
                 /\ run'.iteration = run.iteration /\ run'.mode = run.mode
                 /\ run'.host = run.host /\ run'.ending = run.ending
                 /\ run'.proposal = run.proposal /\ run'.pc = pc
      BY <2>1, <2>2 DEF Step, RunRecord
    <2>3. ASSUME NEW paid, run' = [run EXCEPT !.pc = "tool", !.used = paid]
          PROVE  /\ run'.completed = run.completed /\ run'.summaries = run.summaries
                 /\ run'.iteration = run.iteration /\ run'.mode = run.mode
                 /\ run'.host = run.host /\ run'.ending = run.ending
                 /\ run'.proposal = run.proposal /\ run'.pc = "tool"
      BY <2>1, <2>3 DEF RunRecord
    <2>4. \/ Step("tool") \/ Step("tool_failed") \/ Step("refuse")
          \/ run' = [run EXCEPT !.pc = "tool", !.used = run.used + Cost(run.proposal.tool)]
      BY DEF Call
    <2>. QED
      BY <2>2, <2>3, <2>4 DEF Call
  <1>. QED
    BY <1>1, GoesOn DEF Mine

\* A tool that answers, fails or escapes has not been recorded yet.
LEMMA UseToolOnRecord == ASSUME AInv, RInv, NEW n \in 0 .. 2, UseTool(n) PROVE RInv'
  <1>1. /\ run.pc = "tool" /\ UNCHANGED <<runs, state, evidence, calls>>
        /\ \A i, l : Mine(i, l) => Mine(i, l)'
    BY DEF UseTool, Mine
  <1>2. CASE End("escaped") \/ End("mismatch")
    BY <1>1, <1>2, EndsOnRecord DEF Endings
  <1>3. ASSUME NEW pc \in {"tool_record", "tool_failed", "artifact"}, Step(pc),
               pc = "artifact" => run.mode = "direct"
        PROVE  RInv'
    <2>1. /\ run'.completed = run.completed /\ run'.summaries = run.summaries
          /\ run'.iteration = run.iteration /\ run'.mode = run.mode /\ run'.host = run.host
          /\ run'.ending = run.ending /\ run'.proposal = run.proposal
          /\ run'.pc = pc
      BY <1>3 DEF Step, AInv, AgentTypeOK, RunRecord
    <2>. QED
      BY <1>1, <1>3, <2>1, GoesOn
  <1>. QED
    BY <1>2, <1>3 DEF UseTool, AInv, AgentTypeOK, RunRecord

\* The tool's failure is written before the run ends.
LEMMA ToolFailedOnRecord == ASSUME AInv, RInv, ToolFailed PROVE RInv'
  <1>1. \A o \in Objectives : called[o] > 0 => o \in run.completed \/ run.proposal.obj = o
    BY DEF AInv, Callings, ToolFailed
  <1>. QED
    BY <1>1, MineKept, EndsOnRecord DEF ToolFailed, Endings

\* The registry's record of the call carries the objective and this run.
LEMMA ToolRecordOnRecord == ASSUME AInv, RInv, ToolRecord PROVE RInv'
  <1>1. /\ run'.completed = run.completed /\ run'.summaries = run.summaries
        /\ run'.iteration = run.iteration /\ run'.mode = run.mode /\ run'.host = run.host
        /\ run'.ending = run.ending /\ run'.proposal = run.proposal
        /\ run.pc = "tool_record" /\ run'.pc = "artifact"
        /\ UNCHANGED <<runs, state, evidence>>
    BY DEF ToolRecord, Step, AInv, AgentTypeOK, RunRecord
  <1>2. run.proposal.tool = run.proposal.obj
    BY <1>1 DEF AInv, PassedTheGate
  <1>3. calls \subseteq calls' /\ Recorded(run.proposal.obj)'
    BY <1>1, <1>2 DEF ToolRecord, RecordCall, Recorded
  <1>. QED
    BY <1>1, <1>3, GoesOn DEF Mine

\* The artifact is this run's own.
LEMMA WriteArtifactOnRecord == ASSUME AInv, RInv, WriteArtifact PROVE RInv'
  <1>1. /\ run'.completed = run.completed /\ run'.summaries = run.summaries
        /\ run'.iteration = run.iteration /\ run'.mode = run.mode /\ run'.host = run.host
        /\ run'.ending = run.ending /\ run'.proposal = run.proposal
        /\ run.pc = "artifact" /\ run'.pc = "progress"
        /\ UNCHANGED <<runs, state, calls>>
    BY DEF WriteArtifact, AInv, AgentTypeOK, RunRecord
  <1>2. /\ \A i, l : Mine(i, l) => Mine(i, l)'
        /\ Mine(run.iteration, run.proposal.obj)'
    <2>1. WriteEvidence(run.proposal.obj)
      BY DEF WriteArtifact
    <2>. QED
      BY <1>1, <2>1, MineKept
  <1>3. run.mode = "governed" => Recorded(run.proposal.obj)'
    BY <1>1 DEF RInv, Registered, Recorded
  <1>. QED
    BY <1>1, <1>2, <1>3, GoesOn

\* The completed objective gets the summary of the artifact on disk.
LEMMA WriteProgressOnRecord == ASSUME AInv, AInv', RInv, WriteProgress PROVE RInv'
  <1>. DEFINE o == run.proposal.obj
              new == [iter |-> run.iteration, obj |-> o,
                      digest |-> evidence[<<run.iteration, o>>]]
  <1>1. /\ run'.completed = run.completed \union {o}
        /\ run'.summaries = run.summaries \union {new}
        /\ run'.iteration = run.iteration + 1 /\ run'.mode = run.mode /\ run'.host = run.host
        /\ run'.ending = run.ending
        /\ run.pc = "progress" /\ run'.pc = "propose"
        /\ UNCHANGED <<runs, evidence, calls, called>>
        /\ run.iteration \in Nat /\ runs \in Nat
    BY RunTyped DEF WriteProgress, AInv, AgentTypeOK, RunRecord
  <1>2. /\ state'.campaign = ProgressOf(run')
        /\ state'.result = state.result /\ state'.report = state.report
    BY DEF WriteProgress, ProgressOf, AInv, AgentTypeOK
  <1>3. new.obj = o /\ new.iter = run.iteration /\ new.digest = runs
    BY <1>1 DEF RInv, Summarised, Mine
  <1>4. Summarised'
    <2>1. run'.completed = {s.obj : s \in run'.summaries}
      BY <1>1, <1>3 DEF RInv, Summarised
    <2>2. ASSUME NEW s \in run'.summaries
          PROVE  s.iter <= run'.iteration /\ s.digest = runs /\ Mine(s.iter, s.obj)
      <3>1. CASE s = new
        BY <1>1, <1>3, <3>1 DEF RInv, Summarised
      <3>2. CASE s \in run.summaries
        <4>1. s.iter \in Nat
          BY <3>2 DEF AInv, AgentTypeOK, RunRecord, Summary
        <4>. QED
          BY <1>1, <3>2, <4>1 DEF RInv, Summarised
      <3>. QED
        BY <1>1, <3>1, <3>2
    <2>. QED
      BY <1>1, <2>1, <2>2 DEF Summarised, Mine
  <1>5. Reported'
    <2>1. state'.campaign.run = runs /\ state'.campaign.summaries = run'.summaries
      BY <1>1, <1>2 DEF ProgressOf
    <2>2. (state.campaign = ProgressOf(run))'
      BY <1>1, <1>2 DEF ProgressOf
    <2>. QED
      BY <1>1, <1>2, <2>1, <2>2 DEF RInv, Reported, ProgressOf, AInv, AgentTypeOK, Progress
  <1>6. Explained'
    BY <1>1 DEF RInv, Explained
  <1>7. Registered'
    BY <1>1 DEF RInv, Registered, Recorded
  <1>. QED
    BY <1>4, <1>5, <1>6, <1>7 DEF RInv

\* The report is written when everything is completed.
LEMMA LeaveLoopOnRecord == ASSUME AInv, AInv', RInv, LeaveLoop PROVE RInv'
  <1>1. run'.ending \notin {"exhausted", "incomplete"}
    BY DEF AInv, LaterChecksAgreeWithGate
  <1>2. /\ Step("result") /\ state' = [state EXCEPT !.report = runs]
        /\ Cardinality(run.completed) = 3 /\ run.pc = "propose"
        /\ UNCHANGED <<runs, evidence, calls, called>>
    BY <1>1 DEF LeaveLoop, End, AInv, AgentTypeOK, RunRecord
  <1>3. /\ run'.completed = run.completed /\ run'.summaries = run.summaries
        /\ run'.iteration = run.iteration /\ run'.mode = run.mode /\ run'.host = run.host
        /\ run'.requests = run.requests
        /\ run'.ending = run.ending /\ run'.proposal = run.proposal
        /\ run'.pc = "result"
        /\ state'.campaign = state.campaign /\ state'.result = state.result
        /\ state'.report = runs
    BY <1>2 DEF Step, AInv, AgentTypeOK, RunRecord
  <1>4. run.completed = Objectives /\ run.completed # {}
    BY <1>2, CompletedIsSmall, RunTyped, AgentAssumption DEF AInv
  <1>5. Summarised'
    BY <1>2, <1>3 DEF RInv, Summarised, Mine
  <1>6. Reported'
    BY <1>2, <1>3, <1>4, RunTyped
       DEF RInv, Reported, ProgressOf, AInv, AgentTypeOK, Progress
  <1>7. Explained'
    BY <1>2, <1>3 DEF RInv, Explained
  <1>8. Registered'
    BY <1>2, <1>3 DEF RInv, Registered, Recorded
  <1>. QED
    BY <1>5, <1>6, <1>7, <1>8 DEF RInv

\* The result is the progress as it was saved last.
LEMMA WriteResultOnRecord == ASSUME AInv, AInv', RInv, WriteResult PROVE RInv'
  <1>1. /\ run.pc = "result" /\ run.completed = Objectives /\ run.completed # {}
        /\ state.campaign = ProgressOf(run) /\ state.report = runs
        /\ runs > 0
    BY AgentAssumption DEF WriteResult, RInv, Reported
  <1>2. /\ run'.completed = run.completed /\ run'.summaries = run.summaries
        /\ run'.iteration = run.iteration /\ run'.mode = run.mode /\ run'.host = run.host
        /\ run'.requests = run.requests
        /\ run'.proposal = run.proposal
        /\ run'.pc = "ended" /\ run'.ending = "completed"
        /\ state'.campaign = state.campaign /\ state'.result = state.campaign
        /\ state'.report = runs
        /\ UNCHANGED <<runs, evidence, calls, called>>
    BY <1>1 DEF WriteResult, End, AInv, AgentTypeOK, RunRecord
  <1>3. Summarised'
    BY <1>1, <1>2 DEF RInv, Summarised, Mine
  <1>4. Reported'
    BY <1>1, <1>2 DEF RInv, Reported, ProgressOf
  <1>5. Explained'
    BY <1>1, <1>2 DEF Explained
  <1>6. Registered'
    BY <1>2 DEF RInv, Registered, Recorded
  <1>. QED
    BY <1>3, <1>4, <1>5, <1>6 DEF RInv

\* A killed run explains nothing, and leaves what it had written.
LEMMA KillOnRecord == ASSUME AInv, RInv, Kill PROVE RInv'
  BY EndsOnRecord DEF Kill, Endings, Mine

-----------------------------------------------------------------------------
(* Theorems *)

(***************************************************************************)
(* The invariant is inductive: whatever the model proposes, however the    *)
(* tools fail and however often runs are killed and repeated.              *)
(***************************************************************************)
THEOREM AgentInvariant == AgentSpec => []AInv
  <1>1. ASSUME AInv, AgentNext PROVE AInv'
    BY <1>1, StartRunStep, ModelFailsStep, ProposeStep, DenyStep, CallStep, UseToolStep,
       ToolFailedStep, ToolRecordStep, WriteArtifactStep, WriteProgressStep,
       LeaveLoopStep, WriteResultStep, KillStep
       DEF AgentNext, AgentStep
  <1>2. ASSUME AInv, UNCHANGED agentVars PROVE AInv'
    <2>1. /\ runs' = runs /\ run' = run /\ sent' = sent /\ called' = called
          /\ evidence' = evidence /\ calls' = calls /\ state' = state /\ kills' = kills
      BY <1>2 DEF agentVars
    <2>2. AgentTypeOK'
      BY <1>2, <2>1 DEF AInv, AgentTypeOK
    <2>3. InBounds' /\ Counted'
      BY <1>2, <2>1 DEF AInv, InBounds, Counted
    <2>4. PassedTheGate' /\ LaterChecksAgreeWithGate' /\ Judged'
      BY <1>2, <2>1
         DEF AInv, PassedTheGate, LaterChecksAgreeWithGate, Judged, ExactInScope
    <2>5. Charges' /\ Sendings' /\ Callings'
      BY <1>2, <2>1 DEF AInv, Charges, Sendings, Callings
    <2>. QED
      BY <1>2, <2>1, <2>2, <2>3, <2>4, <2>5 DEF AInv
  <1>. QED
    BY AgentInitEstablishes, <1>1, <1>2, PTL DEF AgentSpec

(***************************************************************************)
(* The run in memory and the run directory keep their shape.               *)
(***************************************************************************)
THEOREM AgentTypeCorrectness == AgentSpec => []AgentTypeOK
  <1>1. AInv => AgentTypeOK
    BY DEF AInv
  <1>. QED
    BY <1>1, AgentInvariant, PTL

(***************************************************************************)
(* Under every policy the registry's charge covers what the tools send,    *)
(* stays within the budget and agrees with the loop's own count.           *)
(***************************************************************************)
THEOREM NoUnpaidRequest == AgentSpec => []RequestsArePaidFor
  <1>1. AInv => RequestsArePaidFor
    BY RunTyped DEF AInv, RequestsArePaidFor, Sendings, Charges
  <1>. QED
    BY <1>1, AgentInvariant, PTL

(***************************************************************************)
(* A model that repeats itself never gets an objective's tool called a     *)
(* second time.                                                            *)
(***************************************************************************)
THEOREM NoRepeatedCall == AgentSpec => []EachObjectiveOnce
  <1>1. AInv => EachObjectiveOnce
    BY DEF AInv, EachObjectiveOnce, Callings
  <1>. QED
    BY <1>1, AgentInvariant, PTL

(***************************************************************************)
(* Under every policy the loop's budget and the final contract never       *)
(* refuse what the proposal gate approved, and the registry does so only   *)
(* where the policy's own arguments reach the rules as another host; no    *)
(* governed run calls a tool with such arguments.                          *)
(***************************************************************************)
THEOREM RefusalsAreConversions == AgentSpec => []LaterChecksAgreeWithGate
  <1>1. AInv => LaterChecksAgreeWithGate
    BY DEF AInv
  <1>. QED
    BY <1>1, AgentInvariant, PTL

(***************************************************************************)
(* The record invariant is inductive beside the first one: what a run has  *)
(* in memory is what its files, its evidence and the registry say of it.   *)
(***************************************************************************)
THEOREM RecordInvariant == AgentSpec => []RInv
  <1>1. ASSUME AInv, AInv', RInv, AgentNext PROVE RInv'
    BY <1>1, StartRunOnRecord, ModelFailsOnRecord, ProposeOnRecord, DenyOnRecord,
       CallOnRecord, UseToolOnRecord, ToolFailedOnRecord, ToolRecordOnRecord,
       WriteArtifactOnRecord, WriteProgressOnRecord, LeaveLoopOnRecord,
       WriteResultOnRecord, KillOnRecord
       DEF AgentNext, AgentStep
  <1>2. ASSUME RInv, UNCHANGED agentVars PROVE RInv'
    <2>1. /\ runs' = runs /\ run' = run /\ called' = called
          /\ evidence' = evidence /\ calls' = calls /\ state' = state
      BY <1>2 DEF agentVars
    <2>2. Summarised'
      BY <1>2, <2>1 DEF RInv, Summarised, Mine
    <2>3. Reported'
      BY <1>2, <2>1 DEF RInv, Reported, ProgressOf
    <2>4. Explained'
      BY <1>2, <2>1 DEF RInv, Explained, Mine, Refused
    <2>5. Registered'
      BY <1>2, <2>1 DEF RInv, Registered, Recorded
    <2>. QED
      BY <2>2, <2>3, <2>4, <2>5 DEF RInv
  <1>. QED
    BY InitOnRecord, AgentInvariant, <1>1, <1>2, PTL DEF AgentSpec

(***************************************************************************)
(* The artifacts that the latest run's progress and result name are still  *)
(* on disk as they were hashed, whatever was left in the run directory     *)
(* before and wherever the run was killed.                                 *)
(***************************************************************************)
THEOREM ReportsAreBacked == AgentSpec => []LatestRunIsBacked
  <1>1. AInv /\ RInv => LatestRunIsBacked
    <2>. SUFFICES ASSUME AInv, RInv PROVE LatestRunIsBacked
      OBVIOUS
    <2>1. ASSUME NEW progress, progress.summaries \subseteq run.summaries
          PROVE  Backed(progress)
      BY <2>1 DEF Backed, RInv, Summarised, Mine
    <2>2. ASSUME state.result.run = runs, runs > 0
          PROVE  /\ state.result = state.campaign /\ state.report = runs
                 /\ state.result.summaries = run.summaries
                 /\ run.completed = Objectives
      BY <2>2 DEF RInv, Reported, ProgressOf
    <2>3. {s.obj : s \in run.summaries} = run.completed
      BY DEF RInv, Summarised
    <2>4. ASSUME run.completed = Objectives
          PROVE  {s.digest : s \in run.summaries} = {runs}
      <3>1. run.summaries # {}
        BY <2>3, <2>4, AgentAssumption
      <3>. QED
        BY <3>1 DEF RInv, Summarised
    <2>5. state.campaign.run = runs => Backed(state.campaign)
      BY <2>1 DEF RInv, Reported
    <2>. QED
      BY <2>1, <2>2, <2>3, <2>4, <2>5 DEF LatestRunIsBacked
  <1>. QED
    BY <1>1, AgentInvariant, RecordInvariant, PTL

(***************************************************************************)
(* No run ends by its own checks without the evidence that says why, and   *)
(* no call that a run got over is without its artifact or its failure.     *)
(***************************************************************************)
THEOREM EndsAreExplained == AgentSpec => []EveryEndIsOnRecord
  <1>1. AInv /\ RInv => EveryEndIsOnRecord
    <2>. SUFFICES ASSUME AInv, RInv PROVE EveryEndIsOnRecord
      OBVIOUS
    <2>1. \A label : Mine(run.iteration, label) => Written(label)
      BY DEF Mine, Written
    <2>2. run.ending # "over_budget"
      BY DEF AInv, LaterChecksAgreeWithGate
    <2>3. /\ run.ending = "denied" => Written("denied")
          /\ run.ending = "model_failed" => Written("model_failed")
          /\ run.ending = "tool_failed" => Written("failed")
          /\ run.ending = "refused" => Refused
      BY <2>1 DEF RInv, Explained
    <2>4. ASSUME run.ending \notin {"escaped", "mismatch"},
                 run.pc \in {"propose", "ended", "result"},
                 NEW o \in Objectives, called[o] > 0
          PROVE  \/ \E i \in 1 .. run.iteration : Mine(i, o)
                 \/ run.proposal.obj = o /\ Written("failed")
      <3>1. o \in run.completed \/ (run.proposal.obj = o /\ Written("failed"))
        BY <2>1, <2>4, CalledIsCompleted DEF RInv, Explained
      <3>2. ASSUME o \in run.completed
            PROVE  \E i \in 1 .. run.iteration : Mine(i, o)
        <4>1. PICK s \in run.summaries : s.obj = o
          BY <3>2 DEF RInv, Summarised
        <4>2. s.iter <= run.iteration /\ Mine(s.iter, o)
          BY <4>1 DEF RInv, Summarised
        <4>3. s.iter \in 1 .. MaxIterations /\ run.iteration \in 1 .. 4
          <5>1. <<s.iter, o>> \in (1 .. MaxIterations) \X Labels
            BY <4>2 DEF Mine, AInv, AgentTypeOK
          <5>. QED
            BY <5>1, RunTyped DEF AInv
        <4>. QED
          BY <4>2, <4>3 DEF MaxIterations
      <3>. QED
        BY <3>1, <3>2
    <2>5. ASSUME run.mode = "governed", NEW o \in run.completed
          PROVE  [run |-> runs, tool |-> o, obj |-> o, executed |-> TRUE] \in calls
      BY <2>5 DEF RInv, Registered, Recorded
    <2>. QED
      BY <2>2, <2>3, <2>4, <2>5 DEF EveryEndIsOnRecord, Mine, Refused
  <1>. QED
    BY <1>1, AgentInvariant, RecordInvariant, PTL

-----------------------------------------------------------------------------
(* Progress *)

\* What is left of a run is a number, and none is left of one that has ended.
LEMMA StepsLeftTyped ==
  ASSUME AInv
  PROVE  /\ StepsLeft \in 0 .. 25
         /\ run.pc # "ended" =>
              /\ StepsLeft = 6 * (4 - run.iteration) + StepsToNext[run.pc]
              /\ StepsLeft > 0
         /\ run.pc = "ended" => StepsLeft = 0
  <1>1. run.pc \in PCs /\ run.iteration \in 1 .. 4
    BY DEF AInv, AgentTypeOK, RunRecord, MaxIterations
  <1>2. StepsToNext[run.pc] \in 0 .. 7 /\ (run.pc # "ended" => StepsToNext[run.pc] > 0)
    BY <1>1 DEF StepsToNext, PCs
  <1>. QED
    BY <1>1, <1>2 DEF StepsLeft, MaxIterations

\* A step that ends the run, or goes on within the iteration, is progress.
LEMMA EndingIsProgress ==
  ASSUME AInv, AInv', run.pc # "ended", run'.pc = "ended"
  PROVE  StepsLeft' < StepsLeft
  BY StepsLeftTyped DEF StepsLeft

LEMMA GoingOnIsProgress ==
  ASSUME AInv, AInv', run.pc # "ended", run'.iteration = run.iteration,
         StepsToNext[run'.pc] < StepsToNext[run.pc]
  PROVE  StepsLeft' < StepsLeft
  <1>1. CASE run'.pc = "ended"
    BY <1>1, EndingIsProgress
  <1>2. CASE run'.pc # "ended"
    <2>1. StepsLeft' = 6 * (3 + 1 - run'.iteration) + StepsToNext[run'.pc]
      BY <1>2 DEF StepsLeft, MaxIterations
    <2>2. run.iteration \in 1 .. 4 /\ run'.pc \in PCs /\ run.pc \in PCs
      BY DEF AInv, AgentTypeOK, RunRecord, MaxIterations
    <2>3. StepsToNext[run'.pc] \in 0 .. 7 /\ StepsToNext[run.pc] \in 0 .. 7
      BY <2>2 DEF StepsToNext, PCs
    <2>. QED
      BY <2>1, <2>2, <2>3, StepsLeftTyped
  <1>. QED
    BY <1>1, <1>2

\* Every action of a run in progress, one by one.
LEMMA AgentStepIsProgress ==
  ASSUME AInv, AInv', AgentStep PROVE StepsLeft' < StepsLeft
  <1>1. run \in RunRecord
    BY DEF AInv, AgentTypeOK
  <1>2. CASE ModelFails \/ Deny \/ ToolFailed \/ WriteResult
    <2>1. run.pc # "ended" /\ run'.pc = "ended"
      BY <1>1, <1>2 DEF ModelFails, InIteration, Deny, ToolFailed, WriteResult, End, RunRecord
    <2>. QED
      BY <2>1, EndingIsProgress
  <1>3. ASSUME NEW p \in Proposals, Propose(p) PROVE StepsLeft' < StepsLeft
    <2>1. /\ run.pc = "propose" /\ run'.iteration = run.iteration
          /\ run'.pc \in {"deny", "over_budget", "call"}
      BY <1>1, <1>3 DEF Propose, InIteration, RunRecord
    <2>2. StepsToNext[run'.pc] < StepsToNext[run.pc]
      BY <2>1 DEF StepsToNext, PCs
    <2>. QED
      BY <2>1, <2>2, GoingOnIsProgress
  <1>4. CASE Call
    <2>1. /\ run.pc = "call" /\ run'.iteration = run.iteration
          /\ run'.pc \in {"refuse", "tool", "tool_failed"}
      BY <1>1, <1>4 DEF Call, Step, RunRecord
    <2>2. StepsToNext[run'.pc] < StepsToNext[run.pc]
      BY <2>1 DEF StepsToNext, PCs
    <2>. QED
      BY <2>1, <2>2, GoingOnIsProgress
  <1>5. ASSUME NEW n \in 0 .. 2, UseTool(n) PROVE StepsLeft' < StepsLeft
    <2>1. /\ run.pc = "tool" /\ run'.iteration = run.iteration
          /\ run'.pc \in {"tool_record", "artifact", "tool_failed", "ended"}
      BY <1>1, <1>5 DEF UseTool, Step, End, RunRecord
    <2>2. StepsToNext[run'.pc] < StepsToNext[run.pc]
      BY <2>1 DEF StepsToNext, PCs
    <2>. QED
      BY <2>1, <2>2, GoingOnIsProgress
  <1>6. CASE ToolRecord
    <2>1. /\ run.pc = "tool_record" /\ run'.iteration = run.iteration
          /\ run'.pc = "artifact"
      BY <1>1, <1>6 DEF ToolRecord, Step, RunRecord
    <2>2. StepsToNext[run'.pc] < StepsToNext[run.pc]
      BY <2>1 DEF StepsToNext, PCs
    <2>. QED
      BY <2>1, <2>2, GoingOnIsProgress
  <1>7. CASE WriteArtifact
    <2>1. /\ run.pc = "artifact" /\ run'.iteration = run.iteration
          /\ run'.pc = "progress"
      BY <1>1, <1>7 DEF WriteArtifact, RunRecord
    <2>2. StepsToNext[run'.pc] < StepsToNext[run.pc]
      BY <2>1 DEF StepsToNext, PCs
    <2>. QED
      BY <2>1, <2>2, GoingOnIsProgress
  <1>8. CASE WriteProgress
    <2>1. /\ run.pc = "progress" /\ run'.pc = "propose"
          /\ run'.iteration = run.iteration + 1
      BY <1>1, <1>8 DEF WriteProgress, RunRecord
    <2>2. run.iteration \in 1 .. 4
      BY RunTyped DEF AInv
    <2>3. StepsLeft = 6 * (4 - run.iteration) + 2
      BY <2>1, StepsLeftTyped DEF StepsToNext, PCs
    <2>4. StepsLeft' = 6 * (3 + 1 - run'.iteration) + 7
      BY <2>1 DEF StepsLeft, StepsToNext, PCs, MaxIterations
    <2>. QED
      BY <2>1, <2>2, <2>3, <2>4
  <1>9. CASE LeaveLoop
    <2>1. /\ run.pc = "propose" /\ run'.iteration = run.iteration
          /\ run'.pc \in {"result", "ended"}
      BY <1>1, <1>9 DEF LeaveLoop, Step, End, RunRecord
    <2>2. StepsToNext[run'.pc] < StepsToNext[run.pc]
      BY <2>1 DEF StepsToNext, PCs
    <2>. QED
      BY <2>1, <2>2, GoingOnIsProgress
  <1>. QED
    BY <1>2, <1>3, <1>4, <1>5, <1>6, <1>7, <1>8, <1>9 DEF AgentStep

(***************************************************************************)
(* Every step of a run in progress lowers the number of steps it has left, *)
(* which is at most 25 when it starts: no sequence of proposals, failures  *)
(* and kills makes a run go on for ever.                                   *)
(***************************************************************************)
THEOREM RunsComeToAnEnd == AgentSpec => [](StepsLeft \in 0 .. 25) /\ EveryStepIsProgress
  <1>1. AInv => StepsLeft \in 0 .. 25
    BY StepsLeftTyped
  <1>2. AInv /\ AInv' /\ [AgentNext]_agentVars =>
          [runs' = runs => StepsLeft' < StepsLeft]_agentVars
    <2>1. ASSUME AInv, AInv', Kill PROVE StepsLeft' < StepsLeft
      <3>1. run.pc # "ended" /\ run'.pc = "ended"
        BY <2>1 DEF Kill, End, AInv, AgentTypeOK, RunRecord
      <3>. QED
        BY <2>1, <3>1, EndingIsProgress
    <2>2. ASSUME AInv, NEW mode \in Modes, NEW host \in Hosts, StartRun(mode, host) PROVE runs' # runs
      BY <2>2 DEF StartRun, AInv, AgentTypeOK
    <2>. QED
      BY <2>1, <2>2, AgentStepIsProgress DEF AgentNext
  <1>. QED
    BY <1>1, <1>2, AgentInvariant, PTL DEF AgentSpec, EveryStepIsProgress

=============================================================================
