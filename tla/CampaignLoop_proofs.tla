------------------------ MODULE CampaignLoop_proofs ------------------------
(***************************************************************************)
(* Safety of the campaign engine for every campaign definition, any number *)
(* of commands, overlapping or not, and any number of crashes.             *)
(*                                                                         *)
(* The invariant ties every copy of the CampaignState, on disk and in the  *)
(* memory of each command, to the event log: a copy may be stale, but it   *)
(* is a partition of the objectives, its status and its review phase fit,  *)
(* and every objective it calls reviewed has an approval in the log.       *)
(***************************************************************************)
EXTENDS CampaignProperties, TLAPS

Approves(line, o) ==
  /\ line.type = "review_decision"
  /\ line.obj = o
  /\ line.outcome = "approved"

ApprovedIn(lines, o) == \E j \in 1 .. Len(lines) : Approves(lines[j], o)

\* A copy of the campaign state that a command may hold or a file contain.
GoodState(s, lines) ==
  /\ s \in State
  /\ Disjoint(s)
  /\ Dispositions(s) = Objectives
  /\ s.current # NoObjective => s.current \in s.pending
  /\ s.status = "paused_for_human_review" <=> s.review # "none"
  /\ s.status = "paused_for_human_review" => s.current # NoObjective
  /\ s.status \in Runnable \union {"paused_for_human_review"} => s.stopped = {}
  /\ s.status = "completed" => /\ s.pending = {}
                               /\ s.stopped = {}
                               /\ s.current = NoObjective
  /\ \A o \in s.reviewed : ApprovedIn(lines, o)

\* An objective that was let through the gate as the operators allow it.
Cleared(o, dry, lines) ==
  /\ kind[o] = "lockout" => ApprovedIn(lines, o)
  /\ kind[o] = "needs_approval" /\ dry => ApprovedIn(lines, o)

GoodProcess(r, lines) ==
  /\ r \in Process
  /\ GoodState(r.st, lines)
  /\ r.pc \in {"announce", "save_running"} => r.st.status \in Runnable
  /\ r.pc \in {"loop", "gate", "manifest", "result", "stop_event"}
       => r.st.status = "running"
  /\ r.pc \in {"gate", "manifest", "result"} =>
       /\ r.obj \in Objectives
       /\ r.obj = r.st.current
       /\ r.st.next <= MaxIterations
       /\ kind[r.obj] = "lockout" => ApprovedIn(lines, r.obj)
  /\ r.pc \in {"manifest", "result"} /\ r.result = "allowed" =>
       Cleared(r.obj, ~r.live, lines)
  /\ r.pc = "stop_event" => r.obj \in r.st.pending
  /\ r.pc \in {"review_check", "review_event"} =>
       r.st.status = "paused_for_human_review"
  /\ r.pc = "review_event" => r.result \in ReviewVerdicts

GoodLog ==
  \A i \in ResultLines :
    /\ log[i].iter <= MaxIterations
    /\ kind[log[i].obj] = "needs_approval" /\ log[i].outcome = "INCONCLUSIVE"
         => ApprovedBefore(log[i].obj, i)

GoodRuns ==
  \A o \in Objectives : kind[o] = "lockout" /\ executed[o] > 0 => ApprovedIn(log, o)

\* Once there is a decision file, it always holds one of the three answers.
GoodDecision ==
  /\ decision # NoDecision => decision.verdict \in ReviewVerdicts
  /\ \A p \in Procs :
       proc[p].pc = "review_check" => decision.verdict \in ReviewVerdicts

IInv ==
  /\ TypeOK
  /\ GoodState(ckpt, log)
  /\ \A p \in Procs : GoodProcess(proc[p], log)
  /\ GoodLog
  /\ GoodRuns
  /\ GoodDecision

-----------------------------------------------------------------------------
(* How the operations on a campaign state keep it good *)

USE DEF Statuses, Runnable, Halted, Stopped, Phases

\* More lines never take an approval away.
LEMMA ApprovalsStay ==
  ASSUME NEW lines \in Seq(LogLine), NEW line \in LogLine, NEW o,
         ApprovedIn(lines, o)
  PROVE  ApprovedIn(Append(lines, line), o)
  BY DEF ApprovedIn, Approves

\* A copy of the state that was good stays good as the event log grows.
LEMMA GoodStateStays ==
  ASSUME NEW lines \in Seq(LogLine), NEW line \in LogLine, NEW s,
         GoodState(s, lines)
  PROVE  GoodState(s, Append(lines, line))
  BY ApprovalsStay DEF GoodState, State

\* Saving a state and noting an event touch only its counters.
LEMMA RevisedIsGood ==
  ASSUME NEW lines, NEW s, GoodState(s, lines)
  PROVE  GoodState(Revised(s), lines)
  BY DEF GoodState, State, Revised, Disjoint, Dispositions

\* The event counters of a state play no part in its being good.
LEMMA CountersDoNotMatter ==
  ASSUME NEW lines, NEW s, GoodState(s, lines), NEW m \in Nat, NEW n \in Nat
  PROVE  GoodState([s EXCEPT !.events = m, !.lastEvent = n], lines)
  BY ZenonT(90) DEF GoodState, State, Disjoint, Dispositions

\* append_campaign_event's update of the state keeps it good.
LEMMA NotedIsGood ==
  ASSUME log \in Seq(LogLine), NEW lines, NEW s, GoodState(s, lines)
  PROVE  GoodState(Noted(s), lines)
  <1>1. Len(log) + 1 \in Nat /\ s.events + 1 \in Nat
    BY DEF GoodState, State
  <1>. QED
    BY <1>1, CountersDoNotMatter, Zenon DEF Noted

\* Every objective starts pending.
LEMMA InitialStateIsGood ==
  ASSUME NEW lines, NEW status \in {"absent", "planned"}
  PROVE  GoodState(InitialState(status), lines)
  BY CampaignAssumption DEF GoodState, State, InitialState, Disjoint, Dispositions

\* A state of a running campaign about to dispose of a pending objective.
Disposing(s, o, lines) ==
  /\ GoodState(s, lines)
  /\ s.review = "none"
  /\ s.stopped = {}
  /\ o \in s.pending
  /\ o # NoObjective

\* Stopping at a pending objective of a running campaign keeps the state good.
LEMMA StopIsGood ==
  ASSUME NEW lines, NEW s, NEW o, Disposing(s, o, lines), NEW status \in Stopped
  PROVE  GoodState([Stop(s, o) EXCEPT !.status = status], lines)
  <1>. DEFINE t == [Stop(s, o) EXCEPT !.status = status]
  <1>0. s \in State /\ o \in Objectives
    BY DEF Disposing, GoodState, State
  <1>1. t \in State
    BY <1>0, ZenonT(90) DEF State, Stop
  <1>2. Disjoint(t) /\ Dispositions(t) = Objectives
    BY DEF Disposing, GoodState, State, Stop, Disjoint, Dispositions
  <1>. QED
    BY <1>1, <1>2 DEF Disposing, GoodState, State, Stop

\* Completing a pending objective of a running campaign keeps the state good.
LEMMA CompleteIsGood ==
  ASSUME NEW lines, NEW s, NEW o, Disposing(s, o, lines), NEW status \in Runnable
  PROVE  GoodState([Complete(s, o) EXCEPT !.status = status], lines)
  <1>. DEFINE t == [Complete(s, o) EXCEPT !.status = status]
  <1>0. s \in State /\ o \in Objectives
    BY DEF Disposing, GoodState, State
  <1>1. t \in State
    BY <1>0, ZenonT(90) DEF State, Complete
  <1>2. Disjoint(t) /\ Dispositions(t) = Objectives
    BY DEF Disposing, GoodState, State, Complete, Disjoint, Dispositions
  <1>. QED
    BY <1>1, <1>2 DEF Disposing, GoodState, State, Complete

\* Pausing at a pending objective of a running campaign keeps the state good.
LEMMA PausedIsGood ==
  ASSUME NEW lines, NEW s, NEW o, Disposing(s, o, lines),
         NEW phase \in {"pre_execution", "post_execution"}
  PROVE  GoodState(Paused(s, o, phase), lines)
  BY ZenonT(90) DEF Disposing, GoodState, State, Paused, Disjoint, Dispositions

-----------------------------------------------------------------------------
(* What one step of a command has to establish *)

\* A step of command p that leaves the event log alone.  The gate's step may
\* run an adapter.
LEMMA QuietStep ==
  ASSUME IInv,
         UNCHANGED <<kind, log, decision>>, crashes' \in Nat,
         executed' \in [Objectives -> Nat], GoodRuns',
         NEW p \in Procs, NEW r, proc' = [proc EXCEPT ![p] = r],
         GoodProcess(r, log),
         r.pc = "review_check" => decision.verdict \in ReviewVerdicts,
         GoodState(ckpt', log),
         DOMAIN evidence' \subseteq Nat,
         \A i \in DOMAIN evidence' : evidence'[i] \in Manifest
  PROVE  IInv'
  <1>1. proc' \in [Procs -> Process]
    BY DEF IInv, TypeOK, GoodProcess
  <1>2. TypeOK'
    BY <1>1 DEF IInv, TypeOK, GoodState
  <1>3. GoodState(ckpt, log)'
    BY DEF GoodState
  <1>4. ASSUME NEW q \in Procs
        PROVE  /\ GoodProcess(proc'[q], log)
               /\ proc'[q].pc = "review_check" => decision.verdict \in ReviewVerdicts
    <2>1. proc'[q] = IF q = p THEN r ELSE proc[q]
      BY DEF IInv, TypeOK
    <2>. QED
      BY <2>1 DEF IInv, GoodDecision
  <1>5. \A q \in Procs : GoodProcess(proc[q], log)'
    BY <1>4 DEF GoodProcess, GoodState, Cleared
  <1>6. GoodLog'
    BY DEF IInv, GoodLog, ResultLines, ApprovedBefore
  <1>7. GoodDecision'
    BY <1>4 DEF IInv, GoodDecision
  <1>. QED
    BY <1>2, <1>3, <1>5, <1>6, <1>7 DEF IInv

\* A step of one command that leaves the event log and the executions alone.
LEMMA SilentStep ==
  ASSUME IInv,
         UNCHANGED <<kind, log, decision, executed>>, crashes' \in Nat,
         NEW p \in Procs, NEW r, proc' = [proc EXCEPT ![p] = r],
         GoodProcess(r, log),
         r.pc = "review_check" => decision.verdict \in ReviewVerdicts,
         GoodState(ckpt', log),
         DOMAIN evidence' \subseteq Nat,
         \A i \in DOMAIN evidence' : evidence'[i] \in Manifest
  PROVE  IInv'
  <1>1. executed' \in [Objectives -> Nat]
    BY DEF IInv, TypeOK
  <1>2. GoodRuns'
    BY DEF IInv, GoodRuns
  <1>. QED
    BY <1>1, <1>2, QuietStep

\* A step of command p that appends one line to the event log.
LEMMA LoggingStep ==
  ASSUME IInv,
         UNCHANGED <<kind, ckpt, evidence, decision, executed, crashes>>,
         NEW line \in LogLine, log' = Append(log, line),
         line.type = "objective_result" =>
           /\ line.iter <= MaxIterations
           /\ kind[line.obj] = "needs_approval" /\ line.outcome = "INCONCLUSIVE"
                => ApprovedIn(log, line.obj),
         NEW p \in Procs, NEW r, proc' = [proc EXCEPT ![p] = r],
         GoodProcess(r, log'), r.pc # "review_check"
  PROVE  IInv'
  <1>1. /\ log \in Seq(LogLine)
        /\ log' \in Seq(LogLine)
        /\ Len(log) \in Nat
        /\ Len(log') = Len(log) + 1
        /\ \A i \in 1 .. Len(log) : log'[i] = log[i]
        /\ log'[Len(log) + 1] = line
    BY DEF IInv, TypeOK
  <1>2. proc' \in [Procs -> Process]
    BY DEF IInv, TypeOK, GoodProcess
  <1>3. TypeOK'
    BY <1>1, <1>2 DEF IInv, TypeOK
  <1>4. GoodState(ckpt, log)'
    BY <1>1, GoodStateStays DEF IInv
  <1>5. ASSUME NEW q \in Procs
        PROVE  /\ GoodProcess(proc'[q], log')
               /\ proc'[q].pc = "review_check" => decision.verdict \in ReviewVerdicts
    <2>1. proc'[q] = IF q = p THEN r ELSE proc[q]
      BY DEF IInv, TypeOK
    <2>2. GoodProcess(proc[q], log')
      BY <1>1, GoodStateStays, ApprovalsStay DEF IInv, GoodProcess, Cleared
    <2>. QED
      BY <2>1, <2>2 DEF IInv, GoodDecision
  <1>6. \A q \in Procs : GoodProcess(proc[q], log)'
    BY <1>5 DEF GoodProcess, GoodState, Cleared
  <1>7. GoodLog'
    <2>. SUFFICES ASSUME NEW i \in 1 .. Len(log) + 1,
                         log'[i].type = "objective_result"
                  PROVE  /\ log'[i].iter <= MaxIterations
                         /\ kind[log'[i].obj] = "needs_approval"
                              /\ log'[i].outcome = "INCONCLUSIVE"
                              => ApprovedBefore(log[i].obj, i)'
      BY <1>1 DEF GoodLog, ResultLines, ApprovedBefore
    <2>1. CASE i = Len(log) + 1
      BY <1>1, <2>1 DEF ApprovedBefore, ApprovedIn, Approves
    <2>2. CASE i \in 1 .. Len(log)
      BY <1>1, <2>2 DEF IInv, GoodLog, ResultLines, ApprovedBefore
    <2>. QED
      BY <1>1, <2>1, <2>2
  <1>8. GoodRuns'
    BY <1>1, ApprovalsStay DEF IInv, GoodRuns
  <1>9. GoodDecision'
    BY <1>5 DEF IInv, GoodDecision
  <1>. QED
    BY <1>3, <1>4, <1>6, <1>7, <1>8, <1>9 DEF IInv

-----------------------------------------------------------------------------
(* The actions, one by one *)

\* A command that is not running satisfies the process invariant.
LEMMA IdleIsGood == ASSUME NEW lines PROVE GoodProcess(Idle, lines)
  BY InitialStateIsGood DEF GoodProcess, Process, PCs, Results, Idle, NoFile, GoodState

\* Before the first command there are no files, and IInv holds.
LEMMA InitEstablishes == Init => IInv
  <1>. SUFFICES ASSUME Init PROVE IInv
    OBVIOUS
  <1>1. GoodState(NoFile, log)
    BY InitialStateIsGood DEF NoFile
  <1>2. TypeOK
    BY <1>1, IdleIsGood, LimitsArePositive
       DEF Init, TypeOK, GoodState, GoodProcess, NoDecision
  <1>3. \A p \in Procs : proc[p] = Idle
    BY DEF Init
  <1>4. GoodState(ckpt, log) /\ \A p \in Procs : GoodProcess(proc[p], log)
    BY <1>1, <1>3, IdleIsGood DEF Init
  <1>5. GoodLog
    BY DEF Init, GoodLog, ResultLines
  <1>6. GoodRuns
    BY DEF Init, GoodRuns
  <1>7. GoodDecision
    BY <1>3 DEF Init, GoodDecision, Idle
  <1>. QED
    BY <1>2, <1>4, <1>5, <1>6, <1>7 DEF IInv

\* A command that ends, or is killed.
LEMMA ExitStep ==
  ASSUME IInv,
         UNCHANGED <<kind, log, evidence, decision, executed>>, crashes' \in Nat,
         NEW p \in Procs, Exit(p), GoodState(ckpt', log)
  PROVE  IInv'
  BY IdleIsGood, SilentStep DEF Exit, Idle, IInv, TypeOK

\* Only two fields of a command change when it goes on.
MovedTo(r, pc, s) == [r EXCEPT !.pc = pc, !.st = s]

\* Moving a process changes its program counter and its state only.
LEMMA MovedFields ==
  ASSUME NEW r \in Process, NEW pc \in PCs, NEW s \in State
  PROVE  /\ MovedTo(r, pc, s) \in Process
         /\ MovedTo(r, pc, s).pc = pc
         /\ MovedTo(r, pc, s).st = s
         /\ MovedTo(r, pc, s).obj = r.obj
         /\ MovedTo(r, pc, s).result = r.result
         /\ MovedTo(r, pc, s).live = r.live
  BY DEF Process, MovedTo

\* Goto keeps the process well formed and moves it as MovedTo says.
LEMMA GotoMoves ==
  ASSUME IInv, NEW p \in Procs, NEW pc, NEW s, Goto(p, pc, s)
  PROVE  /\ proc' = [proc EXCEPT ![p] = MovedTo(proc[p], pc, s)]
         /\ proc[p] \in Process
         /\ GoodProcess(proc[p], log)
  BY DEF IInv, TypeOK, Goto, MovedTo

\* A command that goes on without a new line in the event log.
LEMMA GoOnStep ==
  ASSUME IInv,
         UNCHANGED <<kind, log, evidence, decision, executed, crashes>>,
         NEW p \in Procs, NEW pc \in PCs \ {"review_check"}, NEW s,
         Goto(p, pc, s), GoodState(s, log), GoodState(ckpt', log),
         pc \in {"announce", "save_running"} => s.status \in Runnable,
         pc = "loop" => s.status = "running",
         pc \notin {"gate", "manifest", "result", "stop_event", "review_event"}
  PROVE  IInv'
  <1>. DEFINE r == MovedTo(proc[p], pc, s)
  <1>1. proc' = [proc EXCEPT ![p] = r] /\ proc[p] \in Process
    BY GotoMoves
  <1>2. s \in State
    BY DEF GoodState
  <1>3. r \in Process /\ r.pc = pc /\ r.st = s
    BY <1>1, <1>2, MovedFields
  <1>. HIDE DEF r
  <1>4. GoodProcess(r, log)
    BY <1>3 DEF GoodProcess
  <1>5. DOMAIN evidence \subseteq Nat /\ \A i \in DOMAIN evidence : evidence[i] \in Manifest
    BY DEF IInv, TypeOK
  <1>6. crashes \in Nat
    BY DEF IInv, TypeOK
  <1>. QED
    BY <1>1, <1>3, <1>4, <1>5, <1>6, SilentStep

\* campaign-run or a graph step takes up a fresh or a saved state.
LEMMA StartStep == ASSUME IInv, NEW p \in Procs, Start(p) PROVE IInv'
  <1>1. CASE StartFresh(p)
    <2>1. PICK live \in LiveModes, cap \in StepCaps :
            proc' = [proc EXCEPT ![p] = [Idle EXCEPT !.pc = "announce",
                       !.st = InitialState("planned"), !.live = live, !.cap = cap]]
      BY <1>1 DEF StartFresh
    <2>. DEFINE r == [Idle EXCEPT !.pc = "announce",
                       !.st = InitialState("planned"), !.live = live, !.cap = cap]
    <2>2. GoodProcess(r, log) /\ r.pc = "announce"
      BY InitialStateIsGood, CampaignAssumption, IdleIsGood, ZenonT(90)
         DEF GoodProcess, Process, PCs, RunPCs, Idle, GoodState, InitialState
    <2>. QED
      BY <1>1, <2>1, <2>2, SilentStep DEF StartFresh, IInv, TypeOK
  <1>2. CASE LoadForRun(p)
    <2>1. PICK live \in LiveModes, cap \in StepCaps :
            proc' = [proc EXCEPT ![p] = [Idle EXCEPT !.pc = "verify",
                       !.st = ckpt, !.live = live, !.cap = cap]]
      BY <1>2 DEF LoadForRun
    <2>. DEFINE r == [Idle EXCEPT !.pc = "verify",
                       !.st = ckpt, !.live = live, !.cap = cap]
    <2>2. GoodProcess(r, log) /\ r.pc = "verify"
      BY CampaignAssumption, IdleIsGood, ZenonT(90)
         DEF IInv, GoodProcess, Process, PCs, RunPCs, Idle, GoodState
    <2>. QED
      BY <1>2, <2>1, <2>2, SilentStep DEF LoadForRun, IInv, TypeOK
  <1>. QED
    BY <1>1, <1>2 DEF Start

\* A command that loads the checkpoint holds a good state.
LEMMA LoadStep ==
  ASSUME IInv, NEW p \in Procs, ReviewLoad(p) \/ OperatorLoad(p) PROVE IInv'
  <1>1. CASE OperatorLoad(p)
    <2>1. GoodState(ckpt, log) /\ "operator_event" \in PCs
      BY DEF IInv, PCs
    <2>. QED
      BY <1>1, <2>1, GoOnStep DEF OperatorLoad
  <1>2. CASE ReviewLoad(p)
    <2>. DEFINE r == MovedTo(proc[p], "review_check", ckpt)
    <2>1. proc' = [proc EXCEPT ![p] = r] /\ proc[p] \in Process
      BY <1>2, GotoMoves DEF ReviewLoad
    <2>2. GoodState(ckpt, log) /\ "review_check" \in PCs /\ ckpt \in State
      BY DEF IInv, PCs, GoodState
    <2>3. r \in Process /\ r.pc = "review_check" /\ r.st = ckpt
      BY <2>1, <2>2, MovedFields
    <2>. HIDE DEF r
    <2>4. GoodProcess(r, log)
      BY <1>2, <2>2, <2>3 DEF ReviewLoad, GoodProcess
    <2>. QED
      BY <1>2, <2>1, <2>4, SilentStep DEF ReviewLoad, IInv, TypeOK, GoodDecision
  <1>. QED
    BY <1>1, <1>2

\* What append_campaign_event writes is a well-formed line.
LEMMA EventIsLine ==
  ASSUME NEW s \in State, NEW type \in EventTypes,
         NEW obj \in Objectives \union {NoObjective}, NEW iter \in Nat,
         NEW outcome \in Statuses \union ReviewVerdicts \union
                         {"INCONCLUSIVE", "MANUAL_REVIEW", "STOPPED_BY_POLICY"}
  PROVE  Event(s, type, obj, iter, outcome) \in LogLine
  BY DEF Event, State, LogLine

\* A command that goes on with a new line other than an objective_result.
LEMMA GoOnLogging ==
  ASSUME IInv,
         UNCHANGED <<kind, ckpt, evidence, decision, executed, crashes>>,
         NEW p \in Procs,
         NEW s \in State, NEW type \in EventTypes \ {"objective_result"},
         NEW obj \in Objectives \union {NoObjective}, NEW iter \in Nat,
         NEW outcome \in Statuses \union ReviewVerdicts \union
                         {"INCONCLUSIVE", "MANUAL_REVIEW", "STOPPED_BY_POLICY"},
         Emit(s, type, obj, iter, outcome),
         NEW pc \in SavePCs \union {"finish"}, NEW t, Goto(p, pc, t),
         GoodState(t, log'),
         pc = "save_running" => t.status \in Runnable
  PROVE  IInv'
  <1>. DEFINE line == Event(s, type, obj, iter, outcome)
              r == MovedTo(proc[p], pc, t)
  <1>1. line \in LogLine
    BY EventIsLine
  <1>2. log' = Append(log, line) /\ line.type = type
    BY DEF Emit, Event
  <1>3. proc' = [proc EXCEPT ![p] = r] /\ proc[p] \in Process
    BY GotoMoves
  <1>4. t \in State /\ pc \in PCs
    BY DEF GoodState, PCs, RunPCs, SavePCs
  <1>5. r \in Process /\ r.pc = pc /\ r.st = t
    BY <1>3, <1>4, MovedFields
  <1>. HIDE DEF r, line
  <1>6. GoodProcess(r, log')
    BY <1>5 DEF GoodProcess, SavePCs
  <1>7. r.pc # "review_check"
    BY <1>5 DEF SavePCs
  <1>. QED
    BY <1>1, <1>2, <1>3, <1>6, <1>7, LoggingStep

\* The resume check either enters the run or refuses it.
LEMMA VerifyStep == ASSUME IInv, NEW p \in Procs, Verify(p) PROVE IInv'
  <1>. DEFINE s == proc[p].st
              ready == s.status \in Runnable /\ EventLogMatches(s)
              pc == IF s.status = "ready_to_resume" THEN "announce"
                    ELSE "save_running"
  <1>1. GoodState(s, log) /\ GoodState(ckpt, log) /\ crashes \in Nat
    BY DEF IInv, TypeOK, GoodProcess
  <1>2. CASE ~ready
    BY <1>1, <1>2, ExitStep DEF Verify
  <1>3. CASE ready
    <2>1. Goto(p, pc, s) /\ s.status \in Runnable
      BY <1>3 DEF Verify
    <2>2. pc \in {"announce", "save_running"} /\ pc \in PCs \ {"review_check"}
      BY DEF PCs, RunPCs
    <2>3. UNCHANGED <<kind, ckpt, log, evidence, decision, executed, crashes>>
      BY DEF Verify
    <2>. HIDE DEF pc, s
    <2>. QED
      BY <1>1, <2>1, <2>2, <2>3, GoOnStep
  <1>. QED
    BY <1>2, <1>3

\* campaign_started and campaign_resumed keep the invariant.
LEMMA AnnounceStep == ASSUME IInv, NEW p \in Procs, Announce(p) PROVE IInv'
  <1>. DEFINE s == proc[p].st
              type == IF s.events = 0 THEN "campaign_started" ELSE "campaign_resumed"
              outcome == IF s.events = 0 THEN "planned" ELSE "running"
  <1>1. GoodState(s, log) /\ s \in State /\ s.status \in Runnable
    BY DEF IInv, GoodProcess, GoodState, Announce
  <1>2. /\ Emit(s, type, NoObjective, 0, outcome)
        /\ Goto(p, "save_running", Noted(s))
        /\ UNCHANGED <<kind, ckpt, evidence, decision, executed, crashes>>
    BY DEF Announce
  <1>3. type \in EventTypes \ {"objective_result"} /\ outcome \in Statuses
    BY DEF EventTypes
  <1>4. log' = Append(log, Event(s, type, NoObjective, 0, outcome))
    BY <1>2 DEF Emit
  <1>5. Event(s, type, NoObjective, 0, outcome) \in LogLine /\ log \in Seq(LogLine)
    BY <1>1, <1>3, EventIsLine DEF IInv, TypeOK
  <1>6. GoodState(Noted(s), log') /\ Noted(s).status = s.status
    BY <1>1, <1>4, <1>5, NotedIsGood, GoodStateStays DEF Noted, State
  <1>. HIDE DEF type, outcome, s
  <1>. QED
    BY <1>1, <1>2, <1>3, <1>6, GoOnLogging DEF SavePCs

\* save_state followed by more of the command.
LEMMA SaveStep ==
  ASSUME IInv, UNCHANGED <<kind, log, evidence, decision, executed, crashes>>,
         NEW p \in Procs, NEW s, NEW pc \in {"loop", "finish"},
         Save(p, s, pc), GoodState(s, log), pc = "loop" => s.status = "running"
  PROVE  IInv'
  <1>1. GoodState(Revised(s), log) /\ ckpt' = Revised(s) /\ Goto(p, pc, Revised(s))
    BY RevisedIsGood DEF Save
  <1>2. Revised(s).status = s.status
    BY DEF Revised, GoodState, State
  <1>3. pc \in PCs \ {"review_check"}
    BY DEF PCs, RunPCs
  <1>. QED
    BY <1>1, <1>2, <1>3, GoOnStep

\* The save that turns a resumed state into a running one.
LEMMA SaveRunningStep == ASSUME IInv, NEW p \in Procs, SaveRunning(p) PROVE IInv'
  <1>. DEFINE s == [proc[p].st EXCEPT !.status = "running"]
  <1>1. GoodState(proc[p].st, log) /\ proc[p].st.status \in Runnable
    BY DEF IInv, GoodProcess, SaveRunning
  <1>2. GoodState(s, log) /\ s.status = "running"
    BY <1>1 DEF GoodState, State, Disjoint, Dispositions
  <1>3. /\ Save(p, s, "loop")
        /\ UNCHANGED <<kind, log, evidence, decision, executed, crashes>>
    BY DEF SaveRunning
  <1>. HIDE DEF s
  <1>. QED
    BY <1>2, <1>3, SaveStep

\* The save at the end of one loop iteration.
LEMMA StepSaveStep == ASSUME IInv, NEW p \in Procs, StepSave(p) PROVE IInv'
  <1>. DEFINE pc == IF proc[p].st.status = "running" THEN "loop" ELSE "finish"
  <1>1. GoodState(proc[p].st, log)
    BY DEF IInv, GoodProcess
  <1>2. /\ Save(p, proc[p].st, pc)
        /\ UNCHANGED <<kind, log, evidence, decision, executed, crashes>>
    BY DEF StepSave
  <1>. QED
    BY <1>1, <1>2, SaveStep

\* The save of a lockout pause or a fuzzing stop.
LEMMA StopSaveStep == ASSUME IInv, NEW p \in Procs, StopSave(p) PROVE IInv'
  BY SaveStep DEF StopSave, IInv, GoodProcess

\* Leaving the loop at max_steps or with nothing pending.
LEMMA EndLoopStep == ASSUME IInv, NEW p \in Procs, EndLoop(p) PROVE IInv'
  BY GoOnStep DEF EndLoop, IInv, GoodProcess, PCs, RunPCs

\* The save that ends run_campaign.
LEMMA FinalSaveStep == ASSUME IInv, NEW p \in Procs, FinalSave(p) PROVE IInv'
  <1>1. GoodState(Revised(proc[p].st), log)
    BY RevisedIsGood DEF IInv, GoodProcess
  <1>. QED
    BY <1>1, ExitStep DEF FinalSave, IInv, TypeOK

\* The save that ends request_operator_stop.
LEMMA OperatorSaveStep == ASSUME IInv, NEW p \in Procs, OperatorSave(p) PROVE IInv'
  <1>1. GoodState(Revised(proc[p].st), log)
    BY RevisedIsGood DEF IInv, GoodProcess
  <1>. QED
    BY <1>1, ExitStep DEF OperatorSave, IInv, TypeOK

\* The state that follows an event line is good against the longer log.
LEMMA NotedAfterEmit ==
  ASSUME IInv, NEW s \in State, NEW type \in EventTypes,
         NEW obj \in Objectives \union {NoObjective}, NEW iter \in Nat,
         NEW outcome \in Statuses \union ReviewVerdicts \union
                         {"INCONCLUSIVE", "MANUAL_REVIEW", "STOPPED_BY_POLICY"},
         Emit(s, type, obj, iter, outcome), NEW t, GoodState(t, log)
  PROVE  GoodState(Noted(t), log')
  <1>1. log' = Append(log, Event(s, type, obj, iter, outcome))
    BY DEF Emit
  <1>2. Event(s, type, obj, iter, outcome) \in LogLine /\ log \in Seq(LogLine)
    BY EventIsLine DEF IInv, TypeOK
  <1>3. GoodState(t, log')
    BY <1>1, <1>2, GoodStateStays
  <1>. QED
    BY <1>2, <1>3, NotedIsGood

\* The campaign_paused event of an objective result.
LEMMA PauseEventStep == ASSUME IInv, NEW p \in Procs, PauseEvent(p) PROVE IInv'
  <1>. DEFINE s == proc[p].st
  <1>1. GoodState(s, log) /\ s \in State
    BY DEF IInv, GoodProcess, GoodState
  <1>2. /\ Emit(s, "campaign_paused", s.current, s.next - 1, "paused_for_human_review")
        /\ Goto(p, "step_save", Noted(s))
        /\ UNCHANGED <<kind, ckpt, evidence, decision, executed, crashes>>
    BY DEF PauseEvent
  <1>3. s.current \in Objectives \union {NoObjective} /\ s.next - 1 \in Nat
    BY <1>1 DEF State
  <1>4. "campaign_paused" \in EventTypes \ {"objective_result"}
    BY DEF EventTypes
  <1>. HIDE DEF s
  <1>5. GoodState(Noted(s), log')
    BY <1>1, <1>2, <1>3, <1>4, NotedAfterEmit
  <1>. QED
    BY <1>1, <1>2, <1>3, <1>4, <1>5, GoOnLogging DEF SavePCs

\* A campaign is completed when nothing is pending.
LEMMA CompleteCampaignStep ==
  ASSUME IInv, NEW p \in Procs, CompleteCampaign(p) PROVE IInv'
  <1>. DEFINE s == [proc[p].st EXCEPT !.status = "completed", !.current = NoObjective]
  <1>1. GoodState(proc[p].st, log) /\ AllDone(proc[p].st)
    BY DEF IInv, GoodProcess, CompleteCampaign
  <1>2. GoodState(s, log) /\ s \in State
    BY <1>1, ZenonT(90) DEF GoodState, State, Disjoint, Dispositions, AllDone
  <1>3. /\ Emit(s, "campaign_completed", NoObjective, 0, "completed")
        /\ Goto(p, "final_save", Noted(s))
        /\ UNCHANGED <<kind, ckpt, evidence, decision, executed, crashes>>
    BY DEF CompleteCampaign
  <1>4. "campaign_completed" \in EventTypes \ {"objective_result"}
    BY DEF EventTypes
  <1>. HIDE DEF s
  <1>5. GoodState(Noted(s), log')
    BY <1>2, <1>3, <1>4, NotedAfterEmit
  <1>. QED
    BY <1>2, <1>3, <1>4, <1>5, GoOnLogging DEF SavePCs

\* Writing a manifest keeps the evidence directories well typed.
LEMMA ManifestWritten ==
  ASSUME IInv, NEW iter \in Nat, NEW o \in Objectives,
         NEW verdict \in {"INCONCLUSIVE", "MANUAL_REVIEW", "STOPPED_BY_POLICY"},
         WriteManifest(iter, o, verdict)
  PROVE  /\ DOMAIN evidence' \subseteq Nat
         /\ \A i \in DOMAIN evidence' : evidence'[i] \in Manifest
  BY DEF IInv, TypeOK, WriteManifest, Put, Manifest

\* The objective that the loop selects is pending in a running campaign.
LEMMA SelectedIsPending ==
  ASSUME IInv, NEW p \in Procs, NEW o \in Objectives, Selected(p, o)
  PROVE  /\ proc[p] \in Process /\ GoodState(proc[p].st, log)
         /\ proc[p].st \in State
         /\ proc[p].st.status = "running"
         /\ o \in proc[p].st.pending
  BY DEF IInv, GoodProcess, GoodState, Selected, IsNext

\* The manifest of a stop or a pause before execution.
LEMMA StopWithManifestStep ==
  ASSUME IInv, NEW p \in Procs, NEW o \in Objectives, Selected(p, o),
         NEW reason \in Results, NEW verdict \in {"MANUAL_REVIEW", "STOPPED_BY_POLICY"},
         StopWithManifest(p, o, reason, verdict)
  PROVE  IInv'
  <1>. DEFINE r == [proc[p] EXCEPT !.pc = "stop_event", !.obj = o, !.result = reason]
  <1>1. proc' = [proc EXCEPT ![p] = r]
    BY DEF StopWithManifest, IInv, TypeOK
  <1>2. /\ r \in Process
        /\ r.pc = "stop_event" /\ r.st = proc[p].st /\ r.obj = o
    BY SelectedIsPending DEF Process, PCs, RunPCs
  <1>. HIDE DEF r
  <1>3. GoodProcess(r, log)
    BY <1>2, SelectedIsPending DEF GoodProcess
  <1>4. proc[p].st.next \in Nat
    BY SelectedIsPending DEF State
  <1>5. /\ DOMAIN evidence' \subseteq Nat
        /\ \A i \in DOMAIN evidence' : evidence'[i] \in Manifest
    BY <1>4, ManifestWritten DEF StopWithManifest
  <1>. QED
    BY <1>1, <1>2, <1>3, <1>5, SilentStep DEF StopWithManifest, IInv, TypeOK

\* An objective is begun within the iteration limit.
LEMMA BeginObjectiveStep ==
  ASSUME IInv, NEW p \in Procs, NEW o \in Objectives, BeginObjective(p, o)
  PROVE  IInv'
  <1>. DEFINE s == [proc[p].st EXCEPT !.current = o]
              r == [proc[p] EXCEPT !.pc = "gate", !.st = Revised(s), !.obj = o]
  <1>1. /\ proc[p] \in Process /\ GoodState(proc[p].st, log)
        /\ proc[p].st \in State
        /\ proc[p].st.status = "running"
        /\ o \in proc[p].st.pending
    BY SelectedIsPending DEF BeginObjective
  <1>2. GoodState(s, log) /\ s.status = "running" /\ s.current = o
        /\ s.next = proc[p].st.next
    BY <1>1 DEF GoodState, State, Disjoint, Dispositions
  <1>3. proc[p].st.next <= MaxIterations
    <2>1. DenialReason(BudgetOf(proc[p].st), FALSE, ProposedRequests(o)) = "none"
      BY DEF BeginObjective, StopReason
    <2>2. ~(proc[p].st.next - 1 >= MaxIterations)
      BY <2>1 DEF DenialReason, BudgetOf
    <2>. QED
      BY <1>1, <2>2, LimitsArePositive DEF State
  <1>4. kind[o] = "lockout" => ApprovedIn(log, o)
    BY <1>1 DEF BeginObjective, LockoutUnreviewed, GoodState
  <1>5. ckpt' = Revised(s) /\ proc' = [proc EXCEPT ![p] = r]
    BY DEF BeginObjective, IInv, TypeOK
  <1>. HIDE DEF s
  <1>6. GoodState(Revised(s), log) /\ Revised(s) \in State
    BY <1>2, RevisedIsGood DEF GoodState
  <1>7. /\ Revised(s).status = "running" /\ Revised(s).current = o
        /\ Revised(s).next = proc[p].st.next
    BY <1>2 DEF Revised, GoodState, State
  <1>8. /\ r \in Process
        /\ r.pc = "gate" /\ r.st = Revised(s) /\ r.obj = o
    BY <1>1, <1>6 DEF Process, PCs, RunPCs
  <1>. HIDE DEF r
  <1>9. GoodProcess(r, log)
    BY <1>3, <1>4, <1>6, <1>7, <1>8 DEF GoodProcess
  <1>10. /\ crashes \in Nat
         /\ DOMAIN evidence \subseteq Nat
         /\ \A i \in DOMAIN evidence : evidence[i] \in Manifest
    BY DEF IInv, TypeOK
  <1>. QED
    BY <1>5, <1>6, <1>8, <1>9, <1>10, SilentStep DEF BeginObjective

\* The four ways the loop can deal with the objective it selected.
LEMMA StepObjectiveStep ==
  ASSUME IInv, NEW p \in Procs, NEW o \in Objectives, StepObjective(p, o)
  PROVE  IInv'
  <1>1. CASE FuzzingStop(p, o)
    BY <1>1, StopWithManifestStep DEF FuzzingStop, Results
  <1>2. CASE LockoutPause(p, o)
    BY <1>2, StopWithManifestStep DEF LockoutPause, Results
  <1>3. CASE \E late \in BOOLEAN : BudgetStop(p, o, late)
    <2>1. PICK late \in BOOLEAN : BudgetStop(p, o, late)
      BY <1>3
    <2>2. StopReason(proc[p].st, o, late) \in Results
      BY DEF StopReason, DenialReason, Results, Reasons
    <2>. QED
      BY <2>1, <2>2, StopWithManifestStep DEF BudgetStop
  <1>4. CASE BeginObjective(p, o)
    BY <1>4, BeginObjectiveStep
  <1>. QED
    BY <1>1, <1>2, <1>3, <1>4 DEF StepObjective

\* The gate lets an objective through only as Cleared says.
LEMMA EvaluateStep ==
  ASSUME IInv, NEW p \in Procs, NEW answer \in {"allowed", "human", "denied"},
         EvaluateAndExecute(p, answer)
  PROVE  IInv'
  <1>. DEFINE o == proc[p].obj
              r == [proc[p] EXCEPT !.pc = "manifest", !.result = answer]
  <1>1. /\ proc[p] \in Process /\ GoodProcess(proc[p], log)
        /\ proc[p].pc = "gate" /\ o \in Objectives
    BY DEF IInv, GoodProcess, EvaluateAndExecute
  <1>2. proc' = [proc EXCEPT ![p] = r]
    BY DEF EvaluateAndExecute, IInv, TypeOK
  <1>3. /\ r \in Process
        /\ r.pc = "manifest" /\ r.st = proc[p].st /\ r.obj = o
        /\ r.result = answer /\ r.live = proc[p].live
    BY <1>1 DEF Process, PCs, RunPCs, Results
  <1>4. answer = "allowed" => Cleared(o, ~proc[p].live, log)
    BY <1>1 DEF EvaluateAndExecute, GateAnswers, Cleared, GoodProcess, GoodState
  <1>. HIDE DEF r
  <1>5. GoodProcess(r, log)
    BY <1>1, <1>3, <1>4 DEF GoodProcess
  <1>6. executed' \in [Objectives -> Nat]
    BY <1>1 DEF EvaluateAndExecute, IInv, TypeOK
  <1>7. GoodRuns'
    <2>. SUFFICES ASSUME NEW x \in Objectives, kind[x] = "lockout", executed'[x] > 0
                  PROVE  ApprovedIn(log, x)
      BY DEF GoodRuns, EvaluateAndExecute
    <2>1. CASE x = o
      BY <1>1, <2>1 DEF GoodProcess
    <2>2. CASE x # o
      BY <2>2 DEF EvaluateAndExecute, IInv, TypeOK, GoodRuns
    <2>. QED
      BY <2>1, <2>2
  <1>8. /\ GoodState(ckpt, log) /\ crashes \in Nat
        /\ DOMAIN evidence \subseteq Nat
        /\ \A i \in DOMAIN evidence : evidence[i] \in Manifest
    BY DEF IInv, TypeOK
  <1>. QED
    BY <1>2, <1>3, <1>5, <1>6, <1>7, <1>8, QuietStep DEF EvaluateAndExecute

\* Iteration numbers stay positive.
LEMMA NextIsPositive == \A n \in Nat : n + 1 \in Nat /\ n + 1 # 0
  OBVIOUS

\* The three endings of RecordResult and StopEvent, from a running campaign.
LEMMA RunningIsDisposing ==
  ASSUME NEW lines, NEW s, GoodState(s, lines), s.status = "running",
         NEW o \in s.pending, NEW t,
         \/ t = [s EXCEPT !.next = s.next + 1]
         \/ \E a, b, c \in Nat :
              t = [s EXCEPT !.next = s.next + 1, !.requests = a,
                            !.minute = b, !.failures = c]
  PROVE  Disposing(t, o, lines) /\ t.status = "running"
  <1>. DEFINE Kept == /\ t \in State
                      /\ t.status = "running" /\ t.review = s.review
                      /\ t.current = s.current /\ t.completed = s.completed
                      /\ t.pending = s.pending /\ t.stopped = s.stopped
                      /\ t.reviewed = s.reviewed
  <1>1. Kept
    <2>1. s \in State /\ s.next + 1 \in Nat /\ s.next + 1 # 0
      <3>1. s \in State
        BY DEF GoodState
      <3>2. s.next \in Nat
        BY <3>1 DEF State
      <3>. QED
        BY <3>1, <3>2, NextIsPositive, Zenon
    <2>2. CASE t = [s EXCEPT !.next = s.next + 1]
      BY <2>1, <2>2 DEF State
    <2>3. ASSUME NEW a \in Nat, NEW b \in Nat, NEW c \in Nat,
                 t = [s EXCEPT !.next = s.next + 1, !.requests = a,
                               !.minute = b, !.failures = c]
          PROVE  Kept
      BY <2>1, <2>3 DEF State
    <2>. QED
      BY <2>2, <2>3
  <1>2. o # NoObjective
    BY CampaignAssumption, ZenonT(90) DEF GoodState, State
  <1>3. Disjoint(t) /\ Dispositions(t) = Objectives
    BY <1>1 DEF GoodState, Disjoint, Dispositions
  <1>4. s.review = "none" /\ s.stopped = {}
    BY DEF GoodState, State
  <1>5. GoodState(t, lines)
    BY <1>1, <1>3, <1>4 DEF GoodState
  <1>. QED
    BY <1>1, <1>2, <1>4, <1>5 DEF Disposing

\* The event and the disposition of a stop or a pause before execution.
LEMMA StopEventStep == ASSUME IInv, NEW p \in Procs, StopEvent(p) PROVE IInv'
  <1>. DEFINE o == proc[p].obj
              why == proc[p].result
              s == [proc[p].st EXCEPT !.next = proc[p].st.next + 1]
              after ==
                CASE why = "lockout" -> Paused(s, o, "pre_execution")
                  [] why = "fuzz_stop" ->
                       [Stop(s, o) EXCEPT !.status = "stopped_by_condition"]
                  [] why = "operator_stop" ->
                       [Stop(s, o) EXCEPT !.status = "stopped_by_operator"]
                  [] OTHER -> [Stop(s, o) EXCEPT !.status = "stopped_by_budget"]
              type == IF why = "lockout" THEN "campaign_paused" ELSE "campaign_stop"
              outcome == IF why \in {"lockout", "fuzz_stop"} THEN after.status
                         ELSE "STOPPED_BY_POLICY"
              pc == IF why \in {"lockout", "fuzz_stop"} THEN "stop_save" ELSE "finish"
  <1>1. /\ proc[p].st \in State /\ GoodState(proc[p].st, log)
        /\ proc[p].st.status = "running" /\ o \in proc[p].st.pending
    BY DEF IInv, GoodProcess, GoodState, StopEvent
  <1>2. Disposing(s, o, log)
    BY <1>1, RunningIsDisposing
  <1>3. GoodState(after, log)
    BY <1>2, StopIsGood, PausedIsGood
  <1>4. /\ Emit(proc[p].st, type, o, proc[p].st.next, outcome)
        /\ Goto(p, pc, Noted(after))
        /\ UNCHANGED <<kind, ckpt, evidence, decision, executed, crashes>>
    BY DEF StopEvent
  <1>5. /\ type \in EventTypes \ {"objective_result"}
        /\ o \in Objectives \union {NoObjective} /\ proc[p].st.next \in Nat
        /\ outcome \in Statuses \union {"STOPPED_BY_POLICY"}
        /\ pc \in SavePCs \union {"finish"} /\ pc # "save_running"
    BY <1>1, <1>3 DEF EventTypes, State, GoodState, SavePCs
  <1>. HIDE DEF s, after, type, outcome, pc
  <1>6. GoodState(Noted(after), log')
    BY <1>1, <1>3, <1>4, <1>5, NotedAfterEmit
  <1>. QED
    BY <1>1, <1>4, <1>5, <1>6, GoOnLogging

\* The manifest of an objective that went through the gate.
LEMMA WriteEvidenceStep == ASSUME IInv, NEW p \in Procs, WriteEvidence(p) PROVE IInv'
  <1>. DEFINE r == MovedTo(proc[p], "result", proc[p].st)
  <1>1. /\ proc' = [proc EXCEPT ![p] = r] /\ proc[p] \in Process
        /\ GoodProcess(proc[p], log)
    BY GotoMoves DEF WriteEvidence
  <1>2. proc[p].st \in State /\ "result" \in PCs
    BY <1>1 DEF GoodProcess, GoodState, PCs, RunPCs
  <1>3. /\ r.pc = "result" /\ r \in Process
        /\ r.st = proc[p].st /\ r.obj = proc[p].obj
        /\ r.result = proc[p].result /\ r.live = proc[p].live
    BY <1>1, <1>2, MovedFields
  <1>. HIDE DEF r
  <1>4. GoodProcess(r, log)
    BY <1>1, <1>3 DEF GoodProcess, WriteEvidence
  <1>5. /\ proc[p].st.next \in Nat /\ proc[p].obj \in Objectives
        /\ Outcome(p) \in {"INCONCLUSIVE", "MANUAL_REVIEW", "STOPPED_BY_POLICY"}
    BY <1>1, <1>2 DEF State, GoodProcess, WriteEvidence, Outcome
  <1>6. /\ DOMAIN evidence' \subseteq Nat
        /\ \A i \in DOMAIN evidence' : evidence'[i] \in Manifest
    BY <1>5, ManifestWritten DEF WriteEvidence
  <1>7. crashes \in Nat /\ GoodState(ckpt, log)
    BY DEF IInv, TypeOK
  <1>. QED
    BY <1>1, <1>3, <1>4, <1>6, <1>7, SilentStep DEF WriteEvidence

\* Charging the budget does not disturb the state it is charged to.
LEMMA ChargedIsDisposing ==
  ASSUME IInv, NEW p \in Procs, RecordResult(p)
  PROVE  /\ Disposing(Charged(p), proc[p].obj, log)
         /\ Charged(p).status = "running"
  <1>. DEFINE s == proc[p].st
              failed == Outcome(p) = "STOPPED_BY_POLICY"
              b == Record(BudgetOf(s), 0, failed)
  <1>0. GoodProcess(proc[p], log) /\ proc[p].pc = "result"
    BY DEF IInv, RecordResult
  <1>1. /\ GoodState(s, log) /\ s \in State
        /\ s.status = "running" /\ proc[p].obj \in s.pending
    BY <1>0, CampaignAssumption DEF GoodProcess, GoodState
  <1>2. s.requests \in Nat /\ s.minute \in Nat /\ s.failures \in Nat
    BY <1>1 DEF State
  <1>3. b.requests \in Nat /\ b.minute \in Nat /\ b.failures \in Nat
    BY <1>2 DEF Record, BudgetOf
  <1>4. Charged(p) = [s EXCEPT !.next = s.next + 1, !.requests = b.requests,
                               !.minute = b.minute, !.failures = b.failures]
    BY DEF Charged
  <1>. HIDE DEF s, b
  <1>5. \E x, y, z \in Nat :
          Charged(p) = [s EXCEPT !.next = s.next + 1, !.requests = x,
                                 !.minute = y, !.failures = z]
    BY <1>3, <1>4
  <1>. QED
    BY <1>1, <1>5, RunningIsDisposing

\* Completing the objective in hand leaves a good running process.
LEMMA CompleteWhileRunning ==
  ASSUME NEW lines, NEW s, NEW o, Disposing(s, o, lines), s.status = "running"
  PROVE  GoodState(Complete(s, o), lines)
  <1>1. GoodState([Complete(s, o) EXCEPT !.status = "running"], lines)
    BY CompleteIsGood
  <1>2. [Complete(s, o) EXCEPT !.status = "running"] = Complete(s, o)
    BY DEF Complete, Disposing, GoodState, State
  <1>. QED
    BY <1>1, <1>2

\* The result line is within the limits, and its disposition is good.
LEMMA RecordResultStep == ASSUME IInv, NEW p \in Procs, RecordResult(p) PROVE IInv'
  <1>. DEFINE o == proc[p].obj
              old == proc[p].st
              s == Charged(p)
              settled ==
                CASE proc[p].result = "human" -> Paused(s, o, "pre_execution")
                  [] proc[p].result = "denied" ->
                       [Stop(s, o) EXCEPT !.status = "stopped_by_policy"]
                  [] Outcome(p) = "MANUAL_REVIEW" /\ proc[p].result = "allowed" ->
                       Paused(s, o, "post_execution")
                  [] OTHER -> Complete(s, o)
              pc == IF settled.review = "none" THEN "step_save" ELSE "pause_event"
              line == Event(old, "objective_result", o, old.next, Outcome(p))
              r == [proc[p] EXCEPT !.pc = pc, !.st = Noted(settled),
                                   !.steps = proc[p].steps + 1]
  <1>1. /\ proc[p] \in Process /\ GoodProcess(proc[p], log) /\ proc[p].pc = "result"
        /\ old \in State /\ log \in Seq(LogLine)
    BY DEF IInv, TypeOK, GoodProcess, GoodState, RecordResult
  <1>2. GoodState(settled, log)
    BY ChargedIsDisposing, StopIsGood, PausedIsGood, CompleteWhileRunning
  <1>3. /\ log' = Append(log, line)
        /\ UNCHANGED <<kind, ckpt, evidence, decision, executed, crashes>>
    BY DEF RecordResult, Emit
  <1>4. proc' = [proc EXCEPT ![p] = r]
    BY ZenonT(90) DEF RecordResult, IInv, TypeOK
  <1>5. /\ o \in Objectives /\ old.next \in Nat /\ old.next <= MaxIterations
        /\ "objective_result" \in EventTypes
        /\ Outcome(p) \in {"INCONCLUSIVE", "MANUAL_REVIEW", "STOPPED_BY_POLICY"}
    BY <1>1 DEF GoodProcess, State, EventTypes, Outcome
  <1>6. line \in LogLine
    BY <1>1, <1>5, EventIsLine
  <1>7. Emit(old, "objective_result", o, old.next, Outcome(p))
    BY DEF RecordResult
  <1>8. GoodState(Noted(settled), log') /\ Noted(settled) \in State
    <2>. HIDE DEF settled, old, o
    <2>. QED
      BY <1>1, <1>2, <1>5, <1>7, NotedAfterEmit DEF GoodState
  <1>9. kind[o] = "needs_approval" /\ Outcome(p) = "INCONCLUSIVE" => ApprovedIn(log, o)
    BY <1>1 DEF GoodProcess, Cleared, Outcome
  <1>10. /\ line.type = "objective_result" /\ line.obj = o
         /\ line.iter = old.next /\ line.outcome = Outcome(p)
    BY DEF Event
  <1>11. /\ r \in Process /\ r.pc \in {"step_save", "pause_event"}
         /\ r.st = Noted(settled)
    <2>1. pc \in PCs /\ pc \in {"step_save", "pause_event"}
      BY DEF PCs, RunPCs
    <2>2. proc[p].steps + 1 \in Nat
      BY <1>1 DEF Process
    <2>. DEFINE n == proc[p].steps + 1
                t == Noted(settled)
    <2>. HIDE DEF settled, pc, n, t
    <2>3. n \in Nat /\ t \in State
      BY <1>8, <2>2 DEF n, t
    <2>4. [proc[p] EXCEPT !.pc = pc, !.st = t, !.steps = n] \in Process
      BY <1>1, <2>1, <2>3 DEF Process
    <2>5. r = [proc[p] EXCEPT !.pc = pc, !.st = t, !.steps = n]
      BY DEF n, t
    <2>6. r.pc = pc /\ r.st = t
      BY <1>1, <2>5 DEF Process
    <2>. QED
      BY <2>1, <2>4, <2>5, <2>6 DEF t
  <1>. HIDE DEF r, line, settled
  <1>12. GoodProcess(r, log')
    BY <1>8, <1>11 DEF GoodProcess
  <1>. QED
    BY <1>3, <1>4, <1>5, <1>6, <1>9, <1>10, <1>11, <1>12, LoggingStep

\* A review is answered only with a verdict the operator wrote.
LEMMA ReviewCheckStep == ASSUME IInv, NEW p \in Procs, ReviewCheck(p) PROVE IInv'
  <1>. DEFINE r == [proc[p] EXCEPT !.pc = "review_event", !.result = decision.verdict]
  <1>1. /\ proc[p] \in Process /\ GoodProcess(proc[p], log)
        /\ proc[p].pc = "review_check"
        /\ decision.verdict \in ReviewVerdicts
    BY DEF IInv, TypeOK, ReviewCheck, GoodDecision
  <1>2. /\ GoodState(ckpt, log) /\ crashes \in Nat
        /\ DOMAIN evidence \subseteq Nat
        /\ \A i \in DOMAIN evidence : evidence[i] \in Manifest
    BY DEF IInv, TypeOK
  <1>3. CASE Exit(p)
    BY <1>2, <1>3, ExitStep DEF ReviewCheck
  <1>4. CASE ~Exit(p)
    <2>1. proc' = [proc EXCEPT ![p] = r]
      BY <1>4 DEF ReviewCheck, IInv, TypeOK
    <2>2. /\ r \in Process /\ r.pc = "review_event" /\ r.st = proc[p].st
          /\ r.result \in ReviewVerdicts
      BY <1>1 DEF Process, PCs, Results, ReviewVerdicts
    <2>. HIDE DEF r
    <2>3. GoodProcess(r, log)
      BY <1>1, <2>2 DEF GoodProcess
    <2>. QED
      BY <1>2, <2>1, <2>2, <2>3, SilentStep DEF ReviewCheck
  <1>. QED
    BY <1>3, <1>4

\* The answer to a pause disposes of the objective it was about.  An approval
\* before execution is in the log by the time the state remembers it.
LEMMA ReviewEventStep == ASSUME IInv, NEW p \in Procs, ReviewEvent(p) PROVE IInv'
  <1>. DEFINE old == proc[p].st
              o == old.current
              verdict == proc[p].result
              s == [old EXCEPT !.review = "none"]
              after ==
                CASE verdict = "approved" /\ old.review = "pre_execution" ->
                       [s EXCEPT !.reviewed = s.reviewed \union {o},
                                 !.current = NoObjective,
                                 !.status = "ready_to_resume"]
                  [] verdict = "approved" /\ old.review # "pre_execution" ->
                       [Complete(s, o) EXCEPT !.status = "ready_to_resume"]
                  [] verdict = "denied" ->
                       [Stop(s, o) EXCEPT !.status = "stopped_by_condition"]
                  [] OTHER ->
                       [Stop(s, o) EXCEPT !.status = "stopped_by_operator",
                                          !.operatorStop = TRUE]
              line == Event(s, "review_decision", o, s.next - 1, verdict)
  <1>1. /\ GoodState(old, log) /\ old \in State /\ verdict \in ReviewVerdicts
        /\ old.status = "paused_for_human_review"
        /\ log \in Seq(LogLine)
    BY DEF IInv, TypeOK, GoodProcess, GoodState, ReviewEvent
  <1>2. o \in old.pending /\ o \in Objectives /\ old.stopped = {}
    BY <1>1 DEF GoodState, State
  <1>3. /\ s \in State /\ s.pending = old.pending /\ s.completed = old.completed
        /\ s.stopped = {} /\ s.reviewed = old.reviewed /\ s.current = o
        /\ s.review = "none" /\ s.next \in Nat \ {0}
    BY <1>1, <1>2 DEF State
  <1>4. /\ Emit(s, "review_decision", o, s.next - 1, verdict)
        /\ Goto(p, "review_save", Noted(after))
        /\ UNCHANGED <<kind, ckpt, evidence, decision, executed, crashes>>
    BY DEF ReviewEvent
  <1>5. /\ "review_decision" \in EventTypes \ {"objective_result"}
        /\ s.next - 1 \in Nat
    BY <1>3 DEF EventTypes
  <1>6. line \in LogLine /\ log' = Append(log, line)
    BY <1>1, <1>2, <1>3, <1>4, <1>5, EventIsLine DEF Emit
  <1>7. verdict = "approved" => ApprovedIn(log', o)
    <2>1. log'[Len(log) + 1] = line /\ Len(log') = Len(log) + 1 /\ Len(log) \in Nat
      BY <1>1, <1>6
    <2>2. line.type = "review_decision" /\ line.obj = o /\ line.outcome = verdict
      BY DEF Event
    <2>. HIDE DEF line
    <2>. QED
      BY <2>1, <2>2 DEF ApprovedIn, Approves
  <1>8. \A x \in old.reviewed : ApprovedIn(log', x)
    BY <1>1, <1>6, ApprovalsStay DEF GoodState
  <1>9. /\ Disjoint(s) /\ Dispositions(s) = Objectives /\ o # NoObjective
    BY <1>1, <1>2, <1>3, CampaignAssumption DEF GoodState, Disjoint, Dispositions
  <1>. HIDE DEF s, line
  <1>10. GoodState(after, log')
    <2>1. CASE verdict = "approved" /\ old.review = "pre_execution"
      <3>. DEFINE t == [s EXCEPT !.reviewed = s.reviewed \union {o},
                                 !.current = NoObjective,
                                 !.status = "ready_to_resume"]
      <3>1. /\ t \in State /\ t.pending = s.pending /\ t.completed = s.completed
            /\ t.stopped = {} /\ t.reviewed = s.reviewed \union {o}
            /\ t.current = NoObjective /\ t.review = "none"
            /\ t.status = "ready_to_resume"
        BY <1>2, <1>3 DEF State
      <3>2. Disjoint(t) /\ Dispositions(t) = Objectives
        BY <1>3, <1>9, <3>1 DEF Disjoint, Dispositions
      <3>3. \A x \in t.reviewed : ApprovedIn(log', x)
        BY <1>3, <1>7, <1>8, <2>1, <3>1
      <3>4. after = t
        BY <2>1
      <3>. HIDE DEF t, after
      <3>. QED
        BY <3>1, <3>2, <3>3, <3>4 DEF GoodState
    <2>2. CASE ~(verdict = "approved" /\ old.review = "pre_execution")
      <3>. DEFINE t == IF verdict = "approved" THEN Complete(s, o) ELSE Stop(s, o)
                  status == IF verdict = "approved" THEN "ready_to_resume"
                            ELSE IF verdict = "denied" THEN "stopped_by_condition"
                            ELSE "stopped_by_operator"
                  stop == IF verdict \in {"approved", "denied"} THEN s.operatorStop
                          ELSE TRUE
                  u == [t EXCEPT !.status = status, !.operatorStop = stop]
      <3>1. /\ t \in State /\ t.pending = s.pending \ {o}
            /\ t.completed = IF verdict = "approved" THEN s.completed \union {o}
                             ELSE s.completed
            /\ t.stopped = IF verdict = "approved" THEN {} ELSE {o}
            /\ t.reviewed = s.reviewed /\ t.current = NoObjective
            /\ t.review = "none" /\ t.operatorStop = s.operatorStop
        BY <1>2, <1>3 DEF State, Complete, Stop
      <3>2. after = u
        BY <1>1, <1>2, <1>3, <2>2, ZenonT(90) DEF State, Complete, Stop, ReviewVerdicts
      <3>3. s.operatorStop \in BOOLEAN /\ stop \in BOOLEAN
        BY <1>3 DEF State
      <3>4. /\ u \in State /\ u.pending = t.pending /\ u.completed = t.completed
            /\ u.stopped = t.stopped /\ u.reviewed = t.reviewed
            /\ u.current = NoObjective /\ u.review = "none" /\ u.status = status
        <4>. HIDE DEF t, stop
        <4>. QED
          BY <3>1, <3>3, ZenonT(90) DEF State
      <3>. HIDE DEF t, u, after, stop
      <3>5. Disjoint(u) /\ Dispositions(u) = Objectives
        BY <1>2, <1>3, <1>9, <3>1, <3>4 DEF Disjoint, Dispositions
      <3>6. \A x \in u.reviewed : ApprovedIn(log', x)
        BY <1>3, <1>8, <3>1, <3>4
      <3>7. status \in Runnable => u.stopped = {}
        BY <3>1, <3>4
      <3>. QED
        BY <3>2, <3>4, <3>5, <3>6, <3>7 DEF GoodState
    <2>. QED
      BY <2>1, <2>2
  <1>. HIDE DEF after
  <1>11. GoodState(Noted(after), log')
    BY <1>1, <1>10, NotedIsGood
  <1>. QED
    BY <1>1, <1>2, <1>3, <1>4, <1>5, <1>11, GoOnLogging DEF SavePCs

\* The save of a review, with or without going on to run the campaign.
LEMMA ReviewSaveStep == ASSUME IInv, NEW p \in Procs, ReviewSave(p) PROVE IInv'
  <1>. DEFINE s == Revised(proc[p].st)
  <1>1. /\ GoodState(s, log) /\ s \in State /\ ckpt' = s
        /\ UNCHANGED <<kind, log, evidence, decision, executed, crashes>>
    BY RevisedIsGood DEF IInv, GoodProcess, GoodState, ReviewSave
  <1>2. /\ crashes \in Nat /\ DOMAIN evidence \subseteq Nat
        /\ \A i \in DOMAIN evidence : evidence[i] \in Manifest
    BY DEF IInv, TypeOK
  <1>3. CASE Exit(p)
    BY <1>1, <1>2, <1>3, ExitStep
  <1>4. CASE ~Exit(p)
    <2>1. PICK live \in LiveModes :
            proc' = [proc EXCEPT ![p] = [Idle EXCEPT !.pc = "verify",
                       !.st = s, !.live = live]]
      BY <1>4 DEF ReviewSave
    <2>. HIDE DEF s
    <2>. DEFINE r == [Idle EXCEPT !.pc = "verify", !.st = s, !.live = live]
    <2>2. Idle \in Process /\ live \in BOOLEAN /\ "verify" \in PCs
      BY IdleIsGood, CampaignAssumption DEF GoodProcess, PCs, RunPCs
    <2>3. r \in Process /\ r.pc = "verify" /\ r.st = s
      BY <1>1, <2>2 DEF Process
    <2>. HIDE DEF r
    <2>4. GoodProcess(r, log)
      BY <1>1, <2>3 DEF GoodProcess
    <2>5. proc' = [proc EXCEPT ![p] = r]
      BY <2>1 DEF r
    <2>. QED
      BY <1>1, <1>2, <2>3, <2>4, <2>5, SilentStep
  <1>. QED
    BY <1>3, <1>4

\* An operator stop clears the objective in hand and stops it.
LEMMA OperatorEventStep == ASSUME IInv, NEW p \in Procs, OperatorEvent(p) PROVE IInv'
  <1>. DEFINE old == proc[p].st
              o == old.current
              pending == IF o = NoObjective THEN old.pending ELSE old.pending \ {o}
              stopped == IF o = NoObjective THEN old.stopped
                         ELSE old.stopped \union {o}
              s == [old EXCEPT !.operatorStop = TRUE, !.review = "none",
                      !.current = NoObjective, !.status = "stopped_by_operator",
                      !.pending = pending, !.stopped = stopped]
  <1>1. GoodState(old, log) /\ old \in State
    BY DEF IInv, GoodProcess, GoodState
  <1>2. pending \in SUBSET Objectives /\ stopped \in SUBSET Objectives
    BY <1>1 DEF State
  <1>3. Emit(s, "operator_stop", NoObjective, 0, "stopped_by_operator")
        /\ Goto(p, "operator_save", Noted(s))
        /\ UNCHANGED <<kind, ckpt, evidence, decision, executed, crashes>>
    BY <1>1 DEF OperatorEvent, State
  <1>4. /\ old.completed \intersect pending = {}
        /\ old.completed \intersect stopped = {}
        /\ pending \intersect stopped = {}
        /\ old.completed \union pending \union stopped = Objectives
    BY <1>1 DEF GoodState, Disjoint, Dispositions
  <1>. HIDE DEF pending, stopped
  <1>5. /\ s \in State /\ s.completed = old.completed /\ s.pending = pending
        /\ s.stopped = stopped /\ s.reviewed = old.reviewed
        /\ s.current = NoObjective /\ s.review = "none"
        /\ s.status = "stopped_by_operator"
    BY <1>1, <1>2 DEF State
  <1>. HIDE DEF s
  <1>6. GoodState(s, log)
    <2>1. Disjoint(s) /\ Dispositions(s) = Objectives
      BY <1>4, <1>5 DEF Disjoint, Dispositions
    <2>. QED
      BY <1>1, <1>5, <2>1 DEF GoodState
  <1>7. "operator_stop" \in EventTypes \ {"objective_result"}
    BY DEF EventTypes
  <1>8. GoodState(Noted(s), log')
    BY <1>3, <1>5, <1>6, <1>7, NotedAfterEmit
  <1>. QED
    BY <1>3, <1>5, <1>7, <1>8, GoOnLogging DEF SavePCs

\* The operator's decision file holds one of the three verdicts.
LEMMA WriteDecisionStep ==
  ASSUME IInv, NEW verdict \in ReviewVerdicts, WriteDecision(verdict)
  PROVE  IInv'
  <1>1. decision' = [digest |-> ckpt, verdict |-> verdict]
        /\ UNCHANGED <<kind, ckpt, log, evidence, proc, executed, crashes>>
    BY DEF WriteDecision
  <1>2. decision' \in [digest: State, verdict: ReviewVerdicts \union {"none"}]
        /\ decision'.verdict \in ReviewVerdicts
    BY <1>1 DEF IInv, GoodState
  <1>3. TypeOK'
    BY <1>1, <1>2 DEF IInv, TypeOK
  <1>4. GoodState(ckpt, log)' /\ \A p \in Procs : GoodProcess(proc[p], log)'
    BY <1>1 DEF IInv, GoodProcess, GoodState, Cleared
  <1>5. GoodLog' /\ GoodRuns'
    BY <1>1 DEF IInv, GoodLog, GoodRuns, ResultLines, ApprovedBefore
  <1>6. GoodDecision'
    BY <1>1, <1>2 DEF GoodDecision
  <1>. QED
    BY <1>3, <1>4, <1>5, <1>6 DEF IInv

\* A command that is killed leaves the files as they were.
LEMMA CrashStep == ASSUME IInv, NEW p \in Procs, Crash(p) PROVE IInv'
  BY ExitStep DEF Crash, IInv, TypeOK

\* A step that changes nothing.
LEMMA StutterStep == ASSUME IInv, UNCHANGED vars PROVE IInv'
  <1>1. TypeOK' /\ GoodState(ckpt, log)'
    BY DEF vars, IInv, TypeOK, GoodState
  <1>2. \A p \in Procs : GoodProcess(proc[p], log)'
    BY DEF vars, IInv, GoodProcess, GoodState, Cleared
  <1>3. GoodLog' /\ GoodRuns' /\ GoodDecision'
    BY DEF vars, IInv, GoodLog, GoodRuns, GoodDecision, ResultLines, ApprovedBefore
  <1>. QED
    BY <1>1, <1>2, <1>3 DEF IInv

-----------------------------------------------------------------------------
(* The theorems *)

\* Every step of a command in progress.
LEMMA ContinueStep == ASSUME IInv, NEW p \in Procs, Continue(p) PROVE IInv'
  <1>1. CASE \E o \in Objectives : StepObjective(p, o)
    BY <1>1, StepObjectiveStep
  <1>2. CASE \E answer \in {"allowed", "human", "denied"} : EvaluateAndExecute(p, answer)
    BY <1>2, EvaluateStep
  <1>. QED
    BY <1>1, <1>2, VerifyStep, AnnounceStep, SaveRunningStep, WriteEvidenceStep,
       RecordResultStep, PauseEventStep, StepSaveStep, StopEventStep,
       StopSaveStep, EndLoopStep, CompleteCampaignStep, FinalSaveStep,
       ReviewCheckStep, ReviewEventStep, ReviewSaveStep, OperatorEventStep,
       OperatorSaveStep
       DEF Continue

(***************************************************************************)
(* The invariant is inductive: Init establishes it and every action of     *)
(* every command, and every crash, keeps it.                               *)
(***************************************************************************)
THEOREM InductiveInvariant == Spec => []IInv
  <1>1. IInv /\ [Next]_vars => IInv'
    <2>. SUFFICES ASSUME IInv, [Next]_vars PROVE IInv'
      OBVIOUS
    <2>1. ASSUME NEW verdict \in ReviewVerdicts, WriteDecision(verdict) PROVE IInv'
      BY <2>1, WriteDecisionStep
    <2>2. ASSUME NEW p \in Procs,
                 Start(p) \/ ReviewLoad(p) \/ OperatorLoad(p) \/ Continue(p) \/ Crash(p)
          PROVE  IInv'
      BY <2>2, StartStep, LoadStep, ContinueStep, CrashStep
    <2>3. CASE UNCHANGED vars
      BY <2>3, StutterStep
    <2>. QED
      BY <2>1, <2>2, <2>3 DEF Next
  <1>. QED
    BY <1>1, InitEstablishes, PTL DEF Spec

(***************************************************************************)
(* Every file and every process keeps its type.                            *)
(***************************************************************************)
THEOREM TypeCorrectness == Spec => []TypeOK
  BY InductiveInvariant, PTL DEF IInv

(***************************************************************************)
(* No command, however it overlaps others or is killed, loses an objective *)
(* or gives it two dispositions.                                           *)
(***************************************************************************)
THEOREM PartitionIsKept == Spec => []EveryObjectiveHasOneDisposition
  <1>1. IInv => EveryObjectiveHasOneDisposition
    BY DEF IInv, GoodProcess, GoodState, EveryObjectiveHasOneDisposition
  <1>. QED
    BY <1>1, InductiveInvariant, PTL

(***************************************************************************)
(* save_state's validation accepts every state a command has built.        *)
(***************************************************************************)
THEOREM SavesSucceed == Spec => []SavesAreNeverRefused
  <1>1. ASSUME NEW s, GoodState(s, log) PROVE ValidState(s)
    BY <1>1 DEF GoodState, ValidState, State
  <1>2. ASSUME NEW s, GoodState(s, log), s.status \in Runnable
        PROVE  ValidState([s EXCEPT !.status = "running"])
    BY <1>2 DEF GoodState, ValidState, State, Disjoint
  <1>3. IInv => SavesAreNeverRefused
    <2>. SUFFICES ASSUME IInv, NEW p \in Procs
                  PROVE  /\ proc[p].pc \in SavePCs =>
                              ValidState(IF proc[p].pc = "save_running"
                                THEN [proc[p].st EXCEPT !.status = "running"]
                                ELSE proc[p].st)
                         /\ proc[p].pc = "finish" /\ ~AllDone(proc[p].st)
                              => ValidState(proc[p].st)
      BY DEF SavesAreNeverRefused
    <2>1. GoodProcess(proc[p], log)
      BY DEF IInv
    <2>2. GoodState(proc[p].st, log)
      BY <2>1 DEF GoodProcess
    <2>3. proc[p].pc = "save_running" => proc[p].st.status \in Runnable
      BY <2>1 DEF GoodProcess
    <2>. QED
      BY <1>1, <1>2, <2>2, <2>3
  <1>. QED
    BY <1>3, InductiveInvariant, PTL

(***************************************************************************)
(* The human gate: nothing that needs an approval runs without one in the  *)
(* event log, under any interleaving and any number of crashes.            *)
(***************************************************************************)
THEOREM HumanGate == Spec => []ApprovalPrecedesExecution
  <1>1. log \in Seq(LogLine) =>
          \A o : ApprovedIn(log, o) => ApprovedBefore(o, Len(log) + 1)
    BY DEF ApprovedIn, Approves, ApprovedBefore
  <1>2. IInv => ApprovalPrecedesExecution
    BY <1>1 DEF IInv, TypeOK, GoodLog, GoodRuns, ApprovalPrecedesExecution
  <1>. QED
    BY <1>2, InductiveInvariant, PTL

(***************************************************************************)
(* max_iterations bounds the iterations that produce a result, across      *)
(* every invocation, crash and restart of the campaign.                    *)
(***************************************************************************)
THEOREM IterationsAreBounded == Spec => []IterationLimitIsHard
  <1>1. IInv => IterationLimitIsHard
    BY DEF IInv, GoodLog, GoodProcess, IterationLimitIsHard
  <1>. QED
    BY <1>1, InductiveInvariant, PTL

-----------------------------------------------------------------------------
(* Progress *)

\* What is left of a command is a number, positive until it has ended.
LEMMA StepsLeftTyped ==
  ASSUME NEW r \in Process
  PROVE  /\ PassesLeft(r.st) \in 0 .. MaxIterations
         /\ StepsToEnd[r.pc] \in 0 .. 14
         /\ r.pc # "idle" => StepsLeft(r) > 0
         /\ StepsLeft(r) \in 0 .. 6 * MaxIterations + 14
  <1>1. r.pc \in PCs /\ r.st.next \in Nat \ {0} /\ MaxIterations \in Nat \ {0}
    BY LimitsArePositive DEF Process, State
  <1>2. PassesLeft(r.st) \in 0 .. MaxIterations
    BY <1>1 DEF PassesLeft
  <1>3. /\ StepsToEnd[r.pc] \in 0 .. 14
        /\ r.pc # "idle" => StepsToEnd[r.pc] > 0
    BY <1>1 DEF StepsToEnd, PCs, RunPCs
  <1>. QED
    BY <1>1, <1>2, <1>3 DEF StepsLeft

\* A command that ends, or goes on to a later place without taking back an
\* iteration.
LEMMA MovingOnIsProgress ==
  ASSUME NEW r \in Process, NEW t \in Process, r.pc # "idle",
         \/ t.pc = "idle"
         \/ r.st.next <= t.st.next /\ StepsToEnd[t.pc] < StepsToEnd[r.pc]
  PROVE  StepsLeft(t) < StepsLeft(r)
  <1>1. CASE t.pc = "idle"
    BY <1>1, StepsLeftTyped DEF StepsLeft
  <1>2. CASE t.pc # "idle"
    <2>1. r.st.next <= t.st.next /\ StepsToEnd[t.pc] < StepsToEnd[r.pc]
      BY <1>2
    <2>2. r.st.next \in Nat /\ t.st.next \in Nat /\ MaxIterations \in Nat
      BY LimitsArePositive DEF Process, State
    <2>3. PassesLeft(t.st) <= PassesLeft(r.st)
      BY <2>1, <2>2 DEF PassesLeft
    <2>4. /\ PassesLeft(r.st) \in Nat /\ PassesLeft(t.st) \in Nat
          /\ StepsToEnd[r.pc] \in Nat /\ StepsToEnd[t.pc] \in Nat
      BY StepsLeftTyped
    <2>. QED
      BY <1>2, <2>1, <2>3, <2>4 DEF StepsLeft
  <1>. QED
    BY <1>1, <1>2

\* A command that has spent an iteration within the limit.
LEMMA SpendingIsProgress ==
  ASSUME NEW r \in Process, NEW t \in Process,
         r.pc = "result", r.st.next <= MaxIterations,
         t.st.next = r.st.next + 1, t.pc \in {"pause_event", "step_save"}
  PROVE  StepsLeft(t) < StepsLeft(r)
  <1>1. r.st.next \in Nat /\ MaxIterations \in Nat
    BY LimitsArePositive DEF Process, State
  <1>2. PassesLeft(r.st) = PassesLeft(t.st) + 1
    BY <1>1 DEF PassesLeft
  <1>3. StepsToEnd[r.pc] = 5 /\ StepsToEnd[t.pc] \in 9 .. 10
    BY DEF StepsToEnd, PCs, RunPCs
  <1>4. PassesLeft(r.st) \in Nat /\ PassesLeft(t.st) \in Nat
    BY StepsLeftTyped
  <1>. QED
    BY <1>2, <1>3, <1>4 DEF StepsLeft

\* Where each step of a command takes it.
MovesOn(r, t) ==
  /\ r.pc # "idle"
  /\ \/ t.pc = "idle"
     \/ r.st.next <= t.st.next /\ StepsToEnd[t.pc] < StepsToEnd[r.pc]

\* The places that the steps outside the objectives go to.
LEMMA PlainStepsMoveOn ==
  ASSUME IInv, NEW p \in Procs,
         \/ Verify(p) \/ Announce(p) \/ SaveRunning(p) \/ PauseEvent(p)
         \/ StepSave(p) \/ StopSave(p) \/ EndLoop(p) \/ CompleteCampaign(p)
         \/ FinalSave(p) \/ OperatorSave(p) \/ ReviewCheck(p) \/ OperatorEvent(p)
  PROVE  MovesOn(proc[p], proc'[p])
  <1>1. proc[p] \in Process /\ proc \in [Procs -> Process]
    BY DEF IInv, TypeOK
  <1>2. proc[p].st \in State /\ proc[p].st.next \in Nat /\ proc[p].st.rev \in Nat
    BY <1>1 DEF Process, State
  <1>3. \A s \in State : /\ Revised(s).next = s.next
                         /\ Noted(s).next = s.next
    BY DEF State, Revised, Noted
  <1>4. \A pc, s : Goto(p, pc, s) => proc'[p].pc = pc /\ proc'[p].st = s
    BY <1>1 DEF Goto, Process
  <1>5. Exit(p) => proc'[p].pc = "idle"
    BY <1>1 DEF Exit, Idle
  <1>6. CASE Verify(p)
    <2>1. /\ proc[p].pc = "verify"
          /\ \/ proc'[p].pc = "idle"
             \/ proc'[p].pc \in {"announce", "save_running"} /\ proc'[p].st = proc[p].st
      BY <1>4, <1>5, <1>6 DEF Verify
    <2>. QED
      BY <1>2, <2>1 DEF MovesOn, StepsToEnd, PCs, RunPCs
  <1>7. CASE Announce(p)
    <2>1. /\ proc[p].pc = "announce" /\ proc'[p].pc = "save_running"
          /\ proc'[p].st.next = proc[p].st.next
      BY <1>2, <1>3, <1>4, <1>7 DEF Announce
    <2>. QED
      BY <1>2, <2>1 DEF MovesOn, StepsToEnd, PCs, RunPCs
  <1>8. CASE SaveRunning(p)
    <2>. DEFINE s == [proc[p].st EXCEPT !.status = "running"]
    <2>1. s \in State /\ s.next = proc[p].st.next
      BY <1>2 DEF State
    <2>2. proc[p].pc = "save_running" /\ Goto(p, "loop", Revised(s))
      BY <1>8 DEF SaveRunning, Save
    <2>. HIDE DEF s
    <2>3. proc'[p].pc = "loop" /\ proc'[p].st.next = proc[p].st.next
      BY <1>3, <1>4, <2>1, <2>2
    <2>. QED
      BY <1>2, <2>2, <2>3 DEF MovesOn, StepsToEnd, PCs, RunPCs
  <1>9. CASE PauseEvent(p)
    <2>1. /\ proc[p].pc = "pause_event" /\ proc'[p].pc = "step_save"
          /\ proc'[p].st.next = proc[p].st.next
      BY <1>2, <1>3, <1>4, <1>9 DEF PauseEvent
    <2>. QED
      BY <1>2, <2>1 DEF MovesOn, StepsToEnd, PCs, RunPCs
  <1>10. CASE StepSave(p)
    <2>1. /\ proc[p].pc = "step_save" /\ proc'[p].pc \in {"loop", "finish"}
          /\ proc'[p].st.next = proc[p].st.next
      BY <1>2, <1>3, <1>4, <1>10 DEF StepSave, Save
    <2>. QED
      BY <1>2, <2>1 DEF MovesOn, StepsToEnd, PCs, RunPCs
  <1>11. CASE StopSave(p)
    <2>1. /\ proc[p].pc = "stop_save" /\ proc'[p].pc = "finish"
          /\ proc'[p].st.next = proc[p].st.next
      BY <1>2, <1>3, <1>4, <1>11 DEF StopSave, Save
    <2>. QED
      BY <1>2, <2>1 DEF MovesOn, StepsToEnd, PCs, RunPCs
  <1>12. CASE EndLoop(p)
    <2>1. /\ proc[p].pc = "loop" /\ proc'[p].pc = "finish"
          /\ proc'[p].st.next = proc[p].st.next
      BY <1>2, <1>4, <1>12 DEF EndLoop
    <2>. QED
      BY <1>2, <2>1 DEF MovesOn, StepsToEnd, PCs, RunPCs
  <1>13. CASE CompleteCampaign(p)
    <2>. DEFINE s == [proc[p].st EXCEPT !.status = "completed", !.current = NoObjective]
    <2>1. s \in State /\ s.next = proc[p].st.next
      BY <1>2 DEF State
    <2>2. Goto(p, "final_save", Noted(s)) /\ proc[p].pc = "finish"
      BY <1>13 DEF CompleteCampaign
    <2>. HIDE DEF s
    <2>3. proc'[p].pc = "final_save" /\ proc'[p].st.next = proc[p].st.next
      BY <1>3, <1>4, <2>1, <2>2
    <2>. QED
      BY <1>2, <2>2, <2>3 DEF MovesOn, StepsToEnd, PCs, RunPCs
  <1>14. CASE FinalSave(p) \/ OperatorSave(p)
    <2>1. proc[p].pc # "idle" /\ proc'[p].pc = "idle"
      BY <1>5, <1>14 DEF FinalSave, OperatorSave
    <2>. QED
      BY <2>1 DEF MovesOn
  <1>15. CASE ReviewCheck(p)
    <2>1. /\ proc[p].pc = "review_check"
          /\ \/ proc'[p].pc = "idle"
             \/ proc'[p].pc = "review_event" /\ proc'[p].st = proc[p].st
      BY <1>1, <1>5, <1>15 DEF ReviewCheck, Process
    <2>. QED
      BY <1>2, <2>1 DEF MovesOn, StepsToEnd, PCs, RunPCs
  <1>16. CASE OperatorEvent(p)
    <2>1. proc[p].pc = "operator_event" /\ proc'[p].pc = "operator_save"
      BY <1>4, <1>16 DEF OperatorEvent
    <2>. DEFINE old == proc[p].st
                o == old.current
                s == [old EXCEPT !.operatorStop = TRUE, !.review = "none",
                        !.current = NoObjective, !.status = "stopped_by_operator",
                        !.pending = IF o = NoObjective THEN @ ELSE @ \ {o},
                        !.stopped = IF o = NoObjective THEN @ ELSE @ \union {o}]
    <2>3. Goto(p, "operator_save", Noted(s))
      BY <1>16 DEF OperatorEvent
    <2>4. s.next = old.next /\ "next" \in DOMAIN s
      BY <1>2 DEF State
    <2>. HIDE DEF s
    <2>5. Noted(s).next = s.next
      BY <2>4 DEF Noted
    <2>2. proc'[p].st.next = proc[p].st.next
      BY <1>4, <2>3, <2>4, <2>5
    <2>. QED
      BY <1>2, <2>1, <2>2 DEF MovesOn, StepsToEnd, PCs, RunPCs
  <1>. QED
    BY <1>6, <1>7, <1>8, <1>9, <1>10, <1>11, <1>12, <1>13, <1>14, <1>15, <1>16

\* An objective that is stopped, paused or begun, up to its result.
LEMMA ObjectiveStepsMoveOn ==
  ASSUME IInv, NEW p \in Procs,
         \/ \E o \in Objectives : StepObjective(p, o)
         \/ \E answer \in {"allowed", "human", "denied"} : EvaluateAndExecute(p, answer)
         \/ WriteEvidence(p) \/ StopEvent(p)
  PROVE  MovesOn(proc[p], proc'[p])
  <1>1. proc[p] \in Process /\ proc \in [Procs -> Process]
    BY DEF IInv, TypeOK
  <1>2. proc[p].st \in State /\ proc[p].st.next \in Nat
    BY <1>1 DEF Process, State
  <1>3. ASSUME NEW o \in Objectives, StepObjective(p, o) PROVE MovesOn(proc[p], proc'[p])
    <2>1. CASE BeginObjective(p, o)
      <3>1. /\ proc[p].pc = "loop" /\ proc'[p].pc = "gate"
            /\ proc'[p].st.next = proc[p].st.next
        BY <1>1, <1>2, <2>1 DEF BeginObjective, Selected, Revised, Process, State
      <3>. QED
        BY <1>2, <3>1 DEF MovesOn, StepsToEnd, PCs, RunPCs
    <2>2. ASSUME NEW reason, NEW verdict, StopWithManifest(p, o, reason, verdict),
                 proc[p].pc = "loop"
          PROVE  MovesOn(proc[p], proc'[p])
      <3>1. proc'[p].pc = "stop_event" /\ proc'[p].st = proc[p].st
        BY <1>1, <2>2 DEF StopWithManifest, Process
      <3>. QED
        BY <1>2, <2>2, <3>1 DEF MovesOn, StepsToEnd, PCs, RunPCs
    <2>. QED
      BY <1>3, <2>1, <2>2
         DEF StepObjective, FuzzingStop, LockoutPause, BudgetStop, Selected
  <1>4. ASSUME NEW answer, EvaluateAndExecute(p, answer) PROVE MovesOn(proc[p], proc'[p])
    <2>1. proc[p].pc = "gate" /\ proc'[p].pc = "manifest" /\ proc'[p].st = proc[p].st
      BY <1>1, <1>4 DEF EvaluateAndExecute, Process
    <2>. QED
      BY <1>2, <2>1 DEF MovesOn, StepsToEnd, PCs, RunPCs
  <1>5. CASE WriteEvidence(p)
    <2>1. proc[p].pc = "manifest" /\ proc'[p].pc = "result" /\ proc'[p].st = proc[p].st
      BY <1>1, <1>5 DEF WriteEvidence, Goto, Process
    <2>. QED
      BY <1>2, <2>1 DEF MovesOn, StepsToEnd, PCs, RunPCs
  <1>6. CASE StopEvent(p)
    <2>1. /\ proc[p].pc = "stop_event"
          /\ proc'[p].pc \in {"stop_save", "finish"}
      BY <1>1, <1>6 DEF StopEvent, Goto, Process
    <2>2. proc'[p].st.next = proc[p].st.next + 1
      BY <1>1, <1>2, <1>6 DEF StopEvent, Goto, Noted, Paused, Stop, Process, State
    <2>. QED
      BY <1>2, <2>1, <2>2 DEF MovesOn, StepsToEnd, PCs, RunPCs
  <1>. QED
    BY <1>3, <1>4, <1>5, <1>6

\* A review keeps the iteration, whether it ends or goes on to a run.
LEMMA ReviewStepsMoveOn ==
  ASSUME IInv, NEW p \in Procs, ReviewEvent(p) \/ ReviewSave(p)
  PROVE  MovesOn(proc[p], proc'[p])
  <1>1. proc[p] \in Process /\ proc \in [Procs -> Process]
    BY DEF IInv, TypeOK
  <1>2. proc[p].st \in State /\ proc[p].st.next \in Nat
    BY <1>1 DEF Process, State
  <1>3. CASE ReviewEvent(p)
    <2>1. proc[p].pc = "review_event" /\ proc'[p].pc = "review_save"
      BY <1>1, <1>3 DEF ReviewEvent, Goto, Process
    <2>2. proc'[p].st.next = proc[p].st.next
      BY <1>1, <1>2, <1>3 DEF ReviewEvent, Goto, Noted, Complete, Stop, Process, State
    <2>. QED
      BY <1>2, <2>1, <2>2 DEF MovesOn, StepsToEnd, PCs, RunPCs
  <1>4. CASE ReviewSave(p)
    <2>. DEFINE s == Revised(proc[p].st)
                Run(live) == [Idle EXCEPT !.pc = "verify", !.st = s, !.live = live]
    <2>3. /\ proc[p].pc = "review_save"
          /\ \/ Exit(p)
             \/ \E live \in LiveModes : proc' = [proc EXCEPT ![p] = Run(live)]
      BY <1>4 DEF ReviewSave
    <2>4. \A live : Run(live).pc = "verify" /\ Run(live).st = s
      BY DEF Idle
    <2>5. Idle.pc = "idle"
      BY DEF Idle
    <2>. HIDE DEF Run
    <2>1. /\ proc[p].pc = "review_save"
          /\ \/ proc'[p].pc = "idle"
             \/ proc'[p].pc = "verify" /\ proc'[p].st = s
      BY <1>1, <2>3, <2>4, <2>5 DEF Exit
    <2>2. Revised(proc[p].st).next = proc[p].st.next
      BY <1>2 DEF Revised, State
    <2>. QED
      BY <1>2, <2>1, <2>2 DEF MovesOn, StepsToEnd, PCs, RunPCs
  <1>. QED
    BY <1>3, <1>4

\* The objective's result is the step that spends the iteration.
LEMMA ResultIsProgress ==
  ASSUME IInv, IInv', NEW p \in Procs, RecordResult(p)
  PROVE  StepsLeft(proc'[p]) < StepsLeft(proc[p])
  <1>1. /\ proc[p] \in Process /\ proc'[p] \in Process
        /\ proc \in [Procs -> Process]
        /\ GoodProcess(proc[p], log)
    BY DEF IInv, TypeOK
  <1>2. proc[p].st \in State /\ proc[p].st.next \in Nat
    BY <1>1 DEF Process, State
  <1>3. proc[p].pc = "result" /\ proc[p].st.next <= MaxIterations
    BY <1>1 DEF RecordResult, GoodProcess
  <1>4. proc'[p].pc \in {"pause_event", "step_save"}
    BY <1>1 DEF RecordResult, Process
  <1>5. Charged(p) \in State /\ Charged(p).next = proc[p].st.next + 1
    <2>1. Charged(p) \in State
      BY ChargedIsDisposing DEF Disposing, GoodState
    <2>. QED
      BY <1>2, <2>1 DEF Charged, State
  <1>6. proc'[p].st.next = proc[p].st.next + 1
    <2>. DEFINE o == proc[p].obj
                s == Charged(p)
                settled ==
                  CASE proc[p].result = "human" -> Paused(s, o, "pre_execution")
                    [] proc[p].result = "denied" ->
                         [Stop(s, o) EXCEPT !.status = "stopped_by_policy"]
                    [] Outcome(p) = "MANUAL_REVIEW" /\ proc[p].result = "allowed" ->
                         Paused(s, o, "post_execution")
                    [] OTHER -> Complete(s, o)
    <2>1. proc'[p].st = Noted(settled)
      BY <1>1 DEF RecordResult, Process
    <2>2. s \in State /\ s.next = proc[p].st.next + 1
      BY <1>5
    <2>. HIDE DEF s
    <2>3. /\ \A phase : Paused(s, o, phase).next = s.next
          /\ [Stop(s, o) EXCEPT !.status = "stopped_by_policy"].next = s.next
          /\ Complete(s, o).next = s.next
          /\ \A phase : "next" \in DOMAIN Paused(s, o, phase)
          /\ "next" \in DOMAIN [Stop(s, o) EXCEPT !.status = "stopped_by_policy"]
          /\ "next" \in DOMAIN Complete(s, o)
      BY <2>2 DEF Paused, Stop, Complete, State
    <2>4. settled.next = s.next /\ "next" \in DOMAIN settled
      BY <2>3
    <2>. HIDE DEF settled
    <2>5. Noted(settled).next = settled.next
      BY <2>4 DEF Noted
    <2>. QED
      BY <2>1, <2>2, <2>4, <2>5
  <1>. QED
    BY <1>1, <1>3, <1>4, <1>6, SpendingIsProgress

\* Each step is one command's; the others stay where they are.
LEMMA OthersStay ==
  ASSUME IInv, NEW p \in Procs, Continue(p), NEW q \in Procs, q # p
  PROVE  proc'[q] = proc[q]
  <1>1. proc \in [Procs -> Process]
    BY DEF IInv, TypeOK
  <1>2. \A pc, s : Goto(p, pc, s) => proc'[q] = proc[q]
    BY <1>1 DEF Goto
  <1>3. Exit(p) => proc'[q] = proc[q]
    BY <1>1 DEF Exit
  <1>4. CASE \/ Verify(p) \/ Announce(p) \/ WriteEvidence(p) \/ PauseEvent(p)
            \/ StopEvent(p) \/ EndLoop(p) \/ CompleteCampaign(p) \/ ReviewEvent(p)
            \/ OperatorEvent(p)
    BY <1>2, <1>3, <1>4
       DEF Verify, Announce, WriteEvidence, PauseEvent, StopEvent, EndLoop,
           CompleteCampaign, ReviewEvent, OperatorEvent
  <1>5. CASE \/ SaveRunning(p) \/ StepSave(p) \/ StopSave(p) \/ FinalSave(p)
            \/ OperatorSave(p)
    BY <1>2, <1>3, <1>5
       DEF SaveRunning, StepSave, StopSave, FinalSave, OperatorSave, Save
  <1>6. CASE ReviewCheck(p) \/ ReviewSave(p)
    BY <1>1, <1>3, <1>6 DEF ReviewCheck, ReviewSave
  <1>7. CASE RecordResult(p)
    BY <1>1, <1>7 DEF RecordResult
  <1>8. CASE \E o \in Objectives : StepObjective(p, o)
    BY <1>1, <1>8 DEF StepObjective, FuzzingStop, LockoutPause, BudgetStop,
                      BeginObjective, StopWithManifest
  <1>9. CASE \E answer \in {"allowed", "human", "denied"} : EvaluateAndExecute(p, answer)
    BY <1>1, <1>9 DEF EvaluateAndExecute
  <1>. QED
    BY <1>4, <1>5, <1>6, <1>7, <1>8, <1>9 DEF Continue

\* Every step of a command in progress.
LEMMA ContinueIsProgress ==
  ASSUME IInv, IInv', NEW p \in Procs, Continue(p)
  PROVE  StepsLeft(proc'[p]) < StepsLeft(proc[p])
  <1>1. proc[p] \in Process /\ proc'[p] \in Process
    BY DEF IInv, TypeOK
  <1>2. CASE RecordResult(p)
    BY <1>2, ResultIsProgress
  <1>3. CASE ~RecordResult(p)
    <2>1. MovesOn(proc[p], proc'[p])
      BY <1>3, PlainStepsMoveOn, ObjectiveStepsMoveOn, ReviewStepsMoveOn DEF Continue
    <2>. QED
      BY <1>1, <2>1, MovingOnIsProgress DEF MovesOn
  <1>. QED
    BY <1>2, <1>3

(***************************************************************************)
(* A command takes at most 6 * max_iterations + 14 steps, however it       *)
(* overlaps others: each step lowers the number of those it has left.      *)
(***************************************************************************)
THEOREM CommandsComeToAnEnd ==
  Spec => [](\A p \in Procs : StepsLeft(proc[p]) \in 0 .. 6 * MaxIterations + 14)
          /\ EveryStepIsProgress
  <1>1. IInv => \A p \in Procs : StepsLeft(proc[p]) \in 0 .. 6 * MaxIterations + 14
    BY StepsLeftTyped DEF IInv, TypeOK
  <1>2. IInv /\ IInv' /\ [Next]_vars =>
          [\A p \in Procs : proc[p].pc # "idle" /\ proc'[p] # proc[p] =>
             StepsLeft(proc'[p]) < StepsLeft(proc[p])]_proc
    <2>. SUFFICES ASSUME IInv, IInv', Next, NEW p \in Procs,
                         proc[p].pc # "idle", proc'[p] # proc[p]
                  PROVE  StepsLeft(proc'[p]) < StepsLeft(proc[p])
      BY DEF vars
    <2>1. proc \in [Procs -> Process] /\ proc'[p] \in Process
      BY DEF IInv, TypeOK
    <2>2. ASSUME NEW q \in Procs, Start(q) \/ ReviewLoad(q) \/ OperatorLoad(q)
          PROVE  FALSE
      <3>1. proc[q].pc = "idle"
        BY <2>2 DEF Start, StartFresh, LoadForRun, ReviewLoad, OperatorLoad, Launch
      <3>2. proc'[p] = proc[p]
        BY <2>1, <2>2, <3>1
           DEF Start, StartFresh, LoadForRun, ReviewLoad, OperatorLoad, Goto
      <3>. QED
        BY <3>2
    <2>3. ASSUME NEW q \in Procs, Crash(q) PROVE StepsLeft(proc'[p]) < StepsLeft(proc[p])
      <3>1. q = p /\ proc'[p].pc = "idle"
        BY <2>1, <2>3 DEF Crash, Exit, Idle
      <3>. QED
        BY <2>1, <3>1, MovingOnIsProgress
    <2>4. ASSUME NEW q \in Procs, Continue(q) PROVE StepsLeft(proc'[p]) < StepsLeft(proc[p])
      <3>1. q = p
        BY <2>4, OthersStay
      <3>. QED
        BY <2>4, <3>1, ContinueIsProgress
    <2>5. ~ \E verdict \in ReviewVerdicts : WriteDecision(verdict)
      BY DEF WriteDecision
    <2>. QED
      BY <2>2, <2>3, <2>4, <2>5 DEF Next
  <1>. QED
    BY <1>1, <1>2, InductiveInvariant, PTL DEF Spec, EveryStepIsProgress

=============================================================================
