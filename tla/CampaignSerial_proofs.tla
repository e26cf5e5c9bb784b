------------------------ MODULE CampaignSerial_proofs ------------------------
(***************************************************************************)
(* The campaign engine when operators never overlap two commands: any      *)
(* campaign definition and any number of crashes.                          *)
(*                                                                         *)
(* One command at a time means that the state it holds is a step ahead of  *)
(* the checkpoint at most.  The invariant says which step (LeadsTo), that  *)
(* a state which matches the event log accounts for all of it (UpToDate),  *)
(* and that what a state calls completed is backed by the log and the      *)
(* evidence (WellFounded).  A command that is killed leaves a checkpoint   *)
(* that may be behind the log; such a checkpoint never matches again,      *)
(* which is why no later command builds on it.                             *)
(***************************************************************************)
EXTENDS CampaignLoop_proofs

-----------------------------------------------------------------------------
(* The event log and the evidence *)

Matches(s, lines) ==
  /\ \A i \in 1 .. Len(lines) : lines[i].seq = i /\ lines[i].prev = i - 1
  /\ s.lastEvent = Len(lines)
  /\ s.events = Len(lines)

Evidential(line) == line.type \in {"objective_result", "campaign_stop", "campaign_paused"}

IsResult(line, o) == line.type = "objective_result" /\ line.obj = o

\* Line i is a result of o, and its evidence directory has the manifest.
Reported(i, o, lines, ev) ==
  /\ i \in 1 .. Len(lines)
  /\ IsResult(lines[i], o)
  /\ lines[i].iter \in DOMAIN ev
  /\ ev[lines[i].iter] = [obj |-> o, verdict |-> lines[i].outcome]

Earned(o, lines, ev) ==
  \E i \in 1 .. Len(lines) :
    /\ Reported(i, o, lines, ev)
    /\ \/ lines[i].outcome = "INCONCLUSIVE"
       \/ /\ lines[i].outcome = "MANUAL_REVIEW"
          /\ \E j \in i + 1 .. Len(lines) : Approves(lines[j], o)

\* What every copy of the state says of the past is true.
WellFounded(s, lines, ev) ==
  /\ s.lastEvent <= Len(lines)
  /\ \A o \in s.completed : Earned(o, lines, ev)
  /\ s.review = "post_execution" =>
       \E i \in 1 .. Len(lines) : /\ Reported(i, s.current, lines, ev)
                                  /\ lines[i].outcome = "MANUAL_REVIEW"
  /\ s.current # NoObjective => IsNext(s, s.current)
  /\ s.status \in Stopped => s.current = NoObjective

\* A result of o that lets the campaign come back to o.
Unsettled(s, o, line) ==
  \/ s.review = "post_execution" /\ s.current = o
  \/ kind[o] = "needs_approval" /\ line.outcome = "MANUAL_REVIEW"

\* Everything in the log is known to s.
Accounts(s, lines) ==
  \A i \in 1 .. Len(lines) :
    /\ Evidential(lines[i]) => lines[i].iter < s.next
    /\ \A o \in s.pending : IsResult(lines[i], o) => Unsettled(s, o, lines[i])

UpToDate(s, lines) == Matches(s, lines) => Accounts(s, lines)

\* Every line that names an evidence directory finds its objective there, and
\* no two results have the same directory.
GoodLines(lines, ev) ==
  /\ \A i \in 1 .. Len(lines) : Evidential(lines[i]) =>
       /\ lines[i].iter \in DOMAIN ev
       /\ ev[lines[i].iter].obj = lines[i].obj
  /\ \A i, j \in 1 .. Len(lines) :
       /\ lines[i].type = "objective_result" /\ lines[j].type = "objective_result"
       /\ lines[i].iter = lines[j].iter
       => i = j

-----------------------------------------------------------------------------
(* A command and its checkpoint *)

Same(c, s) == /\ s.completed = c.completed
              /\ s.pending = c.pending
              /\ s.stopped = c.stopped

Completes(c, s, o) == /\ s.completed = c.completed \union {o}
                      /\ s.pending = c.pending \ {o}
                      /\ s.stopped = c.stopped

Stops(c, s, o) == /\ s.completed = c.completed
                  /\ s.pending = c.pending \ {o}
                  /\ s.stopped = c.stopped \union {o}

\* A step of the campaign from the checkpoint c.
Advances(c, s) ==
  /\ c.status = "running"
  /\ \E o \in c.pending :
       /\ IsNext(c, o)
       /\ \/ Completes(c, s, o) /\ s.status = "running"
          \/ Stops(c, s, o) /\ s.status \in Stopped
          \/ Same(c, s) /\ s.status = "paused_for_human_review" /\ s.current = o

Ends(c, s) == c.status = "running" /\ Same(c, s) /\ s.status = "completed"

Answers(c, s) ==
  /\ c.status = "paused_for_human_review"
  /\ \/ Completes(c, s, c.current) /\ s.status = "ready_to_resume"
     \/ Same(c, s) /\ s.status = "ready_to_resume"
     \/ Stops(c, s, c.current) /\ s.status \in Stopped

OperatorStops(c, s) ==
  /\ c.status \notin {"absent", "completed", "stopped_by_operator"}
  /\ s.status = "stopped_by_operator"
  /\ IF c.current = NoObjective THEN Same(c, s) ELSE Stops(c, s, c.current)

Repeats(c, s) ==
  /\ Same(c, s)
  /\ s.status = c.status
  /\ s.status # "absent"
  /\ s.current = c.current

\* What saving s over c may mean.
LeadsTo(c, s) ==
  Repeats(c, s) \/ Advances(c, s) \/ Ends(c, s) \/ Answers(c, s) \/ OperatorStops(c, s)

-----------------------------------------------------------------------------
(* The invariant *)

\* The command holds what is on disk.
HoldingPCs == {"verify", "loop", "gate", "manifest", "result", "stop_event",
               "review_check", "review_event", "operator_event"}

\* The command has checked the event log, or written it.
VerifiedPCs == {"announce", "save_running", "loop", "gate", "manifest", "result",
                "pause_event", "step_save", "stop_event", "stop_save", "finish",
                "final_save", "review_event", "review_save"}

OutcomeOf(r) ==
  CASE r.result = "human" -> "MANUAL_REVIEW"
    [] r.result = "allowed" /\ r.live -> "MANUAL_REVIEW"
    [] r.result = "allowed" /\ ~r.live -> "INCONCLUSIVE"
    [] OTHER -> "STOPPED_BY_POLICY"

\* How far the command is ahead of the checkpoint c.
Ahead(r, c) ==
  /\ r.st.rev = c.rev
  /\ r.pc \in HoldingPCs => r.st = c
  /\ r.pc \in {"announce", "save_running"} =>
       Same(c, r.st) /\ c.status \in Runnable \union {"absent"}
  /\ r.pc \in {"verify", "loop", "gate", "manifest", "result", "stop_event"} =>
       r.st.status \in Runnable
  /\ r.pc \in {"pause_event", "step_save", "stop_save"} => Advances(c, r.st)
  /\ r.pc = "finish" => \/ r.st = c /\ c.status \notin {"absent", "completed"}
                        \/ Advances(c, r.st) /\ r.st.status \in Stopped
  /\ r.pc = "final_save" => Ends(c, r.st)
  /\ r.pc = "review_save" => Answers(c, r.st)
  /\ r.pc = "operator_event" =>
       c.status \notin {"absent", "completed", "stopped_by_operator"}
  /\ r.pc = "operator_save" => OperatorStops(c, r.st)

\* The objective in hand, and the manifest written for it.
InHand(r, ev) ==
  /\ r.pc \in {"gate", "manifest", "result", "stop_event"} => IsNext(r.st, r.obj)
  /\ r.pc \in {"manifest", "result"} =>
       /\ r.result \in {"allowed", "human", "denied"}
       /\ r.result = "human" => kind[r.obj] = "needs_approval"
  /\ r.pc = "result" =>
       /\ r.st.next \in DOMAIN ev
       /\ ev[r.st.next] = [obj |-> r.obj, verdict |-> OutcomeOf(r)]
  /\ r.pc = "stop_event" =>
       r.st.next \in DOMAIN ev /\ ev[r.st.next].obj = r.obj
  /\ r.pc = "pause_event" =>
       r.st.next - 1 \in DOMAIN ev /\ ev[r.st.next - 1].obj = r.st.current

\* The answer that a review is about to log.
Answering(r, c, d) ==
  r.pc = "review_event" => d.digest = c /\ r.result = d.verdict

\* A command in progress, with the files c, d, lines and ev and n crashes so far.
SerialCommand(r, c, d, lines, ev, n) ==
  /\ WellFounded(r.st, lines, ev)
  /\ UpToDate(r.st, lines)
  /\ r.pc \in VerifiedPCs \/ n = 0 => Matches(r.st, lines)
  /\ r.pc # "announce" => lines # << >>
  /\ Ahead(r, c)
  /\ InHand(r, ev)
  /\ Answering(r, c, d)

SerialFiles(c, lines, ev) ==
  /\ WellFounded(c, lines, ev)
  /\ UpToDate(c, lines)
  /\ c.status = "absent" => c = NoFile
  /\ c.status # "absent" => lines # << >>
  /\ GoodLines(lines, ev)

SInv ==
  /\ \A p, q \in Procs : proc[p].pc # "idle" /\ proc[q].pc # "idle" => p = q
  /\ \A p \in Procs : proc[p].pc # "idle" =>
       SerialCommand(proc[p], ckpt, decision, log, evidence, crashes)
  /\ SerialFiles(ckpt, log, evidence)
  /\ crashes = 0 /\ (\A p \in Procs : proc[p].pc = "idle") => Matches(ckpt, log)

-----------------------------------------------------------------------------
(* The log grows and manifests are written *)

USE DEF Statuses, Runnable, Halted, Stopped, Phases

\* What appending a line does to the event log.
LEMMA Appended ==
  ASSUME NEW lines \in Seq(LogLine), NEW line \in LogLine
  PROVE  /\ Append(lines, line) \in Seq(LogLine)
         /\ Len(lines) \in Nat
         /\ Len(Append(lines, line)) = Len(lines) + 1
         /\ \A i \in 1 .. Len(lines) : Append(lines, line)[i] = lines[i]
         /\ Append(lines, line)[Len(lines) + 1] = line
         /\ Append(lines, line) # << >>
  OBVIOUS

\* A result and its manifest stay on record as the log grows.
LEMMA ReportedStays ==
  ASSUME NEW lines \in Seq(LogLine), NEW line \in LogLine, NEW o, NEW ev,
         NEW i, Reported(i, o, lines, ev)
  PROVE  /\ Reported(i, o, Append(lines, line), ev)
         /\ Append(lines, line)[i] = lines[i]
  BY Appended DEF Reported

\* What was earned stays earned as the log grows.
LEMMA EarnedStays ==
  ASSUME NEW lines \in Seq(LogLine), NEW line \in LogLine, NEW o, NEW ev,
         Earned(o, lines, ev)
  PROVE  Earned(o, Append(lines, line), ev)
  <1>. DEFINE more == Append(lines, line)
  <1>1. PICK i \in 1 .. Len(lines) :
          /\ Reported(i, o, lines, ev)
          /\ \/ lines[i].outcome = "INCONCLUSIVE"
             \/ /\ lines[i].outcome = "MANUAL_REVIEW"
                /\ \E j \in i + 1 .. Len(lines) : Approves(lines[j], o)
    BY DEF Earned
  <1>2. Reported(i, o, more, ev) /\ more[i] = lines[i]
    BY <1>1, ReportedStays
  <1>3. /\ Len(lines) \in Nat /\ Len(more) = Len(lines) + 1
        /\ \A j \in 1 .. Len(lines) : more[j] = lines[j]
    BY Appended
  <1>. HIDE DEF more
  <1>4. ASSUME NEW j \in i + 1 .. Len(lines), Approves(lines[j], o)
        PROVE  j \in i + 1 .. Len(more) /\ Approves(more[j], o)
    BY <1>3, <1>4
  <1>5. Earned(o, more, ev)
    BY <1>1, <1>2, <1>3, <1>4 DEF Earned
  <1>. QED
    BY <1>5 DEF more

\* A copy of the state stays well founded as the log grows.
LEMMA WellFoundedStays ==
  ASSUME NEW lines \in Seq(LogLine), NEW line \in LogLine, NEW ev,
         NEW s \in State, WellFounded(s, lines, ev)
  PROVE  WellFounded(s, Append(lines, line), ev)
  <1>. DEFINE more == Append(lines, line)
  <1>1. /\ Len(lines) \in Nat /\ Len(more) = Len(lines) + 1
        /\ \A j \in 1 .. Len(lines) : more[j] = lines[j]
    BY Appended
  <1>2. \A o \in s.completed : Earned(o, more, ev)
    BY EarnedStays DEF WellFounded
  <1>3. ASSUME s.review = "post_execution"
        PROVE  \E i \in 1 .. Len(more) : /\ Reported(i, s.current, more, ev)
                                         /\ more[i].outcome = "MANUAL_REVIEW"
    <2>1. PICK i \in 1 .. Len(lines) : /\ Reported(i, s.current, lines, ev)
                                       /\ lines[i].outcome = "MANUAL_REVIEW"
      BY <1>3 DEF WellFounded
    <2>2. Reported(i, s.current, more, ev) /\ more[i] = lines[i]
      BY <2>1, ReportedStays
    <2>. HIDE DEF more
    <2>. QED
      BY <1>1, <2>1, <2>2
  <1>4. s.lastEvent \in Nat
    BY DEF State
  <1>. HIDE DEF more
  <1>5. s.lastEvent <= Len(more)
    BY <1>1, <1>4 DEF WellFounded
  <1>6. WellFounded(s, more, ev)
    BY <1>2, <1>3, <1>5 DEF WellFounded
  <1>. QED
    BY <1>6 DEF more

\* A copy of the state that does not know of the last line never matches.
LEMMA StaleAfterLine ==
  ASSUME NEW lines \in Seq(LogLine), NEW line \in LogLine,
         NEW s, s.lastEvent \in Nat, s.lastEvent <= Len(lines)
  PROVE  UpToDate(s, Append(lines, line))
  <1>1. s.lastEvent # Len(Append(lines, line))
    BY Appended
  <1>. QED
    BY <1>1 DEF UpToDate, Matches

\* A manifest for an iteration that no line names disturbs nothing.
LEMMA NewManifest ==
  ASSUME NEW lines, NEW ev, NEW n, NEW m, NEW s,
         WellFounded(s, lines, ev), GoodLines(lines, ev),
         \A i \in 1 .. Len(lines) : Evidential(lines[i]) => lines[i].iter # n
  PROVE  WellFounded(s, lines, Put(ev, n, m)) /\ GoodLines(lines, Put(ev, n, m))
  <1>. DEFINE more == Put(ev, n, m)
  <1>1. /\ DOMAIN more = DOMAIN ev \union {n}
        /\ \A k \in DOMAIN ev \ {n} : more[k] = ev[k]
    BY DEF Put
  <1>. HIDE DEF more
  <1>2. \A i, o : Reported(i, o, lines, ev) => Reported(i, o, lines, more)
    BY <1>1 DEF Reported, IsResult, Evidential
  <1>3. \A o : Earned(o, lines, ev) => Earned(o, lines, more)
    BY <1>2 DEF Earned
  <1>4. WellFounded(s, lines, more)
    BY <1>2, <1>3 DEF WellFounded
  <1>5. GoodLines(lines, more)
    BY <1>1 DEF GoodLines, Evidential
  <1>. QED
    BY <1>4, <1>5 DEF more

\* What the manifest says that was just written.
LEMMA ManifestIsThere ==
  ASSUME NEW ev, NEW n, NEW m
  PROVE  n \in DOMAIN Put(ev, n, m) /\ Put(ev, n, m)[n] = m
  BY DEF Put

\* What saving does to a state.
LEMMA RevisedFields ==
  ASSUME NEW s \in State
  PROVE  /\ Revised(s) \in State
         /\ Revised(s).status = s.status /\ Revised(s).next = s.next
         /\ Revised(s).current = s.current /\ Revised(s).review = s.review
         /\ Revised(s).completed = s.completed /\ Revised(s).pending = s.pending
         /\ Revised(s).stopped = s.stopped /\ Revised(s).events = s.events
         /\ Revised(s).lastEvent = s.lastEvent /\ Revised(s).rev = s.rev + 1
  BY DEF Revised, State

\* What noting an event does to a state.
LEMMA NotedFields ==
  ASSUME log \in Seq(LogLine), NEW s \in State
  PROVE  /\ Noted(s) \in State
         /\ Noted(s).status = s.status /\ Noted(s).next = s.next
         /\ Noted(s).current = s.current /\ Noted(s).review = s.review
         /\ Noted(s).completed = s.completed /\ Noted(s).pending = s.pending
         /\ Noted(s).stopped = s.stopped /\ Noted(s).events = s.events + 1
         /\ Noted(s).lastEvent = Len(log) + 1 /\ Noted(s).rev = s.rev
  <1>1. Len(log) + 1 \in Nat /\ s.events + 1 \in Nat
    BY DEF State
  <1>. QED
    BY <1>1, Zenon DEF Noted, State

\* A state that was up to date before its command logged an event is after it.
LEMMA MatchesGrow ==
  ASSUME log \in Seq(LogLine), NEW line \in LogLine,
         NEW s \in State, NEW t \in State, t.events = s.events,
         line.seq = s.events + 1, line.prev = s.lastEvent
  PROVE  Matches(Noted(t), Append(log, line)) <=> Matches(s, log)
  <1>. DEFINE more == Append(log, line)
  <1>1. /\ Len(log) \in Nat /\ Len(more) = Len(log) + 1
        /\ \A j \in 1 .. Len(log) : more[j] = log[j]
        /\ more[Len(log) + 1] = line
    BY Appended
  <1>2. /\ Noted(t).events = t.events + 1
        /\ Noted(t).lastEvent = Len(log) + 1
        /\ s.events \in Nat /\ s.lastEvent \in Nat
    BY NotedFields DEF State
  <1>. HIDE DEF more
  <1>3. Matches(Noted(t), more) => Matches(s, log)
    <2>. SUFFICES ASSUME Matches(Noted(t), more) PROVE Matches(s, log)
      OBVIOUS
    <2>1. \A i \in 1 .. Len(log) + 1 : more[i].seq = i /\ more[i].prev = i - 1
      BY <1>1 DEF Matches
    <2>2. line.seq = Len(log) + 1 /\ line.prev = Len(log)
      BY <1>1, <2>1
    <2>3. \A i \in 1 .. Len(log) : log[i].seq = i /\ log[i].prev = i - 1
      BY <1>1, <2>1
    <2>. QED
      BY <1>1, <1>2, <2>2, <2>3 DEF Matches
  <1>4. Matches(s, log) => Matches(Noted(t), more)
    BY <1>1, <1>2 DEF Matches
  <1>. QED
    BY <1>3, <1>4 DEF more

\* A command that appends a line still accounts for all of the event log.
LEMMA AccountsGrow ==
  ASSUME NEW lines \in Seq(LogLine), NEW line \in LogLine,
         NEW s \in State, NEW t \in State, Accounts(s, lines),
         s.next <= t.next, t.pending \subseteq s.pending,
         \A o \in t.pending : s.review = "post_execution" /\ s.current = o
           => t.review = "post_execution" /\ t.current = o,
         Evidential(line) => line.iter < t.next,
         \A o \in t.pending : IsResult(line, o) => Unsettled(t, o, line)
  PROVE  Accounts(t, Append(lines, line))
  <1>. DEFINE more == Append(lines, line)
  <1>1. /\ Len(lines) \in Nat /\ Len(more) = Len(lines) + 1
        /\ \A j \in 1 .. Len(lines) : more[j] = lines[j] /\ lines[j] \in LogLine
        /\ more[Len(lines) + 1] = line
    BY Appended
  <1>. HIDE DEF more
  <1>2. s.next \in Nat /\ t.next \in Nat
    BY DEF State
  <1>. SUFFICES ASSUME NEW i \in 1 .. Len(lines) + 1
                PROVE  /\ Evidential(more[i]) => more[i].iter < t.next
                       /\ \A o \in t.pending :
                            IsResult(more[i], o) => Unsettled(t, o, more[i])
    BY <1>1 DEF Accounts, more
  <1>3. CASE i = Len(lines) + 1
    BY <1>1, <1>3
  <1>4. CASE i \in 1 .. Len(lines)
    <2>1. lines[i].iter \in Nat /\ more[i] = lines[i]
      BY <1>1, <1>4 DEF LogLine
    <2>2. Evidential(lines[i]) => lines[i].iter < s.next
      BY <1>4 DEF Accounts
    <2>3. \A o \in s.pending : IsResult(lines[i], o) => Unsettled(s, o, lines[i])
      BY <1>4 DEF Accounts
    <2>. QED
      BY <1>2, <2>1, <2>2, <2>3 DEF Unsettled
  <1>. QED
    BY <1>1, <1>3, <1>4

\* Only these fields decide whether a state accounts for the event log.
LEMMA AccountsByFields ==
  ASSUME NEW lines, NEW s, NEW t, Accounts(s, lines), t.next = s.next,
         t.pending = s.pending, s.review = "none"
  PROVE  Accounts(t, lines)
  BY DEF Accounts, Unsettled

\* A line that names a manifest of its objective, and repeats no result.
LEMMA GoodLinesGrow ==
  ASSUME NEW lines \in Seq(LogLine), NEW line \in LogLine, NEW ev,
         GoodLines(lines, ev),
         Evidential(line) => line.iter \in DOMAIN ev /\ ev[line.iter].obj = line.obj,
         line.type = "objective_result" =>
           \A i \in 1 .. Len(lines) : Evidential(lines[i]) => lines[i].iter < line.iter
  PROVE  GoodLines(Append(lines, line), ev)
  <1>. DEFINE more == Append(lines, line)
  <1>1. /\ Len(lines) \in Nat /\ Len(more) = Len(lines) + 1
        /\ \A j \in 1 .. Len(lines) : more[j] = lines[j] /\ lines[j] \in LogLine
        /\ more[Len(lines) + 1] = line
    BY Appended
  <1>. HIDE DEF more
  <1>2. \A i \in 1 .. Len(more) : Evidential(more[i]) =>
          more[i].iter \in DOMAIN ev /\ ev[more[i].iter].obj = more[i].obj
    BY <1>1 DEF GoodLines
  <1>3. line.type = "objective_result" =>
          \A i \in 1 .. Len(lines) :
            lines[i].type = "objective_result" => lines[i].iter # line.iter
    <2>. SUFFICES ASSUME line.type = "objective_result", NEW i \in 1 .. Len(lines),
                         lines[i].type = "objective_result"
                  PROVE  lines[i].iter # line.iter
      OBVIOUS
    <2>1. Evidential(lines[i])
      BY DEF Evidential
    <2>2. lines[i].iter < line.iter
      BY <2>1
    <2>3. lines[i].iter \in Nat /\ line.iter \in Nat
      BY <1>1 DEF LogLine
    <2>. QED
      BY <2>2, <2>3
  <1>4. \A i, j \in 1 .. Len(more) :
          /\ more[i].type = "objective_result" /\ more[j].type = "objective_result"
          /\ more[i].iter = more[j].iter
          => i = j
    BY <1>1, <1>3 DEF GoodLines
  <1>. QED
    BY <1>2, <1>4 DEF GoodLines, more

-----------------------------------------------------------------------------
(* What one step of the only command has to establish *)

\* While one command is in progress, every other process is idle.
LEMMA OthersAreIdle ==
  ASSUME SInv, NEW p \in Procs, proc[p].pc # "idle"
  PROVE  \A q \in Procs \ {p} : proc[q].pc = "idle"
  BY DEF SInv

\* The invariant after a step of p, from what p and the files look like then.
LEMMA CommandStep ==
  ASSUME IInv, UNCHANGED kind,
         NEW p \in Procs, NEW r, proc' = [proc EXCEPT ![p] = r],
         \A q \in Procs \ {p} : proc[q].pc = "idle",
         SerialFiles(ckpt', log', evidence'),
         r.pc = "idle" /\ crashes' = 0 => Matches(ckpt', log'),
         r.pc # "idle" =>
           SerialCommand(r, ckpt', decision', log', evidence', crashes')
  PROVE  SInv'
  <1>1. \A q \in Procs : proc'[q] = IF q = p THEN r ELSE proc[q]
    BY DEF IInv, TypeOK
  <1>2. SerialFiles(ckpt, log, evidence)'
    BY DEF SerialFiles, UpToDate, Accounts, Unsettled
  <1>3. ASSUME NEW q \in Procs, proc'[q].pc # "idle"
        PROVE  SerialCommand(proc[q], ckpt, decision, log, evidence, crashes)'
    <2>1. q = p /\ proc'[q] = r
      BY <1>1, <1>3
    <2>2. SerialCommand(r, ckpt', decision', log', evidence', crashes')
      BY <1>3, <2>1
    <2>. QED
      BY <2>1, <2>2 DEF SerialCommand, UpToDate, Accounts, Unsettled, InHand
  <1>4. \A q1, q2 \in Procs : proc'[q1].pc # "idle" /\ proc'[q2].pc # "idle" => q1 = q2
    BY <1>1
  <1>5. crashes' = 0 /\ (\A q \in Procs : proc'[q].pc = "idle") => Matches(ckpt', log')
    BY <1>1
  <1>. QED
    BY <1>2, <1>3, <1>4, <1>5 DEF SInv

\* A step of a command that leaves the files alone.
LEMMA MemoryStep ==
  ASSUME IInv, SInv, UNCHANGED <<kind, ckpt, log, evidence, decision, crashes>>,
         NEW p \in Procs, NEW r, proc' = [proc EXCEPT ![p] = r],
         \A q \in Procs \ {p} : proc[q].pc = "idle",
         r.pc # "idle",
         SerialCommand(r, ckpt, decision, log, evidence, crashes)
  PROVE  SInv'
  <1>1. SerialFiles(ckpt', log', evidence')
    BY DEF SInv
  <1>2. SerialCommand(r, ckpt', decision', log', evidence', crashes')
    OBVIOUS
  <1>. QED
    BY <1>1, <1>2, CommandStep

\* A step of a command that saves s and keeps the saved state, or ends.
LEMMA SavingStep ==
  ASSUME IInv, SInv, UNCHANGED <<kind, log, evidence, decision, crashes>>,
         NEW p \in Procs, proc[p].pc # "idle",
         NEW s \in State, ckpt' = Revised(s), s.status # "absent",
         NEW r, proc' = [proc EXCEPT ![p] = r],
         log # << >>, WellFounded(s, log, evidence), UpToDate(s, log),
         crashes = 0 => Matches(s, log),
         r.pc # "idle" =>
           /\ r.st = Revised(s)
           /\ r.pc \in VerifiedPCs => Matches(s, log)
           /\ Ahead(r, Revised(s))
           /\ InHand(r, evidence)
           /\ Answering(r, Revised(s), decision)
  PROVE  SInv'
  <1>. DEFINE c == Revised(s)
  <1>1. /\ c.status = s.status /\ c.next = s.next
        /\ c.current = s.current /\ c.review = s.review
        /\ c.completed = s.completed /\ c.pending = s.pending
        /\ c.events = s.events /\ c.lastEvent = s.lastEvent
    BY RevisedFields
  <1>2. ckpt' = c /\ log' = log /\ evidence' = evidence
    OBVIOUS
  <1>. HIDE DEF c
  <1>3. Matches(s, log) <=> Matches(c, log)
    BY <1>1 DEF Matches
  <1>4. WellFounded(c, log, evidence)
    BY <1>1 DEF WellFounded, IsNext
  <1>5. UpToDate(c, log)
    BY <1>1, <1>3 DEF UpToDate, Accounts, Unsettled
  <1>6. SerialFiles(c, log, evidence)
    BY <1>1, <1>4, <1>5 DEF SInv, SerialFiles
  <1>7. r.pc # "idle" => SerialCommand(r, c, decision, log, evidence, crashes)
    BY <1>3, <1>4, <1>5 DEF SerialCommand, c
  <1>8. \A q \in Procs \ {p} : proc[q].pc = "idle"
    BY OthersAreIdle
  <1>9. crashes = 0 => Matches(c, log)
    BY <1>3
  <1>. QED
    BY <1>2, <1>6, <1>7, <1>8, <1>9, CommandStep

\* A step of a command that logs a line and goes on with the state t.
LEMMA LoggedStep ==
  ASSUME IInv, SInv, UNCHANGED <<kind, ckpt, evidence, decision, crashes>>,
         NEW p \in Procs, proc[p].pc # "idle",
         NEW line \in LogLine, log' = Append(log, line),
         line.seq = proc[p].st.events + 1, line.prev = proc[p].st.lastEvent,
         GoodLines(log', evidence),
         NEW t \in State, t.events = proc[p].st.events, t.rev = proc[p].st.rev,
         WellFounded(Noted(t), log', evidence),
         Matches(proc[p].st, log) => Accounts(t, log'),
         NEW r, proc' = [proc EXCEPT ![p] = r],
         r.pc # "idle", r.st = Noted(t),
         r.pc \in VerifiedPCs => Matches(proc[p].st, log),
         Ahead(r, ckpt), InHand(r, evidence), Answering(r, ckpt, decision)
  PROVE  SInv'
  <1>1. log \in Seq(LogLine) /\ proc[p].st \in State /\ ckpt \in State
    BY DEF IInv, TypeOK, GoodProcess, GoodState
  <1>2. SerialCommand(proc[p], ckpt, decision, log, evidence, crashes)
        /\ SerialFiles(ckpt, log, evidence)
    BY DEF SInv
  <1>3. Matches(Noted(t), log') <=> Matches(proc[p].st, log)
    BY <1>1, MatchesGrow
  <1>4. UpToDate(Noted(t), log')
    <2>1. /\ Noted(t).next = t.next /\ Noted(t).pending = t.pending
          /\ Noted(t).review = t.review /\ Noted(t).current = t.current
      BY <1>1, NotedFields
    <2>. QED
      BY <1>3, <2>1 DEF UpToDate, Accounts, Unsettled
  <1>5. SerialFiles(ckpt, log', evidence)
    <2>1. WellFounded(ckpt, log', evidence)
      BY <1>1, <1>2, WellFoundedStays DEF SerialFiles
    <2>2. ckpt.lastEvent \in Nat /\ ckpt.lastEvent <= Len(log)
      BY <1>1, <1>2 DEF SerialFiles, WellFounded, State
    <2>3. UpToDate(ckpt, log')
      BY <1>1, <2>2, StaleAfterLine
    <2>4. log' # << >>
      BY <1>1, Appended
    <2>. QED
      BY <1>2, <2>1, <2>3, <2>4 DEF SerialFiles
  <1>6. SerialCommand(r, ckpt, decision, log', evidence, crashes)
    <2>1. log' # << >>
      BY <1>1, Appended
    <2>2. r.pc \in VerifiedPCs \/ crashes = 0 => Matches(r.st, log')
      BY <1>2, <1>3 DEF SerialCommand
    <2>. QED
      BY <1>4, <2>1, <2>2 DEF SerialCommand
  <1>7. \A q \in Procs \ {p} : proc[q].pc = "idle"
    BY OthersAreIdle
  <1>. QED
    BY <1>5, <1>6, <1>7, CommandStep

\* A command that ends without touching a file.
LEMMA EndingStep ==
  ASSUME IInv, SInv, UNCHANGED <<kind, ckpt, log, evidence, decision>>,
         crashes' = 0 => Matches(ckpt, log),
         NEW p \in Procs, proc[p].pc # "idle", Exit(p)
  PROVE  SInv'
  <1>1. proc' = [proc EXCEPT ![p] = Idle] /\ Idle.pc = "idle"
    BY DEF Exit, Idle
  <1>2. SerialFiles(ckpt', log', evidence')
    BY DEF SInv
  <1>. QED
    BY <1>1, <1>2, OthersAreIdle, CommandStep

\* What the invariants say of the command that is in progress.
LEMMA InProgress ==
  ASSUME IInv, SInv, NEW p \in Procs, proc[p].pc # "idle"
  PROVE  /\ proc[p] \in Process /\ GoodProcess(proc[p], log)
         /\ GoodState(proc[p].st, log) /\ proc[p].st \in State
         /\ GoodState(ckpt, log) /\ ckpt \in State
         /\ log \in Seq(LogLine) /\ crashes \in Nat
         /\ SerialCommand(proc[p], ckpt, decision, log, evidence, crashes)
         /\ WellFounded(proc[p].st, log, evidence)
         /\ UpToDate(proc[p].st, log)
         /\ proc[p].pc \in VerifiedPCs \/ crashes = 0 =>
              Matches(proc[p].st, log) /\ Accounts(proc[p].st, log)
         /\ proc[p].pc # "announce" => log # << >>
         /\ Ahead(proc[p], ckpt) /\ InHand(proc[p], evidence)
         /\ Answering(proc[p], ckpt, decision)
         /\ SerialFiles(ckpt, log, evidence)
  BY DEF IInv, TypeOK, GoodProcess, GoodState, SInv, SerialCommand, UpToDate

-----------------------------------------------------------------------------
(* The actions, one by one *)

\* Before the first command nothing is recorded.
LEMMA InitSerial == Init => SInv
  <1>. SUFFICES ASSUME Init PROVE SInv
    OBVIOUS
  <1>1. \A p \in Procs : proc[p].pc = "idle"
    BY DEF Init, Idle
  <1>2. ckpt = NoFile /\ log = << >>
    BY DEF Init
  <1>3. Matches(ckpt, log)
    BY <1>2 DEF Matches, NoFile, InitialState
  <1>4. SerialFiles(ckpt, log, evidence)
    <2>1. WellFounded(ckpt, log, evidence)
      BY <1>2 DEF WellFounded, NoFile, InitialState
    <2>2. UpToDate(ckpt, log) /\ GoodLines(log, evidence)
      BY <1>2 DEF UpToDate, Accounts, GoodLines
    <2>. QED
      BY <1>2, <2>1, <2>2 DEF SerialFiles, NoFile, InitialState
  <1>. QED
    BY <1>1, <1>3, <1>4 DEF SInv

\* A command that starts when operators do not overlap commands is alone.
LEMMA LaunchedAlone ==
  ASSUME Exclusive, NEW p \in Procs, Launch(p)
  PROVE  \A q \in Procs : proc[q].pc = "idle"
  BY DEF Launch

\* The first run of a campaign takes up the state every objective starts in.
LEMMA StartFreshSerial ==
  ASSUME Exclusive, IInv, SInv, NEW p \in Procs, StartFresh(p) PROVE SInv'
  <1>. DEFINE s == InitialState("planned")
  <1>1. PICK live \in LiveModes, cap \in StepCaps :
          proc' = [proc EXCEPT ![p] = [Idle EXCEPT !.pc = "announce",
                     !.st = s, !.live = live, !.cap = cap]]
    BY DEF StartFresh
  <1>. DEFINE r == [Idle EXCEPT !.pc = "announce", !.st = s, !.live = live, !.cap = cap]
  <1>2. r.pc = "announce" /\ r.st = s
    BY DEF Idle
  <1>3. /\ log = << >> /\ ckpt = NoFile /\ \A q \in Procs : proc[q].pc = "idle"
        /\ UNCHANGED <<kind, ckpt, log, evidence, decision, crashes>>
    BY LaunchedAlone DEF StartFresh, SInv, SerialFiles
  <1>. HIDE DEF r
  <1>4. WellFounded(s, log, evidence) /\ Matches(s, log) /\ UpToDate(s, log)
    BY <1>3 DEF WellFounded, Matches, UpToDate, Accounts, InitialState
  <1>5. Ahead(r, ckpt)
    BY <1>2, <1>3 DEF Ahead, HoldingPCs, Same, NoFile, InitialState
  <1>6. InHand(r, evidence) /\ Answering(r, ckpt, decision)
    BY <1>2 DEF InHand, Answering
  <1>7. SerialCommand(r, ckpt, decision, log, evidence, crashes)
    BY <1>2, <1>4, <1>5, <1>6 DEF SerialCommand
  <1>. QED
    BY <1>1, <1>2, <1>3, <1>7, MemoryStep DEF r

\* A command that takes up the checkpoint holds what is on disk.
LEMMA TakesUpCheckpoint ==
  ASSUME IInv, SInv, UNCHANGED <<kind, ckpt, log, evidence, decision, crashes>>,
         \A q \in Procs : proc[q].pc = "idle",
         NEW p \in Procs, NEW r, proc' = [proc EXCEPT ![p] = r],
         r.st = ckpt,
         \/ r.pc = "verify" /\ ckpt.status \in Runnable
         \/ r.pc = "review_check" /\ ckpt.status = "paused_for_human_review"
         \/ /\ r.pc = "operator_event"
            /\ ckpt.status \notin {"absent", "completed", "stopped_by_operator"}
  PROVE  SInv'
  <1>1. SerialFiles(ckpt, log, evidence) /\ (crashes = 0 => Matches(ckpt, log))
    BY DEF SInv
  <1>2. r.pc \notin VerifiedPCs /\ r.pc # "announce" /\ r.pc # "idle"
    BY DEF VerifiedPCs
  <1>3. Ahead(r, ckpt)
    BY DEF Ahead
  <1>4. InHand(r, evidence) /\ Answering(r, ckpt, decision)
    BY DEF InHand, Answering
  <1>5. SerialCommand(r, ckpt, decision, log, evidence, crashes)
    BY <1>1, <1>2, <1>3, <1>4 DEF SerialCommand, SerialFiles
  <1>. QED
    BY <1>2, <1>5, MemoryStep

\* The three commands that load the checkpoint.
LEMMA LoadSerial ==
  ASSUME Exclusive, IInv, SInv, NEW p \in Procs,
         LoadForRun(p) \/ ReviewLoad(p) \/ OperatorLoad(p)
  PROVE  SInv'
  <1>1. CASE LoadForRun(p)
    <2>1. PICK live \in LiveModes, cap \in StepCaps :
            proc' = [proc EXCEPT ![p] = [Idle EXCEPT !.pc = "verify",
                       !.st = ckpt, !.live = live, !.cap = cap]]
      BY <1>1 DEF LoadForRun
    <2>. DEFINE r == [Idle EXCEPT !.pc = "verify",
                       !.st = ckpt, !.live = live, !.cap = cap]
    <2>2. r.pc = "verify" /\ r.st = ckpt
      BY DEF Idle
    <2>3. proc' = [proc EXCEPT ![p] = r]
      BY <2>1
    <2>. HIDE DEF r
    <2>. QED
      BY <1>1, <2>2, <2>3, LaunchedAlone, TakesUpCheckpoint DEF LoadForRun
  <1>2. ASSUME NEW pc \in {"review_check", "operator_event"}, Goto(p, pc, ckpt)
        PROVE  /\ proc' = [proc EXCEPT ![p] = MovedTo(proc[p], pc, ckpt)]
               /\ MovedTo(proc[p], pc, ckpt).pc = pc
               /\ MovedTo(proc[p], pc, ckpt).st = ckpt
    <2>1. proc[p] \in Process /\ pc \in PCs /\ ckpt \in State
      BY DEF IInv, TypeOK, PCs
    <2>. QED
      BY <1>2, <2>1, GotoMoves, MovedFields
  <1>3. CASE ReviewLoad(p)
    BY <1>2, <1>3, LaunchedAlone, TakesUpCheckpoint DEF ReviewLoad
  <1>4. CASE OperatorLoad(p)
    BY <1>2, <1>4, LaunchedAlone, TakesUpCheckpoint DEF OperatorLoad
  <1>. QED
    BY <1>1, <1>3, <1>4

\* Goto, for the command in progress.
LEMMA GoesOn ==
  ASSUME IInv, NEW p \in Procs, NEW pc \in PCs, NEW s \in State, Goto(p, pc, s)
  PROVE  \E r \in Process :
           /\ proc' = [proc EXCEPT ![p] = r]
           /\ r.pc = pc /\ r.st = s /\ r.obj = proc[p].obj
           /\ r.result = proc[p].result /\ r.live = proc[p].live
  BY GotoMoves, MovedFields

\* The resume check: a state that matches the log goes on; without a crash
\* none is refused.
LEMMA VerifySerial == ASSUME IInv, SInv, NEW p \in Procs, Verify(p) PROVE SInv'
  <1>. DEFINE s == proc[p].st
              pc == IF s.status = "ready_to_resume" THEN "announce"
                    ELSE "save_running"
  <1>1. /\ proc[p].pc = "verify"
        /\ UNCHANGED <<kind, ckpt, log, evidence, decision, crashes>>
    BY DEF Verify
  <1>2. /\ s = ckpt /\ s.status \in Runnable /\ s \in State /\ log # << >>
        /\ crashes = 0 => Matches(s, log)
        /\ SerialCommand(proc[p], ckpt, decision, log, evidence, crashes)
    BY <1>1, InProgress DEF Ahead, HoldingPCs
  <1>3. EventLogMatches(s) <=> Matches(s, log)
    BY <1>2 DEF EventLogMatches, ChainIntact, Matches
  <1>4. CASE ~EventLogMatches(s)
    BY <1>1, <1>2, <1>3, <1>4, EndingStep DEF Verify
  <1>5. CASE EventLogMatches(s)
    <2>1. Goto(p, pc, s) /\ pc \in {"announce", "save_running"}
      BY <1>2, <1>5 DEF Verify
    <2>2. pc \in PCs
      BY DEF PCs, RunPCs
    <2>. HIDE DEF pc, s
    <2>3. PICK r \in Process : /\ proc' = [proc EXCEPT ![p] = r]
                               /\ r.pc = pc /\ r.st = s
      BY <1>2, <2>1, <2>2, GoesOn
    <2>4. Ahead(r, ckpt)
      BY <1>2, <2>1, <2>3 DEF Ahead, HoldingPCs, Same
    <2>5. InHand(r, evidence) /\ Answering(r, ckpt, decision)
      BY <2>1, <2>3 DEF InHand, Answering
    <2>6. SerialCommand(r, ckpt, decision, log, evidence, crashes)
      BY <1>2, <1>3, <1>5, <2>3, <2>4, <2>5 DEF SerialCommand, s
    <2>. QED
      BY <1>1, <2>1, <2>3, <2>6, OthersAreIdle, MemoryStep
  <1>. QED
    BY <1>4, <1>5

\* What append_campaign_event writes.
LEMMA EventFields ==
  ASSUME NEW s, NEW type, NEW obj, NEW iter, NEW outcome, NEW line,
         line = Event(s, type, obj, iter, outcome)
  PROVE  /\ line.seq = s.events + 1 /\ line.prev = s.lastEvent
         /\ line.type = type /\ line.obj = obj
         /\ line.iter = iter /\ line.outcome = outcome
  BY DEF Event

\* The state that a command holds after it logged an event is well founded
\* when what it adds to the state before is on record.
LEMMA WellFoundedNoted ==
  ASSUME log \in Seq(LogLine), NEW line \in LogLine, log' = Append(log, line),
         NEW ev, NEW s \in State, WellFounded(s, log, ev), NEW t \in State,
         \A o \in t.completed : o \in s.completed \/ Earned(o, log', ev),
         t.review = "post_execution" =>
           \/ s.review = "post_execution" /\ t.current = s.current
           \/ \E i \in 1 .. Len(log') : /\ Reported(i, t.current, log', ev)
                                        /\ log'[i].outcome = "MANUAL_REVIEW",
         t.current # NoObjective => IsNext(t, t.current),
         t.status \in Stopped => t.current = NoObjective
  PROVE  WellFounded(Noted(t), log', ev)
  <1>1. WellFounded(s, log', ev)
    BY WellFoundedStays
  <1>2. /\ Noted(t).status = t.status /\ Noted(t).current = t.current
        /\ Noted(t).review = t.review /\ Noted(t).completed = t.completed
        /\ Noted(t).pending = t.pending /\ Noted(t).lastEvent = Len(log) + 1
    BY NotedFields
  <1>3. Len(log') = Len(log) + 1 /\ Len(log) \in Nat
    BY Appended
  <1>4. \A o \in t.completed : Earned(o, log', ev)
    BY <1>1 DEF WellFounded
  <1>5. t.review = "post_execution" =>
          \E i \in 1 .. Len(log') : /\ Reported(i, t.current, log', ev)
                                    /\ log'[i].outcome = "MANUAL_REVIEW"
    BY <1>1 DEF WellFounded
  <1>. QED
    BY <1>2, <1>3, <1>4, <1>5 DEF WellFounded, IsNext

\* campaign_started and campaign_resumed.
LEMMA AnnounceSerial == ASSUME IInv, SInv, NEW p \in Procs, Announce(p) PROVE SInv'
  <1>. DEFINE s == proc[p].st
              type == IF s.events = 0 THEN "campaign_started" ELSE "campaign_resumed"
              outcome == IF s.events = 0 THEN "planned" ELSE "running"
              line == Event(s, type, NoObjective, 0, outcome)
  <1>1. /\ proc[p].pc = "announce" /\ log' = Append(log, line)
        /\ Goto(p, "save_running", Noted(s))
        /\ UNCHANGED <<kind, ckpt, evidence, decision, crashes>>
    BY DEF Announce, Emit
  <1>2. /\ s \in State /\ log \in Seq(LogLine) /\ ckpt \in State
        /\ WellFounded(s, log, evidence)
        /\ Matches(s, log) /\ Accounts(s, log) /\ GoodLines(log, evidence)
        /\ Same(ckpt, s) /\ ckpt.status \in Runnable \union {"absent"}
        /\ s.rev = ckpt.rev
    BY <1>1, InProgress DEF Ahead, SerialFiles, VerifiedPCs
  <1>3. type \in EventTypes /\ outcome \in Statuses
        /\ type \notin {"objective_result", "campaign_stop", "campaign_paused"}
    BY DEF EventTypes
  <1>4. line \in LogLine
    BY <1>2, <1>3, EventIsLine
  <1>5. line.seq = s.events + 1 /\ line.prev = s.lastEvent /\ line.type = type
    BY EventFields
  <1>. HIDE DEF line, type, outcome, s
  <1>6. ~Evidential(line) /\ line.type # "objective_result"
    BY <1>3, <1>5 DEF Evidential
  <1>7. GoodLines(log', evidence)
    BY <1>1, <1>2, <1>4, <1>6, GoodLinesGrow
  <1>8. Accounts(s, log')
    <2>1. s.next <= s.next
      BY <1>2 DEF State
    <2>. QED
      BY <1>1, <1>2, <1>4, <1>6, <2>1, AccountsGrow DEF IsResult
  <1>9. WellFounded(Noted(s), log', evidence)
    BY <1>1, <1>2, <1>4, WellFoundedNoted DEF WellFounded
  <1>10. PICK r \in Process : /\ proc' = [proc EXCEPT ![p] = r]
                              /\ r.pc = "save_running" /\ r.st = Noted(s)
    <2>1. "save_running" \in PCs /\ Noted(s) \in State
      BY <1>2, NotedFields DEF PCs, RunPCs
    <2>. QED
      BY <1>1, <2>1, GoesOn
  <1>11. Ahead(r, ckpt)
    BY <1>2, <1>10, NotedFields DEF Ahead, HoldingPCs, Same
  <1>12. InHand(r, evidence) /\ Answering(r, ckpt, decision)
    BY <1>10 DEF InHand, Answering
  <1>. QED
    BY <1>1, <1>2, <1>4, <1>5, <1>7, <1>8, <1>9, <1>10, <1>11, <1>12, LoggedStep
       DEF s

\* The save that turns a planned or resumed state into a running one.
LEMMA SaveRunningSerial ==
  ASSUME IInv, SInv, NEW p \in Procs, SaveRunning(p) PROVE SInv'
  <1>. DEFINE old == proc[p].st
              s == [old EXCEPT !.status = "running"]
  <1>1. /\ proc[p].pc = "save_running"
        /\ ckpt' = Revised(s) /\ Goto(p, "loop", Revised(s))
        /\ UNCHANGED <<kind, log, evidence, decision, crashes>>
    BY DEF SaveRunning, Save
  <1>2. /\ old \in State /\ log # << >> /\ WellFounded(old, log, evidence)
        /\ Matches(old, log) /\ UpToDate(old, log)
        /\ old.status \in Runnable /\ GoodState(old, log)
    BY <1>1, InProgress DEF VerifiedPCs, GoodProcess
  <1>3. /\ s \in State /\ s.status = "running" /\ s.next = old.next
        /\ s.current = old.current /\ s.review = old.review
        /\ s.completed = old.completed /\ s.pending = old.pending
        /\ s.events = old.events /\ s.lastEvent = old.lastEvent
    BY <1>2 DEF State
  <1>. HIDE DEF s, old
  <1>4. WellFounded(s, log, evidence)
    BY <1>2, <1>3 DEF WellFounded, IsNext
  <1>5. Matches(s, log) /\ UpToDate(s, log)
    BY <1>2, <1>3 DEF Matches, UpToDate, Accounts, Unsettled
  <1>6. Revised(s) \in State /\ Revised(s).status = "running" /\ "loop" \in PCs
    BY <1>3, RevisedFields DEF PCs, RunPCs
  <1>7. PICK r \in Process : /\ proc' = [proc EXCEPT ![p] = r]
                             /\ r.pc = "loop" /\ r.st = Revised(s)
    BY <1>1, <1>6, GoesOn
  <1>8. Ahead(r, Revised(s))
    BY <1>6, <1>7 DEF Ahead
  <1>9. InHand(r, evidence) /\ Answering(r, Revised(s), decision)
    BY <1>7 DEF InHand, Answering
  <1>. QED
    BY <1>1, <1>2, <1>3, <1>4, <1>5, <1>7, <1>8, <1>9, SavingStep

\* A save that ends the command.
LEMMA LastSave ==
  ASSUME IInv, SInv, UNCHANGED <<kind, log, evidence, decision, crashes>>,
         NEW p \in Procs, proc[p].pc \notin {"idle", "announce"},
         proc[p].st.status # "absent",
         ckpt' = Revised(proc[p].st), Exit(p)
  PROVE  SInv'
  <1>. DEFINE s == proc[p].st
  <1>1. /\ s \in State /\ log # << >> /\ WellFounded(s, log, evidence)
        /\ UpToDate(s, log) /\ (crashes = 0 => Matches(s, log))
    BY InProgress
  <1>2. proc' = [proc EXCEPT ![p] = Idle] /\ Idle.pc = "idle"
    BY DEF Exit, Idle
  <1>. QED
    BY <1>1, <1>2, SavingStep

\* A save after which run_campaign goes on or leaves its loop.
LEMMA SaveAndGoOn ==
  ASSUME IInv, SInv, UNCHANGED <<kind, log, evidence, decision, crashes>>,
         NEW p \in Procs, proc[p].pc \in {"step_save", "stop_save"},
         NEW pc \in {"loop", "finish"}, Save(p, proc[p].st, pc),
         pc = "loop" => proc[p].st.status = "running"
  PROVE  SInv'
  <1>. DEFINE s == proc[p].st
  <1>1. /\ s \in State /\ log # << >> /\ WellFounded(s, log, evidence)
        /\ UpToDate(s, log) /\ Matches(s, log) /\ Advances(ckpt, s)
    BY InProgress DEF VerifiedPCs, Ahead
  <1>2. s.status \in {"running", "paused_for_human_review"} \union Stopped
    BY <1>1 DEF Advances
  <1>3. ckpt' = Revised(s) /\ Goto(p, pc, Revised(s))
    BY DEF Save
  <1>4. Revised(s) \in State /\ Revised(s).status = s.status /\ pc \in PCs
    BY <1>1, RevisedFields DEF PCs, RunPCs
  <1>5. PICK r \in Process : /\ proc' = [proc EXCEPT ![p] = r]
                             /\ r.pc = pc /\ r.st = Revised(s)
    BY <1>3, <1>4, GoesOn
  <1>6. Ahead(r, Revised(s))
    BY <1>2, <1>4, <1>5 DEF Ahead
  <1>7. InHand(r, evidence) /\ Answering(r, Revised(s), decision)
    BY <1>5 DEF InHand, Answering
  <1>8. s.status # "absent"
    BY <1>2
  <1>. QED
    BY <1>1, <1>3, <1>5, <1>6, <1>7, <1>8, SavingStep

\* The saves of run_campaign, of a review and of an operator stop.
LEMMA SaveSerial ==
  ASSUME IInv, SInv, NEW p \in Procs,
         StepSave(p) \/ StopSave(p) \/ FinalSave(p) \/ OperatorSave(p)
  PROVE  SInv'
  <1>1. CASE StepSave(p)
    BY <1>1, SaveAndGoOn DEF StepSave
  <1>2. CASE StopSave(p)
    BY <1>2, SaveAndGoOn DEF StopSave
  <1>3. CASE FinalSave(p)
    <2>1. proc[p].st.status # "absent"
      BY <1>3, InProgress DEF FinalSave, Ahead, Ends, Advances
    <2>. QED
      BY <1>3, <2>1, LastSave DEF FinalSave
  <1>4. CASE OperatorSave(p)
    <2>1. proc[p].st.status # "absent"
      BY <1>4, InProgress DEF OperatorSave, Ahead, OperatorStops
    <2>. QED
      BY <1>4, <2>1, LastSave DEF OperatorSave
  <1>. QED
    BY <1>1, <1>2, <1>3, <1>4

\* The save of a review, which campaign-resume follows with a run.
LEMMA ReviewSaveSerial ==
  ASSUME IInv, SInv, NEW p \in Procs, ReviewSave(p) PROVE SInv'
  <1>. DEFINE s == proc[p].st
  <1>1. /\ proc[p].pc = "review_save" /\ ckpt' = Revised(s)
        /\ UNCHANGED <<kind, log, evidence, decision, crashes>>
    BY DEF ReviewSave
  <1>2. /\ s \in State /\ log # << >> /\ WellFounded(s, log, evidence)
        /\ UpToDate(s, log) /\ Matches(s, log) /\ Answers(ckpt, s)
    BY <1>1, InProgress DEF VerifiedPCs, Ahead
  <1>3. s.status # "absent"
    BY <1>2 DEF Answers
  <1>4. CASE Exit(p)
    BY <1>1, <1>3, <1>4, LastSave
  <1>5. CASE ~Exit(p)
    <2>1. PICK live \in LiveModes :
            /\ Revised(s).status = "ready_to_resume"
            /\ proc' = [proc EXCEPT ![p] = [Idle EXCEPT !.pc = "verify",
                          !.st = Revised(s), !.live = live]]
      BY <1>5 DEF ReviewSave
    <2>. DEFINE r == [Idle EXCEPT !.pc = "verify", !.st = Revised(s), !.live = live]
    <2>2. r.pc = "verify" /\ r.st = Revised(s) /\ proc' = [proc EXCEPT ![p] = r]
      BY <2>1 DEF Idle
    <2>. HIDE DEF r, s
    <2>3. Ahead(r, Revised(s))
      BY <2>1, <2>2 DEF Ahead
    <2>4. InHand(r, evidence) /\ Answering(r, Revised(s), decision)
      BY <2>2 DEF InHand, Answering
    <2>. QED
      BY <1>1, <1>2, <1>3, <2>2, <2>3, <2>4, SavingStep
  <1>. QED
    BY <1>4, <1>5

\* A review is refused or about to be answered; no file changes.
LEMMA ReviewCheckSerial ==
  ASSUME IInv, SInv, NEW p \in Procs, ReviewCheck(p) PROVE SInv'
  <1>. DEFINE r == [proc[p] EXCEPT !.pc = "review_event", !.result = decision.verdict]
  <1>1. /\ proc[p].pc = "review_check"
        /\ UNCHANGED <<kind, ckpt, log, evidence, decision, crashes>>
    BY DEF ReviewCheck
  <1>2. /\ proc[p].st = ckpt /\ proc[p] \in Process
        /\ crashes = 0 => Matches(ckpt, log)
        /\ SerialCommand(proc[p], ckpt, decision, log, evidence, crashes)
    BY <1>1, InProgress DEF Ahead, HoldingPCs
  <1>3. CASE Exit(p)
    BY <1>1, <1>2, <1>3, EndingStep
  <1>4. CASE ~Exit(p)
    <2>1. /\ proc' = [proc EXCEPT ![p] = r] /\ decision.digest = ckpt
          /\ Matches(proc[p].st, log)
      BY <1>4 DEF ReviewCheck, EventLogMatches, ChainIntact, Matches, IInv, TypeOK
    <2>2. r.pc = "review_event" /\ r.st = proc[p].st /\ r.result = decision.verdict
      BY <1>2 DEF Process
    <2>. HIDE DEF r
    <2>3. Ahead(r, ckpt)
      BY <1>2, <2>2 DEF Ahead, HoldingPCs
    <2>4. InHand(r, evidence) /\ Answering(r, ckpt, decision)
      BY <2>1, <2>2 DEF InHand, Answering
    <2>5. SerialCommand(r, ckpt, decision, log, evidence, crashes)
      BY <1>1, <1>2, <2>1, <2>2, <2>3, <2>4 DEF SerialCommand
    <2>. QED
      BY <1>1, <2>1, <2>2, <2>5, OthersAreIdle, MemoryStep
  <1>. QED
    BY <1>3, <1>4

\* Leaving the loop at max_steps or with nothing pending.
LEMMA EndLoopSerial == ASSUME IInv, SInv, NEW p \in Procs, EndLoop(p) PROVE SInv'
  <1>. DEFINE s == proc[p].st
  <1>1. /\ proc[p].pc = "loop" /\ Goto(p, "finish", s)
        /\ UNCHANGED <<kind, ckpt, log, evidence, decision, crashes>>
    BY DEF EndLoop
  <1>2. /\ s = ckpt /\ s \in State /\ s.status \in Runnable
        /\ SerialCommand(proc[p], ckpt, decision, log, evidence, crashes)
        /\ Matches(s, log) /\ "finish" \in PCs
    BY <1>1, InProgress DEF Ahead, HoldingPCs, VerifiedPCs, PCs, RunPCs
  <1>3. PICK r \in Process : /\ proc' = [proc EXCEPT ![p] = r]
                             /\ r.pc = "finish" /\ r.st = s
    BY <1>1, <1>2, GoesOn
  <1>4. Ahead(r, ckpt)
    BY <1>2, <1>3 DEF Ahead, HoldingPCs
  <1>5. InHand(r, evidence) /\ Answering(r, ckpt, decision)
    BY <1>3 DEF InHand, Answering
  <1>6. SerialCommand(r, ckpt, decision, log, evidence, crashes)
    BY <1>1, <1>2, <1>3, <1>4, <1>5 DEF SerialCommand
  <1>. QED
    BY <1>1, <1>3, <1>6, OthersAreIdle, MemoryStep

\* A command that is killed leaves its files, and the checkpoint may be stale.
LEMMA CrashSerial == ASSUME IInv, SInv, NEW p \in Procs, Crash(p) PROVE SInv'
  BY EndingStep DEF Crash, IInv, TypeOK

\* The operator cannot answer anew a checkpoint that is being answered.
LEMMA WriteDecisionSerial ==
  ASSUME IInv, SInv, NEW verdict \in ReviewVerdicts, WriteDecision(verdict)
  PROVE  SInv'
  <1>1. /\ decision.digest # ckpt
        /\ UNCHANGED <<kind, ckpt, log, evidence, proc, executed, crashes>>
    BY DEF WriteDecision
  <1>2. ASSUME NEW q \in Procs, proc[q].pc # "idle"
        PROVE  SerialCommand(proc[q], ckpt, decision', log, evidence, crashes)
    BY <1>1, <1>2, InProgress DEF SerialCommand, Answering
  <1>3. \A q \in Procs : proc'[q].pc # "idle" =>
          SerialCommand(proc[q], ckpt, decision, log, evidence, crashes)'
    BY <1>1, <1>2 DEF SerialCommand, UpToDate, Accounts, Unsettled, InHand
  <1>4. SerialFiles(ckpt, log, evidence)'
    BY <1>1 DEF SInv, SerialFiles, UpToDate, Accounts, Unsettled
  <1>. QED
    BY <1>1, <1>3, <1>4 DEF SInv

\* A step of a command that writes the manifest of its iteration: no line of
\* the event log names that iteration yet.
LEMMA ManifestStep ==
  ASSUME IInv, SInv, UNCHANGED <<kind, ckpt, log, decision, crashes>>,
         NEW p \in Procs, proc[p].pc \in VerifiedPCs \ {"announce"},
         NEW m, evidence' = Put(evidence, proc[p].st.next, m),
         NEW r, proc' = [proc EXCEPT ![p] = r],
         r.pc \notin {"idle", "announce"}, r.st = proc[p].st,
         Ahead(r, ckpt), InHand(r, evidence'), Answering(r, ckpt, decision)
  PROVE  SInv'
  <1>. DEFINE s == proc[p].st
  <1>1. proc[p].pc # "idle"
    BY DEF VerifiedPCs
  <1>2. /\ s \in State /\ log \in Seq(LogLine) /\ ckpt \in State
        /\ WellFounded(s, log, evidence) /\ UpToDate(s, log)
        /\ Matches(s, log) /\ Accounts(s, log)
        /\ SerialFiles(ckpt, log, evidence)
    BY <1>1, InProgress
  <1>3. \A i \in 1 .. Len(log) : Evidential(log[i]) => log[i].iter # s.next
    <2>. SUFFICES ASSUME NEW i \in 1 .. Len(log), Evidential(log[i])
                  PROVE  log[i].iter # s.next
      OBVIOUS
    <2>1. log[i].iter < s.next
      BY <1>2 DEF Accounts
    <2>2. log[i] \in LogLine
      BY <1>2
    <2>3. log[i].iter \in Nat
      BY <2>2 DEF LogLine
    <2>4. s.next \in Nat
      BY <1>2 DEF State
    <2>. HIDE DEF s
    <2>. QED
      BY <2>1, <2>3, <2>4
  <1>4. /\ WellFounded(s, log, evidence') /\ WellFounded(ckpt, log, evidence')
        /\ GoodLines(log, evidence')
    BY <1>2, <1>3, NewManifest DEF SerialFiles
  <1>5. SerialFiles(ckpt', log', evidence')
    BY <1>2, <1>4 DEF SerialFiles
  <1>6. log # << >>
    BY <1>1, InProgress
  <1>7. SerialCommand(r, ckpt', decision', log', evidence', crashes')
    BY <1>2, <1>4, <1>6 DEF SerialCommand
  <1>8. \A q \in Procs \ {p} : proc[q].pc = "idle"
    BY <1>1, OthersAreIdle
  <1>. QED
    BY <1>5, <1>7, <1>8, CommandStep

\* What the loop holds when it has selected an objective.
LEMMA SelectedSerial ==
  ASSUME IInv, SInv, NEW p \in Procs, NEW o \in Objectives, Selected(p, o)
  PROVE  /\ proc[p].pc = "loop" /\ proc[p] \in Process
         /\ proc[p].st = ckpt /\ ckpt \in State /\ ckpt.status = "running"
         /\ IsNext(ckpt, o)
         /\ WellFounded(ckpt, log, evidence) /\ Matches(ckpt, log)
         /\ UpToDate(ckpt, log) /\ log # << >> /\ ckpt.review = "none"
  <1>1. proc[p].pc = "loop" /\ IsNext(proc[p].st, o)
    BY DEF Selected
  <1>2. proc[p].st = ckpt /\ ckpt.status = "running" /\ ckpt.review = "none"
    BY <1>1, InProgress DEF Ahead, HoldingPCs, GoodProcess, GoodState
  <1>. QED
    BY <1>1, <1>2, InProgress DEF VerifiedPCs

\* The manifest of a stop or a pause before execution.
LEMMA StopWithManifestSerial ==
  ASSUME IInv, SInv, NEW p \in Procs, NEW o \in Objectives, Selected(p, o),
         NEW reason, NEW verdict, StopWithManifest(p, o, reason, verdict)
  PROVE  SInv'
  <1>. DEFINE r == [proc[p] EXCEPT !.pc = "stop_event", !.obj = o, !.result = reason]
              m == [obj |-> o, verdict |-> verdict]
  <1>1. /\ proc' = [proc EXCEPT ![p] = r]
        /\ evidence' = Put(evidence, proc[p].st.next, m)
        /\ UNCHANGED <<kind, ckpt, log, decision, crashes>>
    BY DEF StopWithManifest, WriteManifest, IInv, TypeOK
  <1>2. /\ proc[p].pc = "loop" /\ proc[p].st = ckpt /\ ckpt.status = "running"
        /\ IsNext(ckpt, o) /\ proc[p] \in Process
    BY SelectedSerial
  <1>3. r.pc = "stop_event" /\ r.st = proc[p].st /\ r.obj = o
    BY <1>2 DEF Process
  <1>. HIDE DEF r
  <1>4. Ahead(r, ckpt)
    BY <1>2, <1>3 DEF Ahead
  <1>5. m.obj = o
    OBVIOUS
  <1>6. InHand(r, evidence')
    <2>. HIDE DEF m
    <2>. QED
      BY <1>1, <1>2, <1>3, <1>5, ManifestIsThere DEF InHand
  <1>7. Answering(r, ckpt, decision)
    BY <1>3 DEF Answering
  <1>8. proc[p].pc \in VerifiedPCs \ {"announce"}
    BY <1>2 DEF VerifiedPCs
  <1>. HIDE DEF m
  <1>. QED
    BY <1>1, <1>3, <1>4, <1>6, <1>7, <1>8, ManifestStep

\* The save that puts the selected objective in hand.
LEMMA BeginObjectiveSerial ==
  ASSUME IInv, SInv, NEW p \in Procs, NEW o \in Objectives, BeginObjective(p, o)
  PROVE  SInv'
  <1>. DEFINE s == [proc[p].st EXCEPT !.current = o]
              r == [proc[p] EXCEPT !.pc = "gate", !.st = Revised(s), !.obj = o]
  <1>1. /\ Selected(p, o) /\ ckpt' = Revised(s)
        /\ proc' = [proc EXCEPT ![p] = r]
        /\ UNCHANGED <<kind, log, evidence, decision, crashes>>
    BY DEF BeginObjective, IInv, TypeOK
  <1>2. /\ proc[p].pc = "loop" /\ proc[p] \in Process
        /\ proc[p].st = ckpt /\ ckpt \in State /\ ckpt.status = "running"
        /\ IsNext(ckpt, o) /\ ckpt.review = "none"
        /\ WellFounded(ckpt, log, evidence) /\ Matches(ckpt, log)
        /\ UpToDate(ckpt, log) /\ log # << >>
    BY <1>1, SelectedSerial
  <1>3. /\ s \in State /\ s.status = "running" /\ s.next = ckpt.next
        /\ s.current = o /\ s.review = "none"
        /\ s.completed = ckpt.completed /\ s.pending = ckpt.pending
        /\ s.events = ckpt.events /\ s.lastEvent = ckpt.lastEvent
    BY <1>2 DEF State
  <1>. HIDE DEF s
  <1>4. /\ Revised(s).status = "running" /\ Revised(s).pending = ckpt.pending
    BY <1>3, RevisedFields
  <1>5. r.pc = "gate" /\ r.st = Revised(s) /\ r.obj = o
    BY <1>2 DEF Process
  <1>. HIDE DEF r
  <1>6. WellFounded(s, log, evidence)
    BY <1>2, <1>3 DEF WellFounded, IsNext
  <1>7. Matches(s, log) /\ UpToDate(s, log)
    BY <1>2, <1>3 DEF Matches, UpToDate, Accounts, Unsettled
  <1>8. Ahead(r, Revised(s))
    BY <1>4, <1>5 DEF Ahead
  <1>9. InHand(r, evidence) /\ Answering(r, Revised(s), decision)
    BY <1>2, <1>4, <1>5 DEF InHand, Answering, IsNext
  <1>. QED
    BY <1>1, <1>2, <1>3, <1>5, <1>6, <1>7, <1>8, <1>9, SavingStep

\* The four ways the loop can deal with the objective it selected.
LEMMA StepObjectiveSerial ==
  ASSUME IInv, SInv, NEW p \in Procs, NEW o \in Objectives, StepObjective(p, o)
  PROVE  SInv'
  BY StopWithManifestSerial, BeginObjectiveSerial
     DEF StepObjective, FuzzingStop, LockoutPause, BudgetStop

\* The gate's answer and the run of the adapter.
LEMMA EvaluateSerial ==
  ASSUME IInv, SInv, NEW p \in Procs, NEW answer \in {"allowed", "human", "denied"},
         EvaluateAndExecute(p, answer)
  PROVE  SInv'
  <1>. DEFINE r == [proc[p] EXCEPT !.pc = "manifest", !.result = answer]
  <1>1. /\ proc[p].pc = "gate" /\ proc' = [proc EXCEPT ![p] = r]
        /\ answer \in GateAnswers(proc[p].st, proc[p].obj, proc[p].live)
        /\ UNCHANGED <<kind, ckpt, log, evidence, decision, crashes>>
    BY DEF EvaluateAndExecute, IInv, TypeOK
  <1>2. /\ proc[p] \in Process /\ Matches(proc[p].st, log)
        /\ proc[p].st = ckpt /\ ckpt.status \in Runnable
        /\ IsNext(proc[p].st, proc[p].obj)
        /\ SerialCommand(proc[p], ckpt, decision, log, evidence, crashes)
    BY <1>1, InProgress DEF Ahead, HoldingPCs, InHand, VerifiedPCs
  <1>3. r.pc = "manifest" /\ r.st = proc[p].st /\ r.obj = proc[p].obj
        /\ r.result = answer
    BY <1>2 DEF Process
  <1>. HIDE DEF r
  <1>4. Ahead(r, ckpt)
    BY <1>2, <1>3 DEF Ahead
  <1>5. answer = "human" => kind[proc[p].obj] = "needs_approval"
    BY <1>1 DEF GateAnswers
  <1>6. InHand(r, evidence) /\ Answering(r, ckpt, decision)
    BY <1>2, <1>3, <1>5 DEF InHand, Answering
  <1>7. SerialCommand(r, ckpt, decision, log, evidence, crashes)
    BY <1>1, <1>2, <1>3, <1>4, <1>6 DEF SerialCommand
  <1>. QED
    BY <1>1, <1>3, <1>7, OthersAreIdle, MemoryStep

\* The manifest of an objective that went through the gate.
LEMMA WriteEvidenceSerial ==
  ASSUME IInv, SInv, NEW p \in Procs, WriteEvidence(p) PROVE SInv'
  <1>. DEFINE m == [obj |-> proc[p].obj, verdict |-> Outcome(p)]
  <1>1. /\ proc[p].pc = "manifest" /\ Goto(p, "result", proc[p].st)
        /\ evidence' = Put(evidence, proc[p].st.next, m)
        /\ UNCHANGED <<kind, ckpt, log, decision, crashes>>
    BY DEF WriteEvidence, WriteManifest
  <1>2. /\ proc[p].st = ckpt /\ ckpt.status \in Runnable /\ proc[p].st \in State
        /\ IsNext(proc[p].st, proc[p].obj)
        /\ proc[p].result \in {"allowed", "human", "denied"}
        /\ proc[p].result = "human" => kind[proc[p].obj] = "needs_approval"
        /\ "result" \in PCs
    BY <1>1, InProgress DEF Ahead, HoldingPCs, InHand, PCs, RunPCs
  <1>3. PICK r \in Process :
          /\ proc' = [proc EXCEPT ![p] = r]
          /\ r.pc = "result" /\ r.st = proc[p].st /\ r.obj = proc[p].obj
          /\ r.result = proc[p].result /\ r.live = proc[p].live
    BY <1>1, <1>2, GoesOn
  <1>4. m = [obj |-> r.obj, verdict |-> OutcomeOf(r)]
    BY <1>3 DEF Outcome, OutcomeOf
  <1>. HIDE DEF m
  <1>5. Ahead(r, ckpt)
    BY <1>2, <1>3 DEF Ahead
  <1>6. InHand(r, evidence')
    BY <1>1, <1>2, <1>3, <1>4, ManifestIsThere DEF InHand
  <1>7. Answering(r, ckpt, decision)
    BY <1>3 DEF Answering
  <1>8. proc[p].pc \in VerifiedPCs \ {"announce"}
    BY <1>1 DEF VerifiedPCs
  <1>. QED
    BY <1>1, <1>3, <1>5, <1>6, <1>7, <1>8, ManifestStep

\* What became of o, the objective in hand of the running state s.
Settling(s, t, o) ==
  /\ t \in State
  /\ t.next = s.next + 1 /\ t.events = s.events /\ t.rev = s.rev
  /\ \/ /\ Completes(s, t, o) /\ t.status = "running"
        /\ t.current = NoObjective /\ t.review = "none"
     \/ /\ Stops(s, t, o) /\ t.status \in Stopped
        /\ t.current = NoObjective /\ t.review = "none"
     \/ /\ Same(s, t) /\ t.status = "paused_for_human_review"
        /\ t.current = o /\ t.review # "none"

\* A line that records what became of the objective in hand, together with the
\* manifest it names, supports the state that follows it.
LEMMA SettlingStep ==
  ASSUME IInv, SInv, UNCHANGED <<kind, ckpt, evidence, decision, crashes>>,
         NEW p \in Procs, proc[p].pc \in {"result", "stop_event"},
         NEW line \in LogLine, log' = Append(log, line),
         line.seq = proc[p].st.events + 1, line.prev = proc[p].st.lastEvent,
         line.iter = proc[p].st.next, line.obj = proc[p].obj,
         line.type = "objective_result" => line.outcome = evidence[line.iter].verdict,
         NEW t, Settling(proc[p].st, t, proc[p].obj),
         Completes(proc[p].st, t, proc[p].obj) =>
           line.type = "objective_result" /\ line.outcome = "INCONCLUSIVE",
         t.review = "post_execution" =>
           line.type = "objective_result" /\ line.outcome = "MANUAL_REVIEW",
         t.review = "pre_execution" /\ line.type = "objective_result" =>
           line.outcome = "MANUAL_REVIEW" /\ kind[proc[p].obj] = "needs_approval",
         NEW r, proc' = [proc EXCEPT ![p] = r], r.st = Noted(t),
         \/ r.pc \in {"step_save", "stop_save"}
         \/ r.pc = "pause_event" /\ t.review # "none"
         \/ r.pc = "finish" /\ t.status \in Stopped
  PROVE  SInv'
  <1>. DEFINE s == proc[p].st
              o == proc[p].obj
  <1>1. /\ s \in State /\ log \in Seq(LogLine) /\ Matches(s, log)
        /\ Accounts(s, log) /\ WellFounded(s, log, evidence)
        /\ GoodLines(log, evidence) /\ s = ckpt /\ s.status = "running"
        /\ s.review = "none" /\ IsNext(s, o) /\ proc[p].pc # "idle"
        /\ s.next \in DOMAIN evidence /\ evidence[s.next].obj = o
        /\ proc[p].pc \in VerifiedPCs
    <2>1. proc[p].pc # "idle" /\ proc[p].pc \in VerifiedPCs
      BY DEF VerifiedPCs
    <2>2. /\ s \in State /\ log \in Seq(LogLine) /\ Matches(s, log)
          /\ Accounts(s, log) /\ WellFounded(s, log, evidence)
          /\ SerialFiles(ckpt, log, evidence) /\ Ahead(proc[p], ckpt)
          /\ InHand(proc[p], evidence) /\ GoodProcess(proc[p], log)
      BY <2>1, InProgress
    <2>3. s = ckpt /\ s.status = "running" /\ s.review = "none"
      BY <2>2 DEF Ahead, HoldingPCs, GoodProcess, GoodState
    <2>4. /\ IsNext(s, o) /\ s.next \in DOMAIN evidence
          /\ evidence[s.next].obj = o
      BY <2>2 DEF InHand
    <2>5. GoodLines(log, evidence)
      BY <2>2 DEF SerialFiles
    <2>. QED
      BY <2>1, <2>2, <2>3, <2>4, <2>5
  <1>2. evidence[s.next] \in Manifest
    BY <1>1 DEF IInv, TypeOK
  <1>3. evidence[s.next] = [obj |-> o, verdict |-> evidence[s.next].verdict]
    BY <1>1, <1>2 DEF Manifest
  <1>. HIDE DEF s, o
  <1>4. /\ Len(log) \in Nat /\ Len(log') = Len(log) + 1
        /\ log'[Len(log) + 1] = line
    BY <1>1, Appended
  <1>5. line.type = "objective_result" => Reported(Len(log) + 1, o, log', evidence)
    BY <1>1, <1>3, <1>4 DEF Reported, IsResult, s, o
  <1>6. t \in State /\ s.next \in Nat /\ t.next = s.next + 1 /\ t.pending \subseteq s.pending
    BY <1>1 DEF Settling, Completes, Stops, Same, s, State
  <1>7. GoodLines(log', evidence)
    <2>1. line.iter \in DOMAIN evidence /\ evidence[line.iter].obj = line.obj
      BY <1>1 DEF s, o
    <2>2. \A i \in 1 .. Len(log) : Evidential(log[i]) => log[i].iter < line.iter
      BY <1>1 DEF Accounts, s
    <2>. QED
      BY <1>1, <2>1, <2>2, GoodLinesGrow
  <1>8. Accounts(t, log')
    <2>1. line.iter < t.next
      BY <1>6 DEF s
    <2>2. s.next <= t.next
      BY <1>6
    <2>3. \A x \in t.pending : IsResult(line, x) => Unsettled(t, x, line)
      <3>. SUFFICES ASSUME NEW x \in t.pending, IsResult(line, x)
                    PROVE  Unsettled(t, x, line)
        OBVIOUS
      <3>1. x = o /\ line.type = "objective_result"
        BY DEF IsResult, o
      <3>2. Same(s, t) /\ t.current = o /\ t.review # "none"
        BY <3>1 DEF Settling, Completes, Stops, s, o
      <3>3. t.review \in {"pre_execution", "post_execution"}
        BY <1>6, <3>2 DEF State
      <3>. QED
        BY <3>1, <3>2, <3>3 DEF Unsettled, o
    <2>. QED
      BY <1>1, <1>6, <2>1, <2>2, <2>3, AccountsGrow
  <1>9. WellFounded(Noted(t), log', evidence)
    <2>1. ASSUME NEW x \in t.completed, x \notin s.completed
          PROVE  Earned(x, log', evidence)
      <3>1. Completes(s, t, o) /\ x = o
        BY <2>1 DEF Settling, Completes, Stops, Same, s, o
      <3>2. line.type = "objective_result" /\ line.outcome = "INCONCLUSIVE"
        BY <3>1 DEF s, o
      <3>. QED
        BY <1>4, <1>5, <3>1, <3>2 DEF Earned
    <2>2. t.review = "post_execution" =>
            \E i \in 1 .. Len(log') : /\ Reported(i, t.current, log', evidence)
                                      /\ log'[i].outcome = "MANUAL_REVIEW"
      BY <1>4, <1>5 DEF Settling, o
    <2>3. t.current # NoObjective => IsNext(t, t.current)
      BY <1>1 DEF Settling, Same, IsNext, s, o
    <2>4. t.status \in Stopped => t.current = NoObjective
      BY DEF Settling
    <2>. QED
      BY <1>1, <1>6, <2>1, <2>2, <2>3, <2>4, WellFoundedNoted
  <1>10. /\ Noted(t).status = t.status /\ Noted(t).current = t.current
         /\ Noted(t).completed = t.completed /\ Noted(t).pending = t.pending
         /\ Noted(t).stopped = t.stopped /\ Noted(t).rev = t.rev
         /\ Noted(t).next = t.next
    BY <1>1, <1>6, NotedFields
  <1>11. Advances(ckpt, Noted(t))
    <2>1. o \in ckpt.pending
      BY <1>1 DEF IsNext
    <2>. QED
      BY <1>1, <1>10, <2>1 DEF Advances, Settling, Completes, Stops, Same, s, o
  <1>12. Ahead(r, ckpt)
    BY <1>1, <1>10, <1>11 DEF Ahead, HoldingPCs, Settling, s
  <1>13. InHand(r, evidence)
    <2>1. r.pc = "pause_event" => Noted(t).current = o
      BY <1>10 DEF Settling, o
    <2>2. Noted(t).next - 1 = s.next
      BY <1>6, <1>10
    <2>. QED
      BY <1>1, <2>1, <2>2 DEF InHand
  <1>14. Answering(r, ckpt, decision) /\ r.pc # "idle"
    BY DEF Answering
  <1>15. t.events = s.events /\ t.rev = s.rev
    BY DEF Settling, s
  <1>. QED
    BY <1>1, <1>6, <1>7, <1>8, <1>9, <1>12, <1>13, <1>14, <1>15, LoggedStep DEF s

\* A state that has spent its iteration, and is otherwise the running state s.
Spent(s, t) ==
  /\ t \in State
  /\ t.next = s.next + 1 /\ t.events = s.events /\ t.rev = s.rev
  /\ t.status = "running" /\ t.review = "none"
  /\ Same(s, t)

\* Completing the objective in hand settles it.
LEMMA CompletingSettles ==
  ASSUME NEW s, NEW t, Spent(s, t), NEW o \in t.pending
  PROVE  /\ Settling(s, Complete(t, o), o) /\ Completes(s, Complete(t, o), o)
         /\ Complete(t, o).review = "none"
  <1>. DEFINE u == Complete(t, o)
  <1>1. t \in State /\ o \in Objectives
    BY DEF Spent, State
  <1>2. /\ u \in State /\ u.next = t.next /\ u.events = t.events /\ u.rev = t.rev
        /\ u.completed = t.completed \union {o} /\ u.pending = t.pending \ {o}
        /\ u.stopped = t.stopped /\ u.status = t.status
        /\ u.current = NoObjective /\ u.review = t.review
    BY <1>1, ZenonT(60) DEF State, Complete
  <1>. HIDE DEF u
  <1>3. Settling(s, u, o) /\ Completes(s, u, o) /\ u.review = "none"
    BY <1>2 DEF Settling, Completes, Spent, Same
  <1>. QED
    BY <1>3 DEF u

StoppedAs(s, o, status) == [Stop(s, o) EXCEPT !.status = status]

\* Stopping at the objective in hand settles it.
LEMMA StoppingSettles ==
  ASSUME NEW s, NEW t, Spent(s, t), NEW o \in t.pending, NEW status \in Stopped,
         NEW u, u = StoppedAs(t, o, status)
  PROVE  /\ Settling(s, u, o) /\ Stops(s, u, o)
         /\ u.status = status /\ u.review = "none"
  <1>1. t \in State /\ o \in Objectives
    BY DEF Spent, State
  <1>2. /\ u \in State /\ u.next = t.next /\ u.events = t.events /\ u.rev = t.rev
        /\ u.completed = t.completed /\ u.pending = t.pending \ {o}
        /\ u.stopped = t.stopped \union {o} /\ u.status = status
        /\ u.current = NoObjective /\ u.review = t.review
    BY <1>1, ZenonT(60) DEF State, Stop, StoppedAs
  <1>. QED
    BY <1>2 DEF Settling, Stops, Spent, Same

\* Pausing at the objective in hand settles what is asked.
LEMMA PausingSettles ==
  ASSUME NEW s, NEW t, Spent(s, t), NEW o \in t.pending,
         NEW phase \in {"pre_execution", "post_execution"},
         NEW u, u = Paused(t, o, phase)
  PROVE  /\ Settling(s, u, o) /\ Same(s, u)
         /\ u.status = "paused_for_human_review" /\ u.review = phase
  <1>1. t \in State /\ o \in Objectives
    BY DEF Spent, State
  <1>2. /\ u \in State /\ u.next = t.next /\ u.events = t.events /\ u.rev = t.rev
        /\ u.completed = t.completed /\ u.pending = t.pending
        /\ u.stopped = t.stopped /\ u.status = "paused_for_human_review"
        /\ u.current = o /\ u.review = phase
    BY <1>1, ZenonT(60) DEF State, Paused
  <1>. QED
    BY <1>2 DEF Settling, Spent, Same

\* A running state that charges its budget has spent its iteration.
LEMMA ChargedIsSpent ==
  ASSUME NEW p, proc[p].st \in State, proc[p].st.status = "running",
         proc[p].st.review = "none"
  PROVE  Spent(proc[p].st, Charged(p))
  <1>. DEFINE s == proc[p].st
              b == Record(BudgetOf(s), 0, Outcome(p) = "STOPPED_BY_POLICY")
              n == s.next + 1
  <1>1. b.requests \in Nat /\ b.minute \in Nat /\ b.failures \in Nat
    BY DEF State, Record, BudgetOf
  <1>2. n \in Nat \ {0}
    BY DEF State
  <1>3. Charged(p) = [s EXCEPT !.next = n, !.requests = b.requests,
                               !.minute = b.minute, !.failures = b.failures]
    BY DEF Charged
  <1>. DEFINE x == b.requests
              y == b.minute
              z == b.failures
  <1>4. Charged(p) = [s EXCEPT !.next = n, !.requests = x,
                               !.minute = y, !.failures = z]
    BY <1>3
  <1>5. x \in Nat /\ y \in Nat /\ z \in Nat /\ s \in State
    BY <1>1
  <1>. HIDE DEF x, y, z, b, n, s
  <1>6. /\ Charged(p) \in State /\ Charged(p).next = n
        /\ Charged(p).events = s.events /\ Charged(p).rev = s.rev
        /\ Charged(p).status = s.status /\ Charged(p).review = s.review
        /\ Charged(p).completed = s.completed /\ Charged(p).pending = s.pending
        /\ Charged(p).stopped = s.stopped
    <2>. DEFINE c == [s EXCEPT !.next = n, !.requests = x,
                               !.minute = y, !.failures = z]
    <2>1. c \in State
      BY <1>2, <1>5, ZenonT(60) DEF State
    <2>2. /\ c.next = n /\ c.events = s.events /\ c.rev = s.rev
          /\ c.status = s.status /\ c.review = s.review
          /\ c.completed = s.completed /\ c.pending = s.pending
          /\ c.stopped = s.stopped
      BY <1>5 DEF State
    <2>. QED
      BY <1>4, <2>1, <2>2
  <1>. QED
    BY <1>6 DEF Spent, Same, n, s

\* What a command in progress with an objective in hand holds.
LEMMA InHandSerial ==
  ASSUME IInv, SInv, NEW p \in Procs, proc[p].pc \in {"result", "stop_event"}
  PROVE  /\ proc[p] \in Process /\ proc[p].st \in State
         /\ proc[p].st.status = "running" /\ proc[p].st.review = "none"
         /\ proc[p].obj \in proc[p].st.pending /\ proc[p].obj \in Objectives
         /\ proc[p].obj \notin proc[p].st.completed
         /\ proc[p].st.next \in Nat
         /\ log \in Seq(LogLine)
         /\ InHand(proc[p], evidence)
  <1>1. proc[p].pc # "idle"
    OBVIOUS
  <1>2. /\ proc[p] \in Process /\ GoodProcess(proc[p], log)
        /\ GoodState(proc[p].st, log) /\ proc[p].st \in State
        /\ InHand(proc[p], evidence) /\ log \in Seq(LogLine)
    BY <1>1, InProgress
  <1>3. proc[p].st.status = "running" /\ proc[p].obj \in proc[p].st.pending
    BY <1>2 DEF GoodProcess, InHand, IsNext
  <1>. QED
    BY <1>2, <1>3 DEF GoodState, Disjoint, State

\* The result of the objective in hand, and what becomes of the objective.
LEMMA RecordResultSerial ==
  ASSUME IInv, SInv, NEW p \in Procs, RecordResult(p) PROVE SInv'
  <1>. DEFINE o == proc[p].obj
              old == proc[p].st
              s == Charged(p)
              settled ==
                CASE proc[p].result = "human" -> Paused(s, o, "pre_execution")
                  [] proc[p].result = "denied" ->
                       [Stop(s, o) EXCEPT !.status = "stopped_by_policy"]
                  [] Outcome(p) = "MANUAL_REVIEW" /\ proc[p].result = "allowed" ->
                       Paused(s, o, "post_execution")
                  [] OTHER -> Complete(s, o)
              pc == IF settled.review = "none" THEN "step_save" ELSE "pause_event"
              line == Event(old, "objective_result", o, old.next, Outcome(p))
              r == [proc[p] EXCEPT !.pc = pc, !.st = Noted(settled),
                                   !.steps = proc[p].steps + 1]
  <1>1. /\ proc[p].pc = "result" /\ log' = Append(log, line)
        /\ UNCHANGED <<kind, ckpt, evidence, decision, crashes>>
    BY DEF RecordResult, Emit
  <1>2. proc' = [proc EXCEPT ![p] = r]
    BY ZenonT(90) DEF RecordResult, IInv, TypeOK
  <1>3. /\ proc[p] \in Process /\ old \in State /\ old.status = "running"
        /\ old.review = "none" /\ o \in old.pending /\ o \in Objectives
        /\ o \notin old.completed
        /\ old.next \in Nat /\ InHand(proc[p], evidence)
    BY <1>1, InHandSerial
  <1>4. /\ proc[p].result \in {"allowed", "human", "denied"}
        /\ proc[p].result = "human" => kind[o] = "needs_approval"
        /\ evidence[old.next] = [obj |-> o, verdict |-> OutcomeOf(proc[p])]
    BY <1>1, <1>3 DEF InHand
  <1>5. OutcomeOf(proc[p]) = Outcome(p)
    BY DEF OutcomeOf, Outcome
  <1>6. /\ Outcome(p) \in {"INCONCLUSIVE", "MANUAL_REVIEW", "STOPPED_BY_POLICY"}
        /\ proc[p].result = "human" => Outcome(p) = "MANUAL_REVIEW"
        /\ proc[p].result \notin {"human", "denied"} =>
             Outcome(p) \in {"MANUAL_REVIEW", "INCONCLUSIVE"}
    BY <1>3, <1>4 DEF Outcome, Process
  <1>7. line \in LogLine
    <2>1. "objective_result" \in EventTypes
      BY DEF EventTypes
    <2>. QED
      BY <1>3, <1>6, <2>1, EventIsLine
  <1>8. /\ line.seq = old.events + 1 /\ line.prev = old.lastEvent
        /\ line.type = "objective_result" /\ line.obj = o
        /\ line.iter = old.next /\ line.outcome = Outcome(p)
    BY EventFields
  <1>9. Spent(old, s) /\ o \in s.pending
    BY <1>3, ChargedIsSpent DEF Spent, Same
  <1>10. /\ Settling(old, settled, o)
         /\ settled.review = "pre_execution" => proc[p].result = "human"
         /\ settled.review = "post_execution" => Outcome(p) = "MANUAL_REVIEW"
         /\ Completes(old, settled, o) => Outcome(p) = "INCONCLUSIVE"
    <2>. HIDE DEF s, old, o
    <2>1. \A t : Completes(old, t, o) => ~Same(old, t) /\ ~Stops(old, t, o)
      BY <1>3 DEF Completes, Same, Stops
    <2>2. CASE proc[p].result = "human"
      BY <1>9, <2>1, <2>2, PausingSettles
    <2>3. CASE proc[p].result = "denied"
      BY <1>9, <2>1, <2>3, StoppingSettles DEF StoppedAs
    <2>4. CASE proc[p].result = "allowed" /\ Outcome(p) = "MANUAL_REVIEW"
      BY <1>9, <2>1, <2>4, PausingSettles
    <2>5. CASE proc[p].result = "allowed" /\ Outcome(p) = "INCONCLUSIVE"
      BY <1>9, <2>1, <2>5, CompletingSettles
    <2>. QED
      BY <1>4, <1>6, <2>2, <2>3, <2>4, <2>5
  <1>11. /\ r.st = Noted(settled)
         /\ \/ r.pc \in {"step_save", "stop_save"}
            \/ r.pc = "pause_event" /\ settled.review # "none"
    <2>. HIDE DEF settled
    <2>. QED
      BY <1>3 DEF Process
  <1>. HIDE DEF r, line, settled
  <1>12. settled.review = "pre_execution" =>
           line.outcome = "MANUAL_REVIEW" /\ kind[o] = "needs_approval"
    BY <1>4, <1>6, <1>8, <1>10
  <1>13. line.outcome = evidence[line.iter].verdict
    BY <1>4, <1>5, <1>8
  <1>. QED
    BY <1>1, <1>2, <1>7, <1>8, <1>10, <1>11, <1>12, <1>13, SettlingStep

\* The stop or the pause before execution, and what becomes of the objective.
LEMMA StopEventSerial == ASSUME IInv, SInv, NEW p \in Procs, StopEvent(p) PROVE SInv'
  <1>. DEFINE o == proc[p].obj
              old == proc[p].st
              why == proc[p].result
              s == [old EXCEPT !.next = old.next + 1]
              after ==
                CASE why = "lockout" -> Paused(s, o, "pre_execution")
                  [] why = "fuzz_stop" ->
                       [Stop(s, o) EXCEPT !.status = "stopped_by_condition"]
                  [] why = "operator_stop" ->
                       [Stop(s, o) EXCEPT !.status = "stopped_by_operator"]
                  [] OTHER -> [Stop(s, o) EXCEPT !.status = "stopped_by_budget"]
              type == IF why = "lockout" THEN "campaign_paused" ELSE "campaign_stop"
              outcome == IF why \in {"lockout", "fuzz_stop"} THEN after.status
                         ELSE "STOPPED_BY_POLICY"
              pc == IF why \in {"lockout", "fuzz_stop"} THEN "stop_save" ELSE "finish"
              line == Event(old, type, o, old.next, outcome)
  <1>1. /\ proc[p].pc = "stop_event" /\ log' = Append(log, line)
        /\ Goto(p, pc, Noted(after))
        /\ UNCHANGED <<kind, ckpt, evidence, decision, crashes>>
    BY DEF StopEvent, Emit
  <1>2. /\ proc[p] \in Process /\ old \in State /\ old.status = "running"
        /\ old.review = "none" /\ o \in old.pending /\ o \in Objectives
        /\ o \notin old.completed
        /\ old.next \in Nat /\ log \in Seq(LogLine)
    BY <1>1, InHandSerial
  <1>3. Spent(old, s) /\ o \in s.pending
    <2>. DEFINE n == old.next + 1
    <2>1. n \in Nat \ {0}
      BY <1>2
    <2>. HIDE DEF n
    <2>. DEFINE c == [old EXCEPT !.next = n]
    <2>2. c \in State
      BY <1>2, <2>1, ZenonT(60) DEF State
    <2>3. /\ c.next = n /\ c.events = old.events /\ c.rev = old.rev
          /\ c.status = old.status /\ c.review = old.review
          /\ c.completed = old.completed /\ c.pending = old.pending
          /\ c.stopped = old.stopped
      BY <1>2 DEF State
    <2>. QED
      BY <1>2, <2>2, <2>3 DEF Spent, Same, n
  <1>. HIDE DEF s
  <1>4. /\ Settling(old, after, o) /\ ~Completes(old, after, o)
        /\ after.review # "post_execution"
        /\ after.status \in Stopped \union {"paused_for_human_review"}
        /\ why # "lockout" => after.status \in Stopped
    <2>. HIDE DEF old, o
    <2>1. \A t : Completes(old, t, o) => ~Same(old, t) /\ ~Stops(old, t, o)
      BY <1>2 DEF Completes, Same, Stops
    <2>2. CASE why = "lockout"
      <3>1. after = Paused(s, o, "pre_execution")
        BY <2>2
      <3>. HIDE DEF after, why
      <3>2. /\ Settling(old, after, o) /\ Same(old, after)
            /\ after.status = "paused_for_human_review"
            /\ after.review = "pre_execution"
        BY <1>3, <3>1, PausingSettles
      <3>. QED
        BY <2>1, <2>2, <3>2
    <2>3. CASE why # "lockout"
      <3>1. PICK status \in Stopped : after = StoppedAs(s, o, status)
        BY <2>3 DEF StoppedAs
      <3>. HIDE DEF after
      <3>2. /\ Settling(old, after, o) /\ Stops(old, after, o)
            /\ after.status = status /\ after.review = "none"
        BY <1>3, <3>1, StoppingSettles
      <3>. QED
        BY <2>1, <2>3, <3>2
    <2>. QED
      BY <2>2, <2>3
  <1>5. /\ type \in EventTypes /\ type # "objective_result"
        /\ outcome \in Statuses \union {"STOPPED_BY_POLICY"}
        /\ pc \in {"stop_save", "finish"} /\ pc \in PCs
        /\ pc = "finish" => after.status \in Stopped
    <2>. HIDE DEF after
    <2>. QED
      BY <1>4 DEF EventTypes, PCs, RunPCs
  <1>. HIDE DEF after, type, outcome, pc
  <1>6. line \in LogLine
    BY <1>2, <1>5, EventIsLine
  <1>7. /\ line.seq = old.events + 1 /\ line.prev = old.lastEvent
        /\ line.type = type /\ line.obj = o /\ line.iter = old.next
    BY EventFields
  <1>8. Noted(after) \in State
    BY <1>2, <1>4, NotedFields DEF Settling
  <1>9. PICK r \in Process : /\ proc' = [proc EXCEPT ![p] = r]
                             /\ r.pc = pc /\ r.st = Noted(after)
    BY <1>1, <1>5, <1>8, GoesOn
  <1>. HIDE DEF line
  <1>. QED
    BY <1>1, <1>4, <1>5, <1>6, <1>7, <1>9, SettlingStep

\* The campaign_paused event of an objective result.
LEMMA PauseEventSerial == ASSUME IInv, SInv, NEW p \in Procs, PauseEvent(p) PROVE SInv'
  <1>. DEFINE s == proc[p].st
              line == Event(s, "campaign_paused", s.current, s.next - 1,
                            "paused_for_human_review")
  <1>1. /\ proc[p].pc = "pause_event" /\ log' = Append(log, line)
        /\ Goto(p, "step_save", Noted(s))
        /\ UNCHANGED <<kind, ckpt, evidence, decision, crashes>>
    BY DEF PauseEvent, Emit
  <1>2. /\ s \in State /\ log \in Seq(LogLine) /\ WellFounded(s, log, evidence)
        /\ Matches(s, log) /\ Accounts(s, log) /\ SerialFiles(ckpt, log, evidence)
        /\ Ahead(proc[p], ckpt) /\ InHand(proc[p], evidence)
    BY <1>1, InProgress DEF VerifiedPCs
  <1>3. /\ Advances(ckpt, s) /\ s.rev = ckpt.rev /\ GoodLines(log, evidence)
        /\ s.next - 1 \in DOMAIN evidence /\ evidence[s.next - 1].obj = s.current
    BY <1>1, <1>2 DEF Ahead, InHand, SerialFiles
  <1>4. s.current \in Objectives \union {NoObjective} /\ s.next - 1 \in Nat /\ s.next \in Nat
    BY <1>2 DEF State
  <1>5. line \in LogLine
    BY <1>2, <1>4, EventIsLine DEF EventTypes
  <1>6. /\ line.seq = s.events + 1 /\ line.prev = s.lastEvent
        /\ line.type = "campaign_paused" /\ line.obj = s.current
        /\ line.iter = s.next - 1
    BY EventFields
  <1>. HIDE DEF line, s
  <1>7. GoodLines(log', evidence)
    BY <1>1, <1>2, <1>3, <1>5, <1>6, GoodLinesGrow
  <1>8. Accounts(s, log')
    <2>1. s.next <= s.next /\ s.next - 1 < s.next
      BY <1>4
    <2>. QED
      BY <1>1, <1>2, <1>5, <1>6, <2>1, AccountsGrow DEF IsResult
  <1>9. WellFounded(Noted(s), log', evidence)
    BY <1>1, <1>2, <1>5, WellFoundedNoted DEF WellFounded
  <1>10. PICK r \in Process : /\ proc' = [proc EXCEPT ![p] = r]
                              /\ r.pc = "step_save" /\ r.st = Noted(s)
    <2>1. "step_save" \in PCs /\ Noted(s) \in State
      BY <1>2, NotedFields DEF PCs, RunPCs
    <2>. QED
      BY <1>1, <2>1, GoesOn
  <1>11. Ahead(r, ckpt)
    <2>1. /\ Noted(s).status = s.status /\ Noted(s).current = s.current
          /\ Noted(s).completed = s.completed /\ Noted(s).pending = s.pending
          /\ Noted(s).stopped = s.stopped /\ Noted(s).rev = s.rev
      BY <1>2, NotedFields
    <2>2. Advances(ckpt, Noted(s))
      BY <1>3, <2>1 DEF Advances, Completes, Stops, Same
    <2>. QED
      BY <1>3, <1>10, <2>1, <2>2 DEF Ahead, HoldingPCs
  <1>12. InHand(r, evidence) /\ Answering(r, ckpt, decision)
    BY <1>10 DEF InHand, Answering
  <1>. QED
    BY <1>1, <1>2, <1>5, <1>6, <1>7, <1>8, <1>9, <1>10, <1>11, <1>12, LoggedStep
       DEF s

\* A campaign is completed when nothing is pending.
LEMMA CompleteCampaignSerial ==
  ASSUME IInv, SInv, NEW p \in Procs, CompleteCampaign(p) PROVE SInv'
  <1>. DEFINE old == proc[p].st
              s == [old EXCEPT !.status = "completed", !.current = NoObjective]
              line == Event(s, "campaign_completed", NoObjective, 0, "completed")
  <1>1. /\ proc[p].pc = "finish" /\ log' = Append(log, line)
        /\ Goto(p, "final_save", Noted(s)) /\ AllDone(old)
        /\ UNCHANGED <<kind, ckpt, evidence, decision, crashes>>
    BY DEF CompleteCampaign, Emit
  <1>2. /\ old \in State /\ log \in Seq(LogLine) /\ WellFounded(old, log, evidence)
        /\ Matches(old, log) /\ Accounts(old, log) /\ GoodLines(log, evidence)
        /\ Ahead(proc[p], ckpt)
    BY <1>1, InProgress DEF VerifiedPCs, SerialFiles
  <1>3. old = ckpt /\ old.status = "running" /\ old.pending = {}
    BY <1>1, <1>2 DEF Ahead, AllDone
  <1>4. /\ s \in State /\ s.status = "completed" /\ s.current = NoObjective
        /\ s.completed = old.completed /\ s.pending = old.pending
        /\ s.stopped = old.stopped /\ s.review = old.review
        /\ s.events = old.events /\ s.lastEvent = old.lastEvent
        /\ s.next = old.next /\ s.rev = old.rev
    BY <1>2, ZenonT(60) DEF State
  <1>. HIDE DEF s
  <1>5. line \in LogLine
    BY <1>4, EventIsLine DEF EventTypes
  <1>6. /\ line.seq = s.events + 1 /\ line.prev = s.lastEvent
        /\ line.type = "campaign_completed"
    BY EventFields
  <1>7. old.review = "none"
    BY <1>1, <1>3, InProgress DEF GoodProcess, GoodState
  <1>. HIDE DEF line, old
  <1>8. GoodLines(log', evidence)
    BY <1>1, <1>2, <1>5, <1>6, GoodLinesGrow DEF Evidential
  <1>9. Accounts(s, log')
    <2>1. old.next <= s.next
      BY <1>2, <1>4 DEF State
    <2>. QED
      BY <1>1, <1>2, <1>3, <1>4, <1>5, <1>6, <2>1, AccountsGrow DEF Evidential
  <1>10. WellFounded(Noted(s), log', evidence)
    BY <1>1, <1>2, <1>4, <1>5, <1>7, WellFoundedNoted
  <1>11. PICK r \in Process : /\ proc' = [proc EXCEPT ![p] = r]
                              /\ r.pc = "final_save" /\ r.st = Noted(s)
    <2>1. "final_save" \in PCs /\ Noted(s) \in State
      BY <1>2, <1>4, NotedFields DEF PCs, RunPCs
    <2>. QED
      BY <1>1, <2>1, GoesOn
  <1>12. Ahead(r, ckpt)
    <2>1. /\ Noted(s).status = "completed" /\ Noted(s).rev = ckpt.rev
          /\ Noted(s).completed = ckpt.completed
          /\ Noted(s).pending = ckpt.pending /\ Noted(s).stopped = ckpt.stopped
      BY <1>2, <1>3, <1>4, NotedFields
    <2>2. Ends(ckpt, Noted(s))
      BY <1>3, <2>1 DEF Ends, Same
    <2>. QED
      BY <1>11, <2>1, <2>2 DEF Ahead, HoldingPCs
  <1>13. InHand(r, evidence) /\ Answering(r, ckpt, decision)
    BY <1>11 DEF InHand, Answering
  <1>14. line.seq = old.events + 1 /\ line.prev = old.lastEvent
    BY <1>4, <1>6
  <1>. QED
    BY <1>1, <1>2, <1>4, <1>5, <1>8, <1>9, <1>10, <1>11, <1>12, <1>13, <1>14,
       LoggedStep DEF old

\* What an answer makes of the paused state s, whose question was about o.
Answered(s, t, o, verdict) ==
  /\ t \in State
  /\ t.next = s.next /\ t.events = s.events /\ t.rev = s.rev
  /\ t.current = NoObjective /\ t.review = "none"
  /\ \/ /\ verdict = "approved" /\ s.review = "post_execution"
        /\ Completes(s, t, o) /\ t.status = "ready_to_resume"
     \/ /\ s.review = "pre_execution"
        /\ Same(s, t) /\ t.status = "ready_to_resume"
     \/ Stops(s, t, o) /\ t.status \in Stopped

\* The answer to a pause goes on record before the state follows it.
LEMMA ReviewEventSerial ==
  ASSUME IInv, SInv, NEW p \in Procs, ReviewEvent(p) PROVE SInv'
  <1>. DEFINE old == proc[p].st
              o == old.current
              verdict == proc[p].result
              s == [old EXCEPT !.review = "none"]
              after ==
                CASE verdict = "approved" /\ old.review = "pre_execution" ->
                       [s EXCEPT !.reviewed = s.reviewed \union {o},
                                 !.current = NoObjective,
                                 !.status = "ready_to_resume"]
                  [] verdict = "approved" /\ old.review # "pre_execution" ->
                       [Complete(s, o) EXCEPT !.status = "ready_to_resume"]
                  [] verdict = "denied" ->
                       [Stop(s, o) EXCEPT !.status = "stopped_by_condition"]
                  [] OTHER ->
                       [Stop(s, o) EXCEPT !.status = "stopped_by_operator",
                                          !.operatorStop = TRUE]
              line == Event(s, "review_decision", o, s.next - 1, verdict)
  <1>1. /\ proc[p].pc = "review_event" /\ log' = Append(log, line)
        /\ Goto(p, "review_save", Noted(after))
        /\ UNCHANGED <<kind, ckpt, evidence, decision, crashes>>
    BY DEF ReviewEvent, Emit
  <1>2. /\ old \in State /\ log \in Seq(LogLine) /\ WellFounded(old, log, evidence)
        /\ Matches(old, log) /\ Accounts(old, log) /\ GoodLines(log, evidence)
        /\ GoodState(old, log) /\ GoodProcess(proc[p], log)
        /\ Ahead(proc[p], ckpt)
    BY <1>1, InProgress DEF VerifiedPCs, SerialFiles
  <1>3. /\ old = ckpt /\ old.status = "paused_for_human_review"
        /\ old.review \in {"pre_execution", "post_execution"}
        /\ o \in old.pending /\ o \in Objectives /\ verdict \in ReviewVerdicts
    BY <1>1, <1>2 DEF Ahead, HoldingPCs, GoodProcess, GoodState, State
  <1>4. /\ s \in State /\ s.next = old.next /\ s.events = old.events
        /\ s.lastEvent = old.lastEvent /\ s.rev = old.rev
        /\ s.completed = old.completed /\ s.pending = old.pending
        /\ s.stopped = old.stopped /\ s.review = "none"
        /\ s.reviewed = old.reviewed
        /\ s.next \in Nat /\ s.next - 1 \in Nat
    <2>1. "none" \in Phases /\ old.next \in Nat /\ old.next - 1 \in Nat
      BY <1>2 DEF State
    <2>2. s \in State
      BY <1>2, <2>1, ZenonT(60) DEF State
    <2>3. /\ s.next = old.next /\ s.events = old.events
          /\ s.lastEvent = old.lastEvent /\ s.rev = old.rev
          /\ s.completed = old.completed /\ s.pending = old.pending
          /\ s.stopped = old.stopped /\ s.review = "none"
          /\ s.reviewed = old.reviewed
      BY <1>2, ZenonT(60) DEF State
    <2>. HIDE DEF s
    <2>. QED
      BY <2>1, <2>2, <2>3
  <1>5. Answered(old, after, o, verdict)
    <2>. HIDE DEF s, o, old, verdict
    <2>1. CASE verdict = "approved" /\ old.review = "pre_execution"
      <3>. DEFINE t == [s EXCEPT !.reviewed = s.reviewed \union {o},
                                 !.current = NoObjective,
                                 !.status = "ready_to_resume"]
      <3>1. /\ t \in State /\ t.next = s.next /\ t.events = s.events
            /\ t.rev = s.rev /\ t.completed = s.completed /\ t.pending = s.pending
            /\ t.stopped = s.stopped /\ t.current = NoObjective
            /\ t.review = s.review /\ t.status = "ready_to_resume"
        BY <1>3, <1>4, ZenonT(60) DEF State
      <3>2. after = t
        BY <2>1
      <3>. HIDE DEF t, after
      <3>. QED
        BY <1>4, <2>1, <3>1, <3>2 DEF Answered, Same
    <2>2. CASE verdict = "approved" /\ old.review # "pre_execution"
      <3>. DEFINE t == [Complete(s, o) EXCEPT !.status = "ready_to_resume"]
      <3>1. /\ t \in State /\ t.next = s.next /\ t.events = s.events
            /\ t.rev = s.rev /\ t.completed = s.completed \union {o}
            /\ t.pending = s.pending \ {o}
            /\ t.stopped = s.stopped /\ t.current = NoObjective
            /\ t.review = s.review /\ t.status = "ready_to_resume"
        BY <1>3, <1>4, ZenonT(60) DEF State, Complete
      <3>2. after = t
        BY <2>2
      <3>. HIDE DEF t, after
      <3>. QED
        BY <1>3, <1>4, <2>2, <3>1, <3>2 DEF Answered, Completes
    <2>3. CASE verdict # "approved"
      <3>. DEFINE status == IF verdict = "denied" THEN "stopped_by_condition"
                            ELSE "stopped_by_operator"
                  stop == IF verdict = "denied" THEN s.operatorStop ELSE TRUE
                  u == Stop(s, o)
                  t == [u EXCEPT !.status = status, !.operatorStop = stop]
      <3>1. /\ u \in State /\ u.next = s.next /\ u.events = s.events
            /\ u.rev = s.rev /\ u.completed = s.completed
            /\ u.pending = s.pending \ {o} /\ u.stopped = s.stopped \union {o}
            /\ u.current = NoObjective /\ u.review = s.review
            /\ u.operatorStop = s.operatorStop
        BY <1>3, <1>4, ZenonT(60) DEF State, Stop
      <3>2. status \in Stopped /\ s.operatorStop \in BOOLEAN /\ stop \in BOOLEAN
        BY <1>4 DEF State
      <3>3. after = t
        <4>1. CASE verdict = "denied"
          <5>1. after = [u EXCEPT !.status = "stopped_by_condition"]
            BY <2>3, <4>1
          <5>. HIDE DEF after
          <5>2. t = [u EXCEPT !.status = "stopped_by_condition",
                              !.operatorStop = u.operatorStop]
            BY <3>1, <4>1
          <5>. HIDE DEF u, t
          <5>. QED
            BY <3>1, <5>1, <5>2 DEF State
        <4>2. CASE verdict # "denied"
          BY <2>3, <4>2
        <4>. QED
          BY <4>1, <4>2
      <3>. HIDE DEF u, status, stop
      <3>4. /\ t \in State /\ t.next = u.next /\ t.events = u.events
            /\ t.rev = u.rev /\ t.completed = u.completed
            /\ t.pending = u.pending /\ t.stopped = u.stopped
            /\ t.current = u.current /\ t.review = u.review /\ t.status = status
        BY <3>1, <3>2, ZenonT(60) DEF State
      <3>. HIDE DEF t, after
      <3>. QED
        BY <1>4, <3>1, <3>2, <3>3, <3>4 DEF Answered, Stops
    <2>. QED
      BY <2>1, <2>2, <2>3
  <1>. HIDE DEF after, s
  <1>6. line \in LogLine
    BY <1>2, <1>3, <1>4, EventIsLine DEF EventTypes
  <1>7. /\ line.seq = s.events + 1 /\ line.prev = s.lastEvent
        /\ line.type = "review_decision" /\ line.obj = o /\ line.outcome = verdict
    BY EventFields
  <1>8. ~Evidential(line) /\ line.type # "objective_result"
    BY <1>7 DEF Evidential
  <1>. HIDE DEF line, old, verdict, o
  <1>9. GoodLines(log', evidence)
    BY <1>1, <1>2, <1>6, <1>8, GoodLinesGrow
  <1>10. /\ after \in State /\ old.next <= after.next /\ old.next \in Nat
         /\ after.pending \subseteq old.pending
    BY <1>2, <1>4, <1>5 DEF Answered, Completes, Same, Stops
  <1>11. Accounts(after, log')
    <2>1. \A x \in after.pending : ~(old.review = "post_execution" /\ o = x)
      BY <1>5 DEF Answered, Completes, Same, Stops
    <2>2. \A x \in after.pending :
            old.review = "post_execution" /\ old.current = x
              => after.review = "post_execution" /\ after.current = x
      BY <2>1 DEF o
    <2>. QED
      BY <1>1, <1>2, <1>6, <1>8, <1>10, <2>2, AccountsGrow DEF IsResult
  <1>12. WellFounded(Noted(after), log', evidence)
    <2>1. ASSUME NEW x \in after.completed, x \notin old.completed
          PROVE  Earned(x, log', evidence)
      <3>1. x = o /\ verdict = "approved" /\ old.review = "post_execution"
        BY <2>1, <1>5 DEF Answered, Completes, Same, Stops
      <3>2. PICK i \in 1 .. Len(log) : /\ Reported(i, o, log, evidence)
                                       /\ log[i].outcome = "MANUAL_REVIEW"
        BY <1>2, <3>1 DEF WellFounded, o
      <3>3. Reported(i, o, log', evidence) /\ log'[i] = log[i]
        BY <1>1, <1>2, <1>6, <3>2, ReportedStays
      <3>4. /\ Len(log) \in Nat /\ Len(log') = Len(log) + 1
            /\ log'[Len(log) + 1] = line
        BY <1>1, <1>2, <1>6, Appended
      <3>5. Approves(log'[Len(log) + 1], o)
        BY <1>7, <3>1, <3>4 DEF Approves
      <3>6. i \in 1 .. Len(log') /\ Len(log) + 1 \in i + 1 .. Len(log')
        BY <3>4
      <3>. QED
        BY <3>1, <3>2, <3>3, <3>5, <3>6 DEF Earned
    <2>. QED
      BY <1>1, <1>2, <1>5, <1>6, <2>1, WellFoundedNoted DEF Answered
  <1>13. /\ Noted(after) \in State /\ Noted(after).status = after.status
         /\ Noted(after).completed = after.completed
         /\ Noted(after).pending = after.pending
         /\ Noted(after).stopped = after.stopped /\ Noted(after).rev = after.rev
    BY <1>2, <1>10, NotedFields
  <1>14. PICK r \in Process : /\ proc' = [proc EXCEPT ![p] = r]
                              /\ r.pc = "review_save" /\ r.st = Noted(after)
    <2>1. "review_save" \in PCs
      BY DEF PCs
    <2>. QED
      BY <1>1, <1>13, <2>1, GoesOn
  <1>15. Ahead(r, ckpt)
    <2>1. Answers(ckpt, Noted(after))
      BY <1>3, <1>5, <1>13 DEF Answers, Answered, Completes, Same, Stops, o
    <2>2. Noted(after).rev = ckpt.rev
      BY <1>3, <1>5, <1>13 DEF Answered
    <2>. QED
      BY <1>14, <2>1, <2>2 DEF Ahead, HoldingPCs
  <1>16. InHand(r, evidence) /\ Answering(r, ckpt, decision)
    BY <1>14 DEF InHand, Answering
  <1>17. /\ line.seq = old.events + 1 /\ line.prev = old.lastEvent
         /\ after.events = old.events /\ after.rev = old.rev
    BY <1>4, <1>5, <1>7 DEF Answered
  <1>. QED
    BY <1>1, <1>2, <1>6, <1>9, <1>10, <1>11, <1>12, <1>14, <1>15, <1>16, <1>17,
       LoggedStep DEF old

\* An operator stop: the event log is not verified first, so the command may
\* hold a stale state, and then so does the checkpoint it saves.
LEMMA OperatorEventSerial ==
  ASSUME IInv, SInv, NEW p \in Procs, OperatorEvent(p) PROVE SInv'
  <1>. DEFINE old == proc[p].st
              o == old.current
              pending == IF o = NoObjective THEN old.pending ELSE old.pending \ {o}
              stopped == IF o = NoObjective THEN old.stopped
                         ELSE old.stopped \union {o}
              s == [old EXCEPT !.operatorStop = TRUE, !.review = "none",
                      !.current = NoObjective, !.status = "stopped_by_operator",
                      !.pending = pending, !.stopped = stopped]
              line == Event(s, "operator_stop", NoObjective, 0, "stopped_by_operator")
  <1>1. /\ proc[p].pc = "operator_event"
        /\ UNCHANGED <<kind, ckpt, evidence, decision, crashes>>
    BY DEF OperatorEvent
  <1>2. /\ old \in State /\ log \in Seq(LogLine) /\ WellFounded(old, log, evidence)
        /\ UpToDate(old, log) /\ GoodLines(log, evidence)
        /\ Ahead(proc[p], ckpt)
    BY <1>1, InProgress DEF SerialFiles
  <1>3. /\ old = ckpt /\ ckpt.status \notin {"absent", "completed", "stopped_by_operator"}
    BY <1>1, <1>2 DEF Ahead, HoldingPCs
  <1>4. log' = Append(log, line) /\ Goto(p, "operator_save", Noted(s))
    BY <1>2 DEF OperatorEvent, Emit, State
  <1>5. pending \in SUBSET Objectives /\ stopped \in SUBSET Objectives
    BY <1>2 DEF State
  <1>. HIDE DEF pending, stopped
  <1>6. /\ s \in State /\ s.completed = old.completed /\ s.pending = pending
        /\ s.stopped = stopped /\ s.current = NoObjective /\ s.review = "none"
        /\ s.status = "stopped_by_operator" /\ s.next = old.next
        /\ s.events = old.events /\ s.lastEvent = old.lastEvent /\ s.rev = old.rev
    BY <1>2, <1>5, ZenonT(60) DEF State
  <1>. HIDE DEF s
  <1>7. line \in LogLine
    BY <1>6, EventIsLine DEF EventTypes
  <1>8. /\ line.seq = s.events + 1 /\ line.prev = s.lastEvent
        /\ line.type = "operator_stop"
    BY EventFields
  <1>9. ~Evidential(line) /\ line.type # "objective_result"
    BY <1>8 DEF Evidential
  <1>. HIDE DEF line, old, o
  <1>10. GoodLines(log', evidence)
    BY <1>2, <1>4, <1>7, <1>9, GoodLinesGrow
  <1>11. Matches(old, log) => Accounts(s, log')
    <2>. SUFFICES ASSUME Matches(old, log) PROVE Accounts(s, log')
      OBVIOUS
    <2>1. Accounts(old, log) /\ old.next <= s.next
      BY <1>2, <1>6 DEF UpToDate, State
    <2>2. s.pending \subseteq old.pending
      BY <1>6 DEF pending
    <2>3. \A x \in s.pending : old.current # x
      BY <1>6, CampaignAssumption, <1>2 DEF pending, o, State
    <2>. QED
      BY <1>2, <1>4, <1>6, <1>7, <1>9, <2>1, <2>2, <2>3, AccountsGrow DEF IsResult
  <1>12. WellFounded(Noted(s), log', evidence)
    BY <1>2, <1>4, <1>6, <1>7, WellFoundedNoted
  <1>13. PICK r \in Process : /\ proc' = [proc EXCEPT ![p] = r]
                              /\ r.pc = "operator_save" /\ r.st = Noted(s)
    <2>1. "operator_save" \in PCs /\ Noted(s) \in State
      BY <1>2, <1>6, NotedFields DEF PCs
    <2>. QED
      BY <1>4, <2>1, GoesOn
  <1>14. Ahead(r, ckpt)
    <2>1. /\ Noted(s).status = "stopped_by_operator" /\ Noted(s).rev = ckpt.rev
          /\ Noted(s).completed = ckpt.completed
          /\ Noted(s).pending = pending /\ Noted(s).stopped = stopped
      BY <1>2, <1>3, <1>6, NotedFields
    <2>2. OperatorStops(ckpt, Noted(s))
      BY <1>3, <2>1 DEF OperatorStops, Same, Stops, pending, stopped, o
    <2>. QED
      BY <1>13, <2>1, <2>2 DEF Ahead, HoldingPCs
  <1>15. InHand(r, evidence) /\ Answering(r, ckpt, decision)
    BY <1>13 DEF InHand, Answering
  <1>16. line.seq = old.events + 1 /\ line.prev = old.lastEvent
    BY <1>6, <1>8
  <1>17. r.pc \notin VerifiedPCs /\ r.pc # "idle"
    BY <1>13 DEF VerifiedPCs
  <1>. QED
    BY <1>1, <1>4, <1>6, <1>7, <1>10, <1>11, <1>12, <1>13, <1>14, <1>15, <1>16,
       <1>17, LoggedStep DEF old

-----------------------------------------------------------------------------
(* The theorems *)

\* Every step of the only command keeps the invariant.
LEMMA NextSerial == ASSUME Exclusive, IInv, SInv, [Next]_vars PROVE SInv'
  <1>1. ASSUME NEW p \in Procs, Continue(p) PROVE SInv'
    <2>1. CASE \E o \in Objectives : StepObjective(p, o)
      BY <2>1, StepObjectiveSerial
    <2>2. CASE \E answer \in {"allowed", "human", "denied"} :
                 EvaluateAndExecute(p, answer)
      BY <2>2, EvaluateSerial
    <2>. QED
      BY <1>1, <2>1, <2>2, VerifySerial, AnnounceSerial, SaveRunningSerial,
         WriteEvidenceSerial, RecordResultSerial, PauseEventSerial, SaveSerial,
         StopEventSerial, EndLoopSerial, CompleteCampaignSerial,
         ReviewCheckSerial, ReviewEventSerial, ReviewSaveSerial,
         OperatorEventSerial
         DEF Continue
  <1>2. ASSUME NEW p \in Procs,
               Start(p) \/ ReviewLoad(p) \/ OperatorLoad(p) \/ Crash(p)
        PROVE  SInv'
    BY <1>2, StartFreshSerial, LoadSerial, CrashSerial DEF Start
  <1>3. ASSUME NEW verdict \in ReviewVerdicts, WriteDecision(verdict) PROVE SInv'
    BY <1>3, WriteDecisionSerial
  <1>4. CASE UNCHANGED vars
    <2>1. UNCHANGED <<kind, ckpt, log, evidence, decision, proc, crashes>>
      BY <1>4 DEF vars
    <2>2. SerialFiles(ckpt, log, evidence)'
      BY <2>1 DEF SInv, SerialFiles, UpToDate, Accounts, Unsettled
    <2>3. \A q \in Procs : proc'[q].pc # "idle" =>
            SerialCommand(proc[q], ckpt, decision, log, evidence, crashes)'
      BY <2>1 DEF SInv, SerialCommand, UpToDate, Accounts, Unsettled, InHand
    <2>. QED
      BY <2>1, <2>2, <2>3 DEF SInv
  <1>. QED
    BY <1>1, <1>2, <1>3, <1>4 DEF Next

(***************************************************************************)
(* The invariant of one command at a time is inductive, whatever crashes.  *)
(***************************************************************************)
THEOREM SerialInvariant == ASSUME Exclusive PROVE Spec => []SInv
  <1>1. IInv /\ SInv /\ [Next]_vars => SInv'
    BY NextSerial
  <1>. QED
    BY <1>1, InitSerial, InductiveInvariant, PTL DEF Spec

(***************************************************************************)
(* A completed objective was run: its result, its manifest and, where one  *)
(* was asked for, its approval are on record.                              *)
(***************************************************************************)
THEOREM CompletionsAreEarned == ASSUME Exclusive PROVE Spec => []CompletionIsEarned
  <1>1. IInv /\ SInv => CompletionIsEarned
    <2>. SUFFICES ASSUME IInv, SInv, NEW o \in ckpt.completed
                  PROVE  \E i \in ResultLines :
                           /\ log[i].obj = o
                           /\ log[i].iter \in DOMAIN evidence
                           /\ evidence[log[i].iter] =
                                [obj |-> o, verdict |-> log[i].outcome]
                           /\ \/ log[i].outcome = "INCONCLUSIVE"
                              \/ /\ log[i].outcome = "MANUAL_REVIEW"
                                 /\ \E j \in i + 1 .. Len(log) :
                                      /\ log[j].type = "review_decision"
                                      /\ log[j].obj = o
                                      /\ log[j].outcome = "approved"
      BY DEF CompletionIsEarned
    <2>1. Earned(o, log, evidence)
      BY DEF SInv, SerialFiles, WellFounded
    <2>. QED
      BY <2>1 DEF Earned, Reported, IsResult, ResultLines, Approves
  <1>. QED
    BY <1>1, InductiveInvariant, SerialInvariant, PTL

(***************************************************************************)
(* A replayed iteration never leaves a line of the event log that names a  *)
(* missing manifest or another objective's.                                *)
(***************************************************************************)
THEOREM LogKeepsItsEvidence == ASSUME Exclusive PROVE Spec => []LogRefersToItsEvidence
  <1>1. SInv => LogRefersToItsEvidence
    BY DEF SInv, SerialFiles, GoodLines, Evidential, LogRefersToItsEvidence
  <1>. QED
    BY <1>1, SerialInvariant, PTL

(***************************************************************************)
(* No iteration number is spent on two results, killed and resumed or not. *)
(***************************************************************************)
THEOREM IterationsAreNotReused == ASSUME Exclusive PROVE Spec => []OneResultPerIteration
  <1>1. SInv => OneResultPerIteration
    BY DEF SInv, SerialFiles, GoodLines, ResultLines, OneResultPerIteration
  <1>. QED
    BY <1>1, SerialInvariant, PTL

(***************************************************************************)
(* Without a crash, the files agree whenever no command is running.        *)
(***************************************************************************)
THEOREM FilesAgreeAtRest == ASSUME Exclusive PROVE Spec => []QuiescentFilesAgree
  <1>1. SInv => QuiescentFilesAgree
    BY DEF SInv, SerialFiles, Matches, QuiescentFilesAgree, EventLogMatches, ChainIntact
  <1>. QED
    BY <1>1, SerialInvariant, PTL

-----------------------------------------------------------------------------
(* What one save, one line and one run may be *)

\* A run that takes up the campaign, or puts the next objective in hand.
Goes(c, s) ==
  /\ c.status \in Runnable \union {"absent"}
  /\ Same(c, s)
  /\ s.status = "running"

\* The checkpoint changes only by saving a state that is one step ahead of it.
LEMMA SavesAreSteps ==
  ASSUME IInv, SInv, [Next]_vars, ckpt' # ckpt
  PROVE  \E s \in State : /\ ckpt' = Revised(s)
                          /\ s.rev = ckpt.rev
                          /\ Goes(ckpt, s) \/ LeadsTo(ckpt, s)
  <1>1. ASSUME NEW p \in Procs, SaveRunning(p)
        PROVE  \E s \in State : /\ ckpt' = Revised(s) /\ s.rev = ckpt.rev
                                /\ Goes(ckpt, s)
    <2>. DEFINE old == proc[p].st
                s == [old EXCEPT !.status = "running"]
    <2>1. proc[p].pc = "save_running" /\ ckpt' = Revised(s)
      BY <1>1 DEF SaveRunning, Save
    <2>2. /\ old \in State /\ old.rev = ckpt.rev /\ Same(ckpt, old)
          /\ ckpt.status \in Runnable \union {"absent"}
      BY <2>1, InProgress DEF Ahead
    <2>3. /\ s \in State /\ s.status = "running" /\ s.rev = old.rev
          /\ s.completed = old.completed /\ s.pending = old.pending
          /\ s.stopped = old.stopped
      BY <2>2 DEF State
    <2>. HIDE DEF s, old
    <2>. QED
      BY <2>1, <2>2, <2>3 DEF Goes, Same
  <1>2. ASSUME NEW p \in Procs, NEW o \in Objectives, BeginObjective(p, o)
        PROVE  \E s \in State : /\ ckpt' = Revised(s) /\ s.rev = ckpt.rev
                                /\ Goes(ckpt, s)
    <2>. DEFINE s == [proc[p].st EXCEPT !.current = o]
    <2>1. Selected(p, o) /\ ckpt' = Revised(s)
      BY <1>2 DEF BeginObjective
    <2>2. proc[p].st = ckpt /\ ckpt \in State /\ ckpt.status = "running"
      BY <2>1, SelectedSerial
    <2>3. /\ s \in State /\ s.status = "running" /\ s.rev = ckpt.rev
          /\ s.completed = ckpt.completed /\ s.pending = ckpt.pending
          /\ s.stopped = ckpt.stopped
      BY <2>2 DEF State
    <2>. HIDE DEF s
    <2>. QED
      BY <2>1, <2>2, <2>3 DEF Goes, Same
  <1>3. ASSUME NEW p \in Procs,
               proc[p].pc \in {"step_save", "stop_save", "final_save",
                               "review_save", "operator_save", "finish"},
               ckpt' = Revised(proc[p].st)
        PROVE  \E s \in State : /\ ckpt' = Revised(s) /\ s.rev = ckpt.rev
                                /\ LeadsTo(ckpt, s)
    <2>. DEFINE s == proc[p].st
    <2>1. /\ s \in State /\ Ahead(proc[p], ckpt)
      BY <1>3, InProgress
    <2>2. s.rev = ckpt.rev /\ LeadsTo(ckpt, s)
      <3>1. s.rev = ckpt.rev
        BY <2>1 DEF Ahead
      <3>2. CASE proc[p].pc = "finish"
        <4>1. \/ s = ckpt /\ ckpt.status \notin {"absent", "completed"}
              \/ Advances(ckpt, s)
          BY <2>1, <3>2 DEF Ahead
        <4>. QED
          BY <3>1, <4>1 DEF LeadsTo, Repeats, Same
      <3>3. CASE proc[p].pc # "finish"
        BY <1>3, <2>1, <3>1, <3>3 DEF Ahead, LeadsTo
      <3>. QED
        BY <3>2, <3>3
    <2>. QED
      BY <1>3, <2>1, <2>2
  <1>4. ASSUME NEW p \in Procs, Continue(p)
        PROVE  \/ SaveRunning(p)
               \/ \E o \in Objectives : BeginObjective(p, o)
               \/ /\ proc[p].pc \in {"step_save", "stop_save", "final_save",
                                     "review_save", "operator_save", "finish"}
                  /\ ckpt' = Revised(proc[p].st)
    <2>1. CASE \E o \in Objectives : StepObjective(p, o)
      BY <2>1 DEF StepObjective, FuzzingStop, LockoutPause, BudgetStop, StopWithManifest
    <2>2. CASE \E answer \in {"allowed", "human", "denied"} :
                 EvaluateAndExecute(p, answer)
      BY <2>2 DEF EvaluateAndExecute
    <2>3. CASE StepSave(p) \/ StopSave(p) \/ FinalSave(p) \/ ReviewSave(p)
               \/ OperatorSave(p)
      BY <2>3 DEF StepSave, StopSave, FinalSave, ReviewSave, OperatorSave, Save
    <2>. QED
      BY <1>4, <2>1, <2>2, <2>3
         DEF Continue, Verify, Announce, WriteEvidence, RecordResult, PauseEvent,
             StopEvent, EndLoop, CompleteCampaign, ReviewCheck, ReviewEvent,
             OperatorEvent
  <1>5. PICK p \in Procs : Continue(p)
    BY DEF Next, vars, WriteDecision, Start, StartFresh, LoadForRun, ReviewLoad,
           OperatorLoad, Crash
  <1>. QED
    BY <1>1, <1>2, <1>3, <1>4, <1>5

\* Nothing is taken back by a save, and a halted campaign stays halted.
LEMMA StepsAreForward ==
  ASSUME NEW c \in State, NEW s \in State, Goes(c, s) \/ LeadsTo(c, s)
  PROVE  /\ c.completed \subseteq s.completed
         /\ c.stopped \subseteq s.stopped
         /\ c.status \in Halted =>
              \/ s.status = c.status
              \/ c.status # "completed" /\ s.status = "stopped_by_operator"
  <1>1. /\ c.completed \subseteq s.completed
        /\ c.stopped \subseteq s.stopped
    BY DEF Goes, LeadsTo, Repeats, Advances, Ends, Answers, OperatorStops,
           Same, Completes, Stops
  <1>2. c.status \in Halted =>
              \/ s.status = c.status
              \/ c.status # "completed" /\ s.status = "stopped_by_operator"
    BY DEF Goes, LeadsTo, Repeats, Advances, Ends, Answers, OperatorStops
  <1>. QED
    BY <1>1, <1>2

(***************************************************************************)
(* No save takes back what an earlier checkpoint called completed or       *)
(* stopped, and every save is of a new revision.                           *)
(***************************************************************************)
THEOREM DispositionsStay == ASSUME Exclusive PROVE Spec => DispositionsAreFinal
  <1>1. IInv /\ SInv /\ [Next]_vars =>
          [/\ ckpt.completed \subseteq ckpt'.completed
           /\ ckpt.stopped \subseteq ckpt'.stopped
           /\ ckpt.rev < ckpt'.rev]_ckpt
    <2>. SUFFICES ASSUME IInv, SInv, [Next]_vars, ckpt' # ckpt
                  PROVE  /\ ckpt.completed \subseteq ckpt'.completed
                         /\ ckpt.stopped \subseteq ckpt'.stopped
                         /\ ckpt.rev < ckpt'.rev
      OBVIOUS
    <2>1. PICK s \in State : /\ ckpt' = Revised(s) /\ s.rev = ckpt.rev
                             /\ Goes(ckpt, s) \/ LeadsTo(ckpt, s)
      BY SavesAreSteps
    <2>2. ckpt \in State /\ s.rev \in Nat
      BY DEF IInv, TypeOK, State
    <2>. QED
      BY <2>1, <2>2, StepsAreForward, RevisedFields
  <1>. QED
    BY <1>1, InductiveInvariant, SerialInvariant, PTL DEF Spec, DispositionsAreFinal

(***************************************************************************)
(* A halted campaign is never run again.                                   *)
(***************************************************************************)
THEOREM HaltsAreFinal == ASSUME Exclusive PROVE Spec => HaltIsFinal
  <1>1. IInv /\ SInv /\ [Next]_vars =>
          [ckpt.status \in Halted =>
             \/ ckpt'.status = ckpt.status
             \/ ckpt.status # "completed" /\ ckpt'.status = "stopped_by_operator"]_ckpt
    <2>. SUFFICES ASSUME IInv, SInv, [Next]_vars, ckpt' # ckpt, ckpt.status \in Halted
                  PROVE  \/ ckpt'.status = ckpt.status
                         \/ /\ ckpt.status # "completed"
                            /\ ckpt'.status = "stopped_by_operator"
      OBVIOUS
    <2>1. PICK s \in State : /\ ckpt' = Revised(s) /\ s.rev = ckpt.rev
                             /\ Goes(ckpt, s) \/ LeadsTo(ckpt, s)
      BY SavesAreSteps
    <2>2. ckpt \in State
      BY DEF IInv, TypeOK
    <2>3. ckpt'.status = s.status
      BY <2>1, RevisedFields
    <2>. QED
      BY <2>1, <2>2, <2>3, StepsAreForward
  <1>. QED
    BY <1>1, InductiveInvariant, SerialInvariant, PTL DEF Spec, HaltIsFinal

\* Every line but an answer is written by a step that writes no answer.
LEMMA AnswersAreReviewEvents ==
  ASSUME IInv, [Next]_vars, NEW i \in Len(log) + 1 .. Len(log'),
         log'[i].type = "review_decision"
  PROVE  \E p \in Procs : ReviewEvent(p)
  <1>. DEFINE Silent == log' = log
              Other == \E s, type, obj, iter, outcome :
                         type # "review_decision" /\ Emit(s, type, obj, iter, outcome)
  <1>1. log \in Seq(LogLine) /\ Len(log) \in Nat
    BY DEF IInv, TypeOK
  <1>2. ~Silent
    BY <1>1
  <1>3. ~Other
    <2>. SUFFICES ASSUME NEW s, NEW type, NEW obj, NEW iter, NEW outcome,
                         type # "review_decision",
                         Emit(s, type, obj, iter, outcome)
                  PROVE  FALSE
      OBVIOUS
    <2>. DEFINE line == Event(s, type, obj, iter, outcome)
    <2>1. log' = Append(log, line)
      BY DEF Emit
    <2>2. line.type = type
      BY EventFields
    <2>. HIDE DEF line
    <2>3. Len(log') = Len(log) + 1 /\ log'[Len(log) + 1] = line
      BY <1>1, <2>1
    <2>4. i = Len(log) + 1
      BY <1>1, <2>3
    <2>. QED
      BY <2>2, <2>3, <2>4
  <1>4. PICK p \in Procs : Continue(p)
    BY <1>2 DEF Next, vars, WriteDecision, Start, StartFresh, LoadForRun, ReviewLoad,
                OperatorLoad, Crash
  <1>5. \/ Announce(p) \/ RecordResult(p) \/ PauseEvent(p) \/ StopEvent(p)
        \/ CompleteCampaign(p) \/ OperatorEvent(p) \/ ReviewEvent(p)
    <2>1. CASE \E o \in Objectives : StepObjective(p, o)
      BY <1>2, <2>1 DEF StepObjective, FuzzingStop, LockoutPause, BudgetStop,
                        BeginObjective, StopWithManifest
    <2>2. CASE \E answer \in {"allowed", "human", "denied"} :
                 EvaluateAndExecute(p, answer)
      BY <1>2, <2>2 DEF EvaluateAndExecute
    <2>. QED
      BY <1>2, <1>4, <2>1, <2>2
         DEF Continue, Verify, SaveRunning, WriteEvidence, StepSave, StopSave,
             EndLoop, FinalSave, ReviewCheck, ReviewSave, OperatorSave
  <1>6. ASSUME Announce(p) PROVE Other
    <2>. DEFINE s == proc[p].st
                type == IF s.events = 0 THEN "campaign_started" ELSE "campaign_resumed"
                outcome == IF s.events = 0 THEN "planned" ELSE "running"
    <2>1. Emit(s, type, NoObjective, 0, outcome) /\ type # "review_decision"
      BY <1>6 DEF Announce
    <2>. QED
      BY <2>1
  <1>7. ASSUME RecordResult(p) PROVE Other
    <2>1. Emit(proc[p].st, "objective_result", proc[p].obj, proc[p].st.next, Outcome(p))
      BY <1>7 DEF RecordResult
    <2>. QED
      BY <2>1
  <1>8. ASSUME PauseEvent(p) PROVE Other
    <2>1. Emit(proc[p].st, "campaign_paused", proc[p].st.current,
               proc[p].st.next - 1, "paused_for_human_review")
      BY <1>8 DEF PauseEvent
    <2>. QED
      BY <2>1
  <1>9. ASSUME StopEvent(p) PROVE Other
    <2>. DEFINE type == IF proc[p].result = "lockout" THEN "campaign_paused"
                        ELSE "campaign_stop"
    <2>1. type # "review_decision"
      OBVIOUS
    <2>2. \E outcome : Emit(proc[p].st, type, proc[p].obj, proc[p].st.next, outcome)
      BY <1>9 DEF StopEvent
    <2>. HIDE DEF type
    <2>. QED
      BY <2>1, <2>2
  <1>10. ASSUME CompleteCampaign(p) PROVE Other
    <2>1. Emit([proc[p].st EXCEPT !.status = "completed", !.current = NoObjective],
               "campaign_completed", NoObjective, 0, "completed")
      BY <1>10 DEF CompleteCampaign
    <2>. QED
      BY <2>1
  <1>11. ASSUME OperatorEvent(p) PROVE Other
    <2>1. \E s, obj : Emit(s, "operator_stop", obj, 0, "stopped_by_operator")
      BY <1>11 DEF OperatorEvent
    <2>. QED
      BY <2>1
  <1>. HIDE DEF Other
  <1>. QED
    BY <1>3, <1>5, <1>6, <1>7, <1>8, <1>9, <1>10, <1>11

(***************************************************************************)
(* A logged answer is the one the operator gave to the checkpoint that is  *)
(* being answered.                                                         *)
(***************************************************************************)
THEOREM AnswersAreFresh == ASSUME Exclusive PROVE Spec => DecisionsBindToTheirCheckpoint
  <1>1. IInv /\ SInv /\ [Next]_vars =>
          [\A i \in Len(log) + 1 .. Len(log') :
             log'[i].type = "review_decision" =>
               /\ decision.digest = ckpt
               /\ log'[i].outcome = decision.verdict
               /\ log'[i].obj = ckpt.current]_log
    <2>. SUFFICES ASSUME IInv, SInv, [Next]_vars,
                         NEW i \in Len(log) + 1 .. Len(log'),
                         log'[i].type = "review_decision"
                  PROVE  /\ decision.digest = ckpt
                         /\ log'[i].outcome = decision.verdict
                         /\ log'[i].obj = ckpt.current
      OBVIOUS
    <2>1. PICK p \in Procs : ReviewEvent(p)
      BY AnswersAreReviewEvents
    <2>2. /\ proc[p].st = ckpt /\ decision.digest = ckpt
          /\ proc[p].result = decision.verdict /\ log \in Seq(LogLine)
      BY <2>1, InProgress DEF ReviewEvent, Ahead, HoldingPCs, Answering
    <2>. DEFINE s == [proc[p].st EXCEPT !.review = "none"]
                line == Event(s, "review_decision", proc[p].st.current, s.next - 1,
                              proc[p].result)
    <2>3. log' = Append(log, line)
      BY <2>1 DEF ReviewEvent, Emit
    <2>. HIDE DEF s
    <2>4. line.outcome = proc[p].result /\ line.obj = proc[p].st.current
      BY EventFields
    <2>. HIDE DEF line
    <2>5. Len(log) \in Nat /\ Len(log') = Len(log) + 1 /\ log'[Len(log) + 1] = line
      BY <2>2, <2>3
    <2>6. i = Len(log) + 1
      BY <2>5
    <2>. QED
      BY <2>2, <2>4, <2>5, <2>6
  <1>. QED
    BY <1>1, InductiveInvariant, SerialInvariant, PTL
       DEF Spec, DecisionsBindToTheirCheckpoint

(***************************************************************************)
(* An adapter whose result is on record does not run again, unless the     *)
(* result only asked for the approval that has since been given.           *)
(***************************************************************************)
THEOREM RecordedRunsStay == ASSUME Exclusive PROVE Spec => RecordedRunsAreNotRepeated
  <1>1. IInv /\ SInv /\ [Next]_vars =>
          [\A o \in Objectives : executed'[o] # executed[o] =>
             \A i \in ResultLines :
               log[i].obj = o => \/ log[i].outcome = "MANUAL_REVIEW"
                                  /\ kind[o] = "needs_approval"]_executed
    <2>. SUFFICES ASSUME IInv, SInv, [Next]_vars, NEW o \in Objectives,
                         executed'[o] # executed[o],
                         NEW i \in ResultLines, log[i].obj = o
                  PROVE  log[i].outcome = "MANUAL_REVIEW" /\ kind[o] = "needs_approval"
      OBVIOUS
    <2>1. PICK p \in Procs, answer \in {"allowed", "human", "denied"} :
            EvaluateAndExecute(p, answer)
      <3>1. PICK p \in Procs : Continue(p)
        BY DEF Next, vars, WriteDecision, Start, StartFresh, LoadForRun, ReviewLoad,
               OperatorLoad, Crash
      <3>2. ~\E x \in Objectives : StepObjective(p, x)
        BY DEF StepObjective, FuzzingStop, LockoutPause, BudgetStop,
               BeginObjective, StopWithManifest
      <3>. QED
        BY <3>1, <3>2
           DEF Continue, Verify, Announce, SaveRunning, WriteEvidence, RecordResult,
               PauseEvent, StepSave, StopEvent, StopSave, EndLoop, CompleteCampaign,
               FinalSave, ReviewCheck, ReviewEvent, ReviewSave, OperatorEvent,
               OperatorSave
    <2>2. proc[p].pc = "gate" /\ proc[p].obj = o
      BY <2>1 DEF EvaluateAndExecute, IInv, TypeOK
    <2>3. /\ Accounts(proc[p].st, log) /\ GoodProcess(proc[p], log)
          /\ GoodState(proc[p].st, log) /\ IsNext(proc[p].st, o)
      BY <2>2, InProgress DEF VerifiedPCs, InHand
    <2>4. proc[p].st.review = "none" /\ o \in proc[p].st.pending
      BY <2>2, <2>3 DEF GoodProcess, GoodState, IsNext
    <2>5. Unsettled(proc[p].st, o, log[i])
      BY <2>3, <2>4 DEF Accounts, ResultLines, IsResult
    <2>. QED
      BY <2>4, <2>5 DEF Unsettled
  <1>. QED
    BY <1>1, InductiveInvariant, SerialInvariant, PTL
       DEF Spec, RecordedRunsAreNotRepeated

-----------------------------------------------------------------------------
(* Runs of an adapter are counted against the commands that were killed *)

\* A campaign that goes on from s will run the adapter of o, again or for the
\* first time: s is what the event log says and has o neither settled nor
\* waiting for the review of its run.
ComesTo(s, lines, o) ==
  /\ Matches(s, lines)
  /\ o \in s.pending
  /\ ~(s.review = "post_execution" /\ s.current = o)

\* The command has run the adapter of o and not yet said so in the event log.
HasRun(r, o) == r.pc \in {"manifest", "result"} /\ r.result = "allowed" /\ r.obj = o

\* Every run of an adapter the campaign may still come to was followed by a kill.
EInv ==
  /\ OnlyCrashesRepeatRuns
  /\ \A p \in Procs, o \in Objectives :
       proc[p].pc # "idle" /\ ComesTo(proc[p].st, log, o)
         => executed[o] <= crashes \/ HasRun(proc[p], o)
  /\ (\A p \in Procs : proc[p].pc = "idle") =>
       \A o \in Objectives : ComesTo(ckpt, log, o) => executed[o] <= crashes

\* What a command leaves behind: what it holds, or the checkpoint once it ended.
Held(r, c) == IF r.pc = "idle" THEN c ELSE r.st

\* A step that runs no adapter, from what it leaves behind.
LEMMA CountIsKept ==
  ASSUME IInv, EInv, UNCHANGED <<executed, crashes>>,
         NEW p \in Procs, \A q \in Procs \ {p} : proc'[q].pc = "idle",
         \A o \in Objectives : ComesTo(Held(proc'[p], ckpt'), log', o)
           => executed[o] <= crashes \/ HasRun(proc'[p], o)
  PROVE  EInv'
  <1>1. OnlyCrashesRepeatRuns'
    BY DEF EInv, OnlyCrashesRepeatRuns
  <1>2. ASSUME NEW q \in Procs, NEW o \in Objectives,
               proc'[q].pc # "idle", ComesTo(proc'[q].st, log', o)
        PROVE  executed'[o] <= crashes' \/ HasRun(proc'[q], o)
    <2>1. q = p
      BY <1>2
    <2>. QED
      BY <1>2, <2>1 DEF Held
  <1>3. ASSUME \A q \in Procs : proc'[q].pc = "idle",
               NEW o \in Objectives, ComesTo(ckpt', log', o)
        PROVE  executed'[o] <= crashes'
    BY <1>3 DEF Held, HasRun
  <1>4. \A s, lines, o : ComesTo(s, lines, o)' <=> ComesTo(s', lines', o)
    BY DEF ComesTo, Matches
  <1>. QED
    BY <1>1, <1>2, <1>3 DEF EInv, ComesTo, Matches, HasRun

\* The two states come to the same objectives.
Likewise(s, t) ==
  /\ t.pending = s.pending
  /\ t.events = s.events
  /\ t.lastEvent = s.lastEvent
  /\ t.review = s.review
  /\ s.review = "post_execution" => t.current = s.current

\* What the second invariant says of the command in progress.
LEMMA CountInProgress ==
  ASSUME EInv, NEW p \in Procs, proc[p].pc # "idle", NEW o \in Objectives,
         ComesTo(proc[p].st, log, o), ~HasRun(proc[p], o)
  PROVE  executed[o] <= crashes
  BY DEF EInv

\* A step of a command that logs nothing and runs nothing.
LEMMA SilentCount ==
  ASSUME IInv, SInv, EInv, UNCHANGED <<log, executed, crashes>>,
         NEW p \in Procs, Continue(p),
         proc[p].pc \notin {"idle", "manifest", "result"},
         Likewise(proc[p].st, Held(proc'[p], ckpt'))
  PROVE  EInv'
  <1>1. \A q \in Procs \ {p} : proc'[q].pc = "idle"
    BY OthersStay, OthersAreIdle
  <1>2. ASSUME NEW o \in Objectives, ComesTo(Held(proc'[p], ckpt'), log', o)
        PROVE  executed[o] <= crashes
    <2>1. ComesTo(proc[p].st, log, o)
      BY <1>2 DEF Likewise, ComesTo, Matches
    <2>. QED
      BY <2>1, CountInProgress DEF HasRun
  <1>. QED
    BY <1>1, <1>2, CountIsKept

\* A step of a command that logs an event: it does not add to what the state
\* in hand comes to, and no longer comes to what it has just run.
LEMMA LoggedCount ==
  ASSUME IInv, SInv, EInv, UNCHANGED <<executed, crashes>>,
         NEW p \in Procs, Continue(p), proc[p].pc # "idle",
         proc'[p].pc # "idle",
         Matches(proc'[p].st, log') => Matches(proc[p].st, log),
         \A o \in Objectives :
           o \in proc'[p].st.pending
             /\ ~(proc'[p].st.review = "post_execution" /\ proc'[p].st.current = o)
           => /\ o \in proc[p].st.pending
              /\ ~(proc[p].st.review = "post_execution" /\ proc[p].st.current = o)
              /\ ~HasRun(proc[p], o)
  PROVE  EInv'
  <1>1. \A q \in Procs \ {p} : proc'[q].pc = "idle"
    BY OthersStay, OthersAreIdle
  <1>2. ASSUME NEW o \in Objectives, ComesTo(Held(proc'[p], ckpt'), log', o)
        PROVE  executed[o] <= crashes
    <2>1. ComesTo(proc[p].st, log, o) /\ ~HasRun(proc[p], o)
      BY <1>2 DEF Held, ComesTo
    <2>. QED
      BY <2>1, CountInProgress
  <1>. QED
    BY <1>1, <1>2, CountIsKept

\* Nothing has run before the first command.
LEMMA InitCount == Init => EInv
  BY DEF Init, Idle, EInv, OnlyCrashesRepeatRuns, HasRun

\* A command takes up the checkpoint, or the state every campaign begins with.
LEMMA LaunchCount ==
  ASSUME Exclusive, IInv, SInv, EInv, NEW p \in Procs,
         Start(p) \/ ReviewLoad(p) \/ OperatorLoad(p)
  PROVE  EInv'
  <1>1. /\ proc \in [Procs -> Process]
        /\ \A q \in Procs : proc[q].pc = "idle"
        /\ UNCHANGED <<ckpt, log, executed, crashes>>
    <2>1. proc \in [Procs -> Process]
      BY DEF IInv, TypeOK
    <2>2. Launch(p) /\ UNCHANGED <<ckpt, log, executed, crashes>>
      <3>1. CASE StartFresh(p) \/ LoadForRun(p)
        BY <3>1, Zenon DEF StartFresh, LoadForRun
      <3>2. CASE ReviewLoad(p) \/ OperatorLoad(p)
        BY <3>2 DEF ReviewLoad, OperatorLoad
      <3>. QED
        BY <3>1, <3>2 DEF Start
    <2>. QED
      BY <2>1, <2>2, LaunchedAlone
  <1>2. \A q \in Procs \ {p} : proc'[q].pc = "idle"
    <2>1. CASE StartFresh(p) \/ LoadForRun(p)
      BY <1>1, <2>1, Zenon DEF StartFresh, LoadForRun
    <2>2. CASE ReviewLoad(p) \/ OperatorLoad(p)
      BY <1>1, <2>2 DEF ReviewLoad, OperatorLoad, Goto
    <2>. QED
      BY <2>1, <2>2 DEF Start
  <1>3. \A o \in Objectives : ComesTo(ckpt, log, o) => executed[o] <= crashes
    BY <1>1 DEF EInv
  <1>4. Likewise(ckpt, Held(proc'[p], ckpt'))
    <2>1. CASE StartFresh(p)
      <3>1. ckpt = NoFile
        BY <2>1 DEF StartFresh, SInv, SerialFiles
      <3>2. proc'[p].st = InitialState("planned")
        BY <1>1, <2>1 DEF StartFresh, Idle
      <3>. QED
        BY <1>1, <3>1, <3>2 DEF Likewise, Held, NoFile, InitialState
    <2>2. CASE LoadForRun(p)
      <3>1. proc'[p].st = ckpt
        BY <1>1, <2>2 DEF LoadForRun, Idle
      <3>. QED
        BY <1>1, <3>1 DEF Likewise, Held
    <2>3. CASE ReviewLoad(p) \/ OperatorLoad(p)
      <3>1. proc'[p].st = ckpt
        BY <1>1, <2>3 DEF ReviewLoad, OperatorLoad, Goto, Process
      <3>. QED
        BY <1>1, <3>1 DEF Likewise, Held
    <2>. QED
      BY <2>1, <2>2, <2>3 DEF Start
  <1>5. \A o \in Objectives :
          ComesTo(Held(proc'[p], ckpt'), log', o) => executed[o] <= crashes
    BY <1>1, <1>3, <1>4 DEF Likewise, ComesTo, Matches
  <1>. QED
    BY <1>1, <1>2, <1>5, CountIsKept

\* The steps that only move on, or save what the command holds.
LEMMA SilentStepsCount ==
  ASSUME IInv, SInv, EInv, NEW p \in Procs, Continue(p),
         \/ Verify(p) \/ SaveRunning(p) \/ StepSave(p) \/ StopSave(p) \/ EndLoop(p)
         \/ FinalSave(p) \/ ReviewCheck(p) \/ ReviewSave(p) \/ OperatorSave(p)
         \/ \E o \in Objectives : StepObjective(p, o)
  PROVE  EInv'
  <1>1. proc[p] \in Process /\ proc \in [Procs -> Process]
    BY DEF IInv, TypeOK
  <1>2. proc[p].st \in State
    BY <1>1 DEF Process
  <1>3. Likewise(proc[p].st, proc[p].st) /\ Likewise(proc[p].st, Revised(proc[p].st))
    BY <1>2, RevisedFields DEF Likewise
  <1>4. \A pc, s : Goto(p, pc, s) => proc'[p].pc = pc /\ proc'[p].st = s
    BY <1>1 DEF Goto, Process
  <1>5. Exit(p) => proc'[p].pc = "idle"
    BY <1>1 DEF Exit, Idle
  <1>6. CASE Verify(p) \/ ReviewCheck(p)
    <2>1. /\ proc[p].pc \in {"verify", "review_check"}
          /\ UNCHANGED <<ckpt, log, executed, crashes>>
          /\ proc'[p].pc = "idle" \/ proc'[p].st = proc[p].st
      BY <1>1, <1>4, <1>5, <1>6 DEF Verify, ReviewCheck, Process
    <2>2. proc[p].st = ckpt
      BY <2>1, InProgress DEF Ahead, HoldingPCs
    <2>3. Likewise(proc[p].st, Held(proc'[p], ckpt'))
      BY <1>3, <2>1, <2>2 DEF Held
    <2>. QED
      BY <2>1, <2>3, SilentCount
  <1>7. CASE SaveRunning(p)
    <2>. DEFINE s == [proc[p].st EXCEPT !.status = "running"]
    <2>1. /\ proc[p].pc = "save_running" /\ Goto(p, "loop", Revised(s))
          /\ UNCHANGED <<log, executed, crashes>>
      BY <1>7 DEF SaveRunning, Save
    <2>2. s \in State /\ Likewise(proc[p].st, s)
      BY <1>2 DEF State, Likewise
    <2>. HIDE DEF s
    <2>3. Likewise(proc[p].st, Revised(s))
      BY <2>2, RevisedFields DEF Likewise
    <2>4. Held(proc'[p], ckpt') = Revised(s)
      BY <1>4, <2>1 DEF Held
    <2>. QED
      BY <2>1, <2>3, <2>4, SilentCount
  <1>8. CASE StepSave(p) \/ StopSave(p) \/ EndLoop(p)
    <2>1. /\ proc[p].pc \in {"step_save", "stop_save", "loop"}
          /\ UNCHANGED <<log, executed, crashes>>
          /\ proc'[p].pc # "idle"
          /\ proc'[p].st \in {proc[p].st, Revised(proc[p].st)}
      BY <1>4, <1>8 DEF StepSave, StopSave, EndLoop, Save
    <2>2. Likewise(proc[p].st, Held(proc'[p], ckpt'))
      BY <1>3, <2>1 DEF Held
    <2>. QED
      BY <2>1, <2>2, SilentCount
  <1>9. CASE FinalSave(p) \/ OperatorSave(p)
    <2>1. /\ proc[p].pc \in {"finish", "final_save", "operator_save"}
          /\ UNCHANGED <<log, executed, crashes>>
          /\ proc'[p].pc = "idle" /\ ckpt' = Revised(proc[p].st)
      BY <1>5, <1>9 DEF FinalSave, OperatorSave
    <2>2. Likewise(proc[p].st, Held(proc'[p], ckpt'))
      BY <1>3, <2>1 DEF Held
    <2>. QED
      BY <2>1, <2>2, SilentCount
  <1>10. CASE ReviewSave(p)
    <2>. DEFINE s == Revised(proc[p].st)
                Run(live) == [Idle EXCEPT !.pc = "verify", !.st = s, !.live = live]
    <2>1. /\ proc[p].pc = "review_save" /\ ckpt' = s
          /\ UNCHANGED <<log, executed, crashes>>
      BY <1>10, Zenon DEF ReviewSave
    <2>5. \/ Exit(p)
          \/ \E live \in LiveModes : proc' = [proc EXCEPT ![p] = Run(live)]
      BY <1>10, Zenon DEF ReviewSave
    <2>2. \A live : Run(live).st = s
      BY DEF Idle
    <2>. HIDE DEF Run
    <2>3. proc'[p].pc = "idle" \/ proc'[p].st = s
      BY <1>1, <1>5, <2>5, <2>2
    <2>4. Likewise(proc[p].st, Held(proc'[p], ckpt'))
      BY <1>3, <2>1, <2>3 DEF Held
    <2>. QED
      BY <2>1, <2>4, SilentCount
  <1>11. ASSUME NEW o \in Objectives, StepObjective(p, o) PROVE EInv'
    <2>1. /\ proc[p].pc = "loop" /\ UNCHANGED <<log, executed, crashes>>
      <3>1. CASE BeginObjective(p, o)
        BY <3>1 DEF BeginObjective, Selected
      <3>2. CASE FuzzingStop(p, o) \/ LockoutPause(p, o)
        BY <3>2 DEF FuzzingStop, LockoutPause, StopWithManifest, Selected
      <3>3. ASSUME NEW late \in BOOLEAN, BudgetStop(p, o, late)
            PROVE  proc[p].pc = "loop" /\ UNCHANGED <<log, executed, crashes>>
        BY <3>3 DEF BudgetStop, StopWithManifest, Selected
      <3>. QED
        BY <1>11, <3>1, <3>2, <3>3 DEF StepObjective
    <2>2. proc[p].st.review = "none"
      BY <2>1, InProgress DEF GoodProcess, GoodState
    <2>3. CASE BeginObjective(p, o)
      <3>. DEFINE s == [proc[p].st EXCEPT !.current = o]
      <3>1. proc'[p].pc = "gate" /\ proc'[p].st = Revised(s)
        BY <1>1, <2>3 DEF BeginObjective, Process
      <3>2. s \in State /\ Likewise(proc[p].st, s)
        BY <1>2, <2>2 DEF State, Likewise
      <3>. HIDE DEF s
      <3>3. Likewise(proc[p].st, Held(proc'[p], ckpt'))
        BY <2>2, <3>1, <3>2, RevisedFields DEF Likewise, Held
      <3>. QED
        BY <2>1, <3>3, SilentCount
    <2>4. ASSUME NEW reason, NEW verdict, StopWithManifest(p, o, reason, verdict)
          PROVE  EInv'
      <3>1. proc'[p].pc = "stop_event" /\ proc'[p].st = proc[p].st
        BY <1>1, <2>4 DEF StopWithManifest, Process
      <3>2. Likewise(proc[p].st, Held(proc'[p], ckpt'))
        BY <1>3, <3>1 DEF Held
      <3>. QED
        BY <2>1, <3>2, SilentCount
    <2>. QED
      BY <1>11, <2>3, <2>4 DEF StepObjective, FuzzingStop, LockoutPause, BudgetStop
  <1>. QED
    BY <1>6, <1>7, <1>8, <1>9, <1>10, <1>11

\* A step that logs leaves the objectives that are settled already alone.
LEMMA LoggingStepsCount ==
  ASSUME IInv, SInv, EInv, NEW p \in Procs, Continue(p),
         Announce(p) \/ PauseEvent(p) \/ CompleteCampaign(p) \/ StopEvent(p)
  PROVE  EInv'
  <1>1. proc[p] \in Process /\ proc \in [Procs -> Process] /\ log \in Seq(LogLine)
    BY DEF IInv, TypeOK
  <1>2. proc[p].st \in State
    BY <1>1 DEF Process
  <1>3. \A pc, s : Goto(p, pc, s) => proc'[p].pc = pc /\ proc'[p].st = s
    BY <1>1 DEF Goto, Process
  <1>4. /\ proc[p].pc \in {"announce", "pause_event", "finish", "stop_event"}
        /\ UNCHANGED <<executed, crashes>>
    BY DEF Announce, PauseEvent, CompleteCampaign, StopEvent
  <1>5. Matches(proc[p].st, log) /\ ~ \E o : HasRun(proc[p], o)
    BY <1>4, InProgress DEF VerifiedPCs, HasRun
  <1>6. CASE Announce(p) \/ PauseEvent(p)
    <2>1. proc'[p].pc # "idle" /\ proc'[p].st = Noted(proc[p].st)
      BY <1>3, <1>6 DEF Announce, PauseEvent
    <2>. QED
      BY <1>1, <1>2, <1>4, <1>5, <2>1, NotedFields, LoggedCount
  <1>7. CASE CompleteCampaign(p)
    <2>. DEFINE s == [proc[p].st EXCEPT !.status = "completed", !.current = NoObjective]
    <2>1. /\ proc'[p].pc # "idle" /\ proc'[p].st = Noted(s)
          /\ proc[p].st.status = "running"
      BY <1>3, <1>7 DEF CompleteCampaign, AllDone
    <2>2. proc[p].st.review = "none"
      BY <1>4, <2>1, InProgress DEF GoodState
    <2>3. "pending" \in DOMAIN s /\ s.pending = proc[p].st.pending
      BY <1>2 DEF State
    <2>. HIDE DEF s
    <2>4. proc'[p].st.pending = proc[p].st.pending
      BY <2>1, <2>3 DEF Noted
    <2>. QED
      BY <1>4, <1>5, <2>1, <2>2, <2>4, LoggedCount
  <1>8. CASE StopEvent(p)
    <2>. DEFINE o == proc[p].obj
                why == proc[p].result
                s == [proc[p].st EXCEPT !.next = @ + 1]
                after ==
                  CASE why = "lockout" -> Paused(s, o, "pre_execution")
                    [] why = "fuzz_stop" ->
                         [Stop(s, o) EXCEPT !.status = "stopped_by_condition"]
                    [] why = "operator_stop" ->
                         [Stop(s, o) EXCEPT !.status = "stopped_by_operator"]
                    [] OTHER -> [Stop(s, o) EXCEPT !.status = "stopped_by_budget"]
    <2>1. /\ proc[p].pc = "stop_event"
          /\ proc'[p].pc # "idle" /\ proc'[p].st = Noted(after)
      BY <1>3, <1>8 DEF StopEvent
    <2>2. proc[p].st.review = "none"
      BY <2>1, InHandSerial
    <2>3. "pending" \in DOMAIN s /\ s.pending = proc[p].st.pending
      BY <1>2 DEF State
    <2>. HIDE DEF s
    <2>4. "pending" \in DOMAIN after /\ after.pending \subseteq s.pending
      <3>1. \A phase : /\ "pending" \in DOMAIN Paused(s, o, phase)
                       /\ Paused(s, o, phase).pending = s.pending
        BY <2>3 DEF Paused
      <3>2. "pending" \in DOMAIN Stop(s, o) /\ Stop(s, o).pending = s.pending \ {o}
        BY <2>3 DEF Stop
      <3>. DEFINE u == Stop(s, o)
      <3>. HIDE DEF u
      <3>3. \A status : /\ "pending" \in DOMAIN [u EXCEPT !.status = status]
                        /\ [u EXCEPT !.status = status].pending = s.pending \ {o}
        BY <3>2 DEF u
      <3>. QED
        BY <3>1, <3>3 DEF u
    <2>. HIDE DEF after
    <2>5. proc'[p].st.pending \subseteq proc[p].st.pending
      BY <2>1, <2>3, <2>4 DEF Noted
    <2>. QED
      BY <1>4, <1>5, <2>1, <2>2, <2>5, LoggedCount
  <1>. QED
    BY <1>6, <1>7, <1>8

\* A result that is logged settles the objective that was run, or leaves it
\* waiting for the review of that run.
LEMMA RecordResultCount ==
  ASSUME IInv, SInv, EInv, NEW p \in Procs, RecordResult(p)
  PROVE  EInv'
  <1>. DEFINE o == proc[p].obj
              s == Charged(p)
              settled ==
                CASE proc[p].result = "human" -> Paused(s, o, "pre_execution")
                  [] proc[p].result = "denied" ->
                       [Stop(s, o) EXCEPT !.status = "stopped_by_policy"]
                  [] Outcome(p) = "MANUAL_REVIEW" /\ proc[p].result = "allowed" ->
                       Paused(s, o, "post_execution")
                  [] OTHER -> Complete(s, o)
  <1>1. proc[p] \in Process /\ proc \in [Procs -> Process]
    BY DEF IInv, TypeOK
  <1>2. /\ proc[p].pc = "result" /\ UNCHANGED <<executed, crashes>>
        /\ proc'[p].st = Noted(settled)
        /\ proc'[p].pc # "idle"
    BY <1>1 DEF RecordResult, Process
  <1>3. /\ proc[p].st \in State /\ proc[p].st.review = "none"
        /\ proc[p].st.status = "running"
        /\ proc[p].result \in {"allowed", "human", "denied"}
        /\ Matches(proc[p].st, log)
    BY <1>2, InHandSerial, InProgress DEF InHand, VerifiedPCs
  <1>4. s \in State /\ s.pending = proc[p].st.pending /\ s.review = "none"
    BY <1>3, ChargedIsSpent DEF Spent, Same
  <1>. HIDE DEF s
  <1>5. /\ "pending" \in DOMAIN settled /\ "review" \in DOMAIN settled
        /\ "current" \in DOMAIN settled
        /\ settled.pending \subseteq s.pending
        /\ proc[p].result = "allowed" /\ o \in settled.pending =>
             settled.review = "post_execution" /\ settled.current = o
    <2>1. \A phase : /\ {"pending", "review", "current"} \subseteq DOMAIN Paused(s, o, phase)
                     /\ Paused(s, o, phase).pending = s.pending
                     /\ Paused(s, o, phase).review = phase
                     /\ Paused(s, o, phase).current = o
      BY <1>4 DEF Paused, State
    <2>2. /\ {"pending", "review", "current"} \subseteq DOMAIN Complete(s, o)
          /\ Complete(s, o).pending = s.pending \ {o}
      BY <1>4 DEF Complete, State
    <2>3. /\ {"pending", "review", "current"} \subseteq
               DOMAIN [Stop(s, o) EXCEPT !.status = "stopped_by_policy"]
          /\ [Stop(s, o) EXCEPT !.status = "stopped_by_policy"].pending = s.pending \ {o}
      BY <1>4 DEF Stop, State
    <2>. HIDE DEF o
    <2>4. CASE proc[p].result = "human"
      BY <2>1, <2>4
    <2>5. CASE proc[p].result = "denied"
      BY <2>3, <2>5
    <2>6. CASE proc[p].result = "allowed"
      BY <2>1, <2>2, <2>6
    <2>. QED
      BY <1>3, <2>4, <2>5, <2>6
  <1>. HIDE DEF settled
  <1>6. /\ proc'[p].st.pending = settled.pending
        /\ proc'[p].st.review = settled.review
        /\ proc'[p].st.current = settled.current
    BY <1>2, <1>5 DEF Noted
  <1>7. Continue(p)
    BY DEF Continue
  <1>. QED
    BY <1>2, <1>3, <1>4, <1>5, <1>6, <1>7, LoggedCount DEF HasRun

\* An answer settles the objective whose run it is about.
LEMMA ReviewEventCount ==
  ASSUME IInv, SInv, EInv, NEW p \in Procs, ReviewEvent(p)
  PROVE  EInv'
  <1>. DEFINE old == proc[p].st
              o == old.current
              verdict == proc[p].result
              s == [old EXCEPT !.review = "none"]
              after ==
                CASE verdict = "approved" /\ old.review = "pre_execution" ->
                       [s EXCEPT !.reviewed = s.reviewed \union {o},
                                 !.current = NoObjective,
                                 !.status = "ready_to_resume"]
                  [] verdict = "approved" /\ old.review # "pre_execution" ->
                       [Complete(s, o) EXCEPT !.status = "ready_to_resume"]
                  [] verdict = "denied" ->
                       [Stop(s, o) EXCEPT !.status = "stopped_by_condition"]
                  [] OTHER ->
                       [Stop(s, o) EXCEPT !.status = "stopped_by_operator",
                                          !.operatorStop = TRUE]
  <1>1. proc[p] \in Process /\ proc \in [Procs -> Process]
    BY DEF IInv, TypeOK
  <1>2. /\ proc[p].pc = "review_event" /\ UNCHANGED <<executed, crashes>>
        /\ Goto(p, "review_save", Noted(after))
    BY DEF ReviewEvent
  <1>3. proc'[p].pc # "idle" /\ proc'[p].st = Noted(after)
    BY <1>1, <1>2 DEF Goto, Process
  <1>4. old \in State /\ Matches(old, log)
    BY <1>2, InProgress DEF VerifiedPCs
  <1>6. {"pending", "current", "status"} \subseteq DOMAIN s /\ s.pending = old.pending
    BY <1>4 DEF State
  <1>. HIDE DEF s
  <1>7. /\ "pending" \in DOMAIN after
        /\ after.pending \subseteq old.pending
        /\ old.review = "post_execution" => o \notin after.pending
    <2>. HIDE DEF o, old, verdict
    <2>1. ASSUME verdict = "approved", old.review = "pre_execution"
          PROVE  "pending" \in DOMAIN after /\ after.pending = s.pending
      BY <1>6, <2>1
    <2>2. ASSUME verdict = "approved", old.review # "pre_execution"
          PROVE  "pending" \in DOMAIN after /\ after.pending = s.pending \ {o}
      <3>1. after = [Complete(s, o) EXCEPT !.status = "ready_to_resume"]
        BY <2>2
      <3>2. "pending" \in DOMAIN Complete(s, o) /\ Complete(s, o).pending = s.pending \ {o}
        BY <1>6 DEF Complete
      <3>. QED
        BY <3>1, <3>2
    <2>3. ASSUME verdict # "approved"
          PROVE  "pending" \in DOMAIN after /\ after.pending = s.pending \ {o}
      <3>1. \/ after = [Stop(s, o) EXCEPT !.status = "stopped_by_condition"]
            \/ after = [Stop(s, o) EXCEPT !.status = "stopped_by_operator",
                                          !.operatorStop = TRUE]
        BY <2>3
      <3>2. "pending" \in DOMAIN Stop(s, o) /\ Stop(s, o).pending = s.pending \ {o}
        BY <1>6 DEF Stop
      <3>. QED
        BY <3>1, <3>2
    <2>. QED
      BY <1>6, <2>1, <2>2, <2>3
  <1>. HIDE DEF after
  <1>8. proc'[p].st.pending = after.pending
    BY <1>3, <1>7 DEF Noted
  <1>9. Continue(p)
    BY DEF Continue
  <1>. QED
    BY <1>2, <1>3, <1>4, <1>7, <1>8, <1>9, LoggedCount DEF HasRun

\* An operator stop settles the objective in hand; the state it stops may be
\* one that the event log has left behind.
LEMMA OperatorEventCount ==
  ASSUME IInv, SInv, EInv, NEW p \in Procs, OperatorEvent(p)
  PROVE  EInv'
  <1>. DEFINE old == proc[p].st
              o == old.current
              s == [old EXCEPT !.operatorStop = TRUE, !.review = "none",
                      !.current = NoObjective, !.status = "stopped_by_operator",
                      !.pending = IF o = NoObjective THEN @ ELSE @ \ {o},
                      !.stopped = IF o = NoObjective THEN @ ELSE @ \union {o}]
              line == Event(s, "operator_stop", s.current, 0, "stopped_by_operator")
  <1>1. proc[p] \in Process /\ proc \in [Procs -> Process] /\ log \in Seq(LogLine)
    BY DEF IInv, TypeOK
  <1>2. /\ proc[p].pc = "operator_event" /\ UNCHANGED <<executed, crashes>>
        /\ Goto(p, "operator_save", Noted(s)) /\ log' = Append(log, line)
    BY DEF OperatorEvent, Emit
  <1>3. proc'[p].pc # "idle" /\ proc'[p].st = Noted(s)
    BY <1>1, <1>2 DEF Goto, Process
  <1>4. /\ old \in State
        /\ old.current \in Objectives \union {NoObjective}
        /\ old.review = "post_execution" => o # NoObjective
    BY <1>2, InProgress DEF GoodState, State
  <1>5. /\ s \in State /\ s.events = old.events /\ s.lastEvent = old.lastEvent
        /\ s.current = NoObjective
        /\ s.pending \subseteq old.pending
        /\ o # NoObjective => o \notin s.pending
    <2>. DEFINE pending == IF o = NoObjective THEN old.pending ELSE old.pending \ {o}
                stopped == IF o = NoObjective THEN old.stopped
                           ELSE old.stopped \union {o}
    <2>1. s = [old EXCEPT !.operatorStop = TRUE, !.review = "none",
                 !.current = NoObjective, !.status = "stopped_by_operator",
                 !.pending = pending, !.stopped = stopped]
      OBVIOUS
    <2>2. pending \in SUBSET Objectives /\ stopped \in SUBSET Objectives
      BY <1>4 DEF State
    <2>3. /\ pending \subseteq old.pending
          /\ o # NoObjective => o \notin pending
      OBVIOUS
    <2>. HIDE DEF s, pending, stopped, o
    <2>4. /\ s \in State /\ s.events = old.events /\ s.lastEvent = old.lastEvent
          /\ s.current = NoObjective /\ s.pending = pending
      BY <1>4, <2>1, <2>2, ZenonT(60) DEF State
    <2>. QED
      BY <2>3, <2>4
  <1>. HIDE DEF s
  <1>6. line \in LogLine
    BY <1>5, EventIsLine DEF EventTypes
  <1>7. line.seq = s.events + 1 /\ line.prev = s.lastEvent
    BY EventFields
  <1>. HIDE DEF line
  <1>8. Matches(Noted(s), log') => Matches(old, log)
    BY <1>1, <1>2, <1>4, <1>5, <1>6, <1>7, MatchesGrow
  <1>9. Noted(s).pending = s.pending
    BY <1>1, <1>5, NotedFields
  <1>10. Continue(p)
    BY DEF Continue
  <1>11. ~ \E x : HasRun(proc[p], x)
    BY <1>2 DEF HasRun
  <1>. HIDE DEF o
  <1>12. \A x \in Objectives : x \in proc'[p].st.pending =>
            x \in old.pending /\ ~(old.review = "post_execution" /\ old.current = x)
    BY <1>3, <1>4, <1>5, <1>9 DEF o
  <1>. QED
    BY <1>2, <1>3, <1>8, <1>10, <1>11, <1>12, LoggedCount

\* The manifest is written after the adapter ran and before its result is logged.
LEMMA WriteEvidenceCount ==
  ASSUME IInv, SInv, EInv, NEW p \in Procs, WriteEvidence(p)
  PROVE  EInv'
  <1>1. proc[p] \in Process /\ proc \in [Procs -> Process]
    BY DEF IInv, TypeOK
  <1>2. /\ proc[p].pc = "manifest" /\ proc'[p].pc = "result"
        /\ proc'[p].st = proc[p].st /\ proc'[p].obj = proc[p].obj
        /\ proc'[p].result = proc[p].result
        /\ UNCHANGED <<log, executed, crashes>>
    BY <1>1 DEF WriteEvidence, Goto, Process
  <1>3. \A q \in Procs \ {p} : proc'[q].pc = "idle"
    BY <1>2, OthersStay, OthersAreIdle DEF Continue
  <1>4. \A o \in Objectives : ComesTo(Held(proc'[p], ckpt'), log', o)
          => executed[o] <= crashes \/ HasRun(proc'[p], o)
    BY <1>2 DEF EInv, Held, HasRun
  <1>. QED
    BY <1>2, <1>3, <1>4, CountIsKept

\* The adapter runs for an objective the campaign comes to, whose earlier runs
\* were all followed by a kill.
LEMMA EvaluateCount ==
  ASSUME IInv, SInv, EInv, NEW p \in Procs, NEW answer, EvaluateAndExecute(p, answer),
         Continue(p)
  PROVE  EInv'
  <1>. DEFINE obj == proc[p].obj
  <1>1. /\ proc[p] \in Process /\ proc \in [Procs -> Process]
        /\ executed \in [Objectives -> Nat] /\ crashes \in Nat
    BY DEF IInv, TypeOK
  <1>2. /\ proc[p].pc = "gate" /\ proc'[p].pc = "manifest"
        /\ proc'[p].st = proc[p].st /\ proc'[p].obj = obj
        /\ proc'[p].result = answer
        /\ UNCHANGED <<ckpt, log, crashes>>
        /\ executed' = [executed EXCEPT ![obj] =
                          IF answer = "allowed" THEN executed[obj] + 1 ELSE executed[obj]]
    BY <1>1 DEF EvaluateAndExecute, Process
  <1>3. \A q \in Procs \ {p} : proc'[q].pc = "idle"
    BY <1>2, OthersStay, OthersAreIdle
  <1>4. obj \in Objectives /\ ComesTo(proc[p].st, log, obj) /\ ~ \E o : HasRun(proc[p], o)
    <2>1. /\ Matches(proc[p].st, log) /\ GoodProcess(proc[p], log)
          /\ GoodState(proc[p].st, log) /\ IsNext(proc[p].st, obj)
      BY <1>2, InProgress DEF VerifiedPCs, InHand
    <2>2. proc[p].st.review = "none" /\ obj \in Objectives
      BY <1>2, <2>1 DEF GoodProcess, GoodState
    <2>. QED
      BY <1>2, <2>1, <2>2 DEF ComesTo, IsNext, HasRun
  <1>. HIDE DEF obj
  <1>5. executed[obj] <= crashes
    BY <1>2, <1>4, CountInProgress
  <1>6. /\ \A o \in Objectives \ {obj} : executed'[o] = executed[o]
        /\ executed'[obj] <= crashes + 1
        /\ answer # "allowed" => executed'[obj] = executed[obj]
    BY <1>1, <1>2, <1>4, <1>5
  <1>7. OnlyCrashesRepeatRuns'
    BY <1>1, <1>2, <1>6 DEF EInv, OnlyCrashesRepeatRuns
  <1>8. ASSUME NEW q \in Procs, NEW o \in Objectives,
               proc'[q].pc # "idle", ComesTo(proc'[q].st, log', o)
        PROVE  executed'[o] <= crashes' \/ HasRun(proc'[q], o)
    <2>1. q = p
      BY <1>3, <1>8
    <2>2. CASE o = obj /\ answer = "allowed"
      BY <1>2, <2>1, <2>2 DEF HasRun
    <2>3. CASE o # obj \/ answer # "allowed"
      <3>1. ComesTo(proc[p].st, log, o)
        BY <1>2, <1>8, <2>1 DEF ComesTo, Matches
      <3>2. executed[o] <= crashes
        BY <1>2, <1>4, <3>1, CountInProgress
      <3>. QED
        BY <1>2, <1>6, <2>3, <3>2
    <2>. QED
      BY <2>2, <2>3
  <1>9. ~ \A q \in Procs : proc'[q].pc = "idle"
    BY <1>2
  <1>. QED
    BY <1>7, <1>8, <1>9 DEF EInv, ComesTo, Matches, HasRun

\* A kill is what pays for the run it may repeat.
LEMMA CrashCount ==
  ASSUME IInv, SInv, EInv, NEW p \in Procs, Crash(p)
  PROVE  EInv'
  <1>1. /\ proc \in [Procs -> Process] /\ executed \in [Objectives -> Nat]
        /\ crashes \in Nat /\ proc[p].pc # "idle"
        /\ crashes' = crashes + 1 /\ UNCHANGED <<ckpt, log, executed>>
        /\ proc' = [proc EXCEPT ![p] = Idle]
    BY DEF Crash, Exit, IInv, TypeOK
  <1>2. \A q \in Procs : proc'[q].pc = "idle"
    BY <1>1, OthersAreIdle DEF Idle
  <1>3. \A o \in Objectives : executed'[o] <= crashes'
    BY <1>1 DEF EInv, OnlyCrashesRepeatRuns
  <1>. QED
    BY <1>1, <1>2, <1>3 DEF EInv, OnlyCrashesRepeatRuns

\* Every step of the only command keeps the count.
LEMMA NextCount == ASSUME Exclusive, IInv, SInv, EInv, [Next]_vars PROVE EInv'
  <1>1. ASSUME NEW p \in Procs, Continue(p) PROVE EInv'
    <2>1. CASE \E answer \in {"allowed", "human", "denied"} : EvaluateAndExecute(p, answer)
      BY <1>1, <2>1, EvaluateCount
    <2>. QED
      BY <1>1, <2>1, SilentStepsCount, LoggingStepsCount, RecordResultCount,
         ReviewEventCount, OperatorEventCount, WriteEvidenceCount
         DEF Continue
  <1>2. ASSUME NEW p \in Procs, Start(p) \/ ReviewLoad(p) \/ OperatorLoad(p) \/ Crash(p)
        PROVE  EInv'
    BY <1>2, LaunchCount, CrashCount
  <1>3. CASE UNCHANGED <<ckpt, log, proc, executed, crashes>>
    BY <1>3 DEF EInv, OnlyCrashesRepeatRuns, ComesTo, Matches, HasRun
  <1>4. (\E verdict \in ReviewVerdicts : WriteDecision(verdict)) \/ UNCHANGED vars
          => UNCHANGED <<ckpt, log, proc, executed, crashes>>
    BY DEF WriteDecision, vars
  <1>. QED
    BY <1>1, <1>2, <1>3, <1>4 DEF Next

(***************************************************************************)
(* With one command at a time, an adapter runs at most once more than the  *)
(* campaign's commands were killed: in a campaign without a crash no       *)
(* resumption and no review runs an objective a second time.               *)
(***************************************************************************)
THEOREM RunsAreCounted == ASSUME Exclusive PROVE Spec => []OnlyCrashesRepeatRuns
  <1>1. IInv /\ SInv /\ EInv /\ [Next]_vars => EInv'
    BY NextCount
  <1>2. EInv => OnlyCrashesRepeatRuns
    BY DEF EInv
  <1>. QED
    BY <1>1, <1>2, InitCount, InductiveInvariant, SerialInvariant, PTL DEF Spec

-----------------------------------------------------------------------------
(* The checkpoints implement the contract *)

Disposed(c) == [o \in Objectives |-> DispositionOf(c, o)]

AskedOf(c) == IF c.status = "paused_for_human_review" THEN c.current ELSE NoObjective

\* Saving the same dispositions changes none.
LEMMA SameDisposed ==
  ASSUME NEW c, NEW d, Same(c, d)
  PROVE  Disposed(d) = Disposed(c)
  BY DEF Disposed, DispositionOf, Same

\* Completing or stopping at a pending objective changes its disposition only.
LEMMA SettledDisposed ==
  ASSUME NEW c, NEW d, Disjoint(c), NEW o \in Objectives, o \in c.pending
  PROVE  /\ Disposed(c)[o] = "pending"
         /\ Completes(c, d, o) => Disposed(d) = [Disposed(c) EXCEPT ![o] = "completed"]
         /\ Stops(c, d, o) => Disposed(d) = [Disposed(c) EXCEPT ![o] = "stopped"]
  <1>1. o \notin c.completed /\ o \notin c.stopped
    BY DEF Disjoint
  <1>2. Completes(c, d, o) => Disposed(d) = [Disposed(c) EXCEPT ![o] = "completed"]
    <2>. SUFFICES ASSUME Completes(c, d, o)
                  PROVE  Disposed(d) = [Disposed(c) EXCEPT ![o] = "completed"]
      OBVIOUS
    <2>1. ASSUME NEW x \in Objectives
          PROVE  DispositionOf(d, x) = IF x = o THEN "completed" ELSE DispositionOf(c, x)
      BY <1>1 DEF DispositionOf, Completes
    <2>. QED
      BY <2>1 DEF Disposed
  <1>3. Stops(c, d, o) => Disposed(d) = [Disposed(c) EXCEPT ![o] = "stopped"]
    <2>. SUFFICES ASSUME Stops(c, d, o)
                  PROVE  Disposed(d) = [Disposed(c) EXCEPT ![o] = "stopped"]
      OBVIOUS
    <2>1. ASSUME NEW x \in Objectives
          PROVE  DispositionOf(d, x) = IF x = o THEN "stopped" ELSE DispositionOf(c, x)
      BY <1>1 DEF DispositionOf, Stops
    <2>. QED
      BY <2>1 DEF Disposed
  <1>. QED
    BY <1>1, <1>2, <1>3 DEF Disposed, DispositionOf

\* The objective that is next in the schedule is the one that is due.
LEMMA NextIsDue ==
  ASSUME NEW c \in State, Disjoint(c), Dispositions(c) = Objectives,
         NEW o \in Objectives, IsNext(c, o)
  PROVE  /\ Disposed(c)[o] = "pending"
         /\ \A other \in Objectives :
              Rank[other] < Rank[o] => Disposed(c)[other] # "pending"
  <1>1. ASSUME NEW other \in Objectives, Rank[other] < Rank[o]
        PROVE  Disposed(c)[other] # "pending"
    <2>1. Rank[other] \in Nat /\ Rank[o] \in Nat
      BY CampaignAssumption
    <2>2. other \notin c.pending
      BY <1>1, <2>1 DEF IsNext
    <2>. QED
      BY <2>2 DEF Dispositions, Disposed, DispositionOf
  <1>. QED
    BY <1>1, SettledDisposed DEF IsNext

\* What a reader of the checkpoints sees of a save.
Moves(c, d) ==
  \/ /\ PhaseOf(c) = "new" /\ PhaseOf(d) = "active"
     /\ Disposed(d) = Disposed(c) /\ AskedOf(d) = AskedOf(c)
  \/ \E o \in Objectives :
       /\ PhaseOf(c) = "active"
       /\ Disposed(c)[o] = "pending"
       /\ \A other \in Objectives :
            Rank[other] < Rank[o] => Disposed(c)[other] # "pending"
       /\ \/ /\ Disposed(d) = [Disposed(c) EXCEPT ![o] = "completed"]
             /\ PhaseOf(d) = "active" /\ AskedOf(d) = NoObjective
          \/ /\ Disposed(d) = [Disposed(c) EXCEPT ![o] = "stopped"]
             /\ PhaseOf(d) = "halted" /\ AskedOf(d) = NoObjective
          \/ /\ PhaseOf(d) = "waiting" /\ AskedOf(d) = o
             /\ Disposed(d) = Disposed(c)
  \/ /\ PhaseOf(c) = "waiting" /\ AskedOf(d) = NoObjective
     /\ \/ /\ Disposed(d) = [Disposed(c) EXCEPT ![AskedOf(c)] = "completed"]
           /\ PhaseOf(d) = "active"
        \/ /\ Disposed(d) = [Disposed(c) EXCEPT ![AskedOf(c)] = "pending"]
           /\ PhaseOf(d) = "active"
        \/ /\ Disposed(d) = [Disposed(c) EXCEPT ![AskedOf(c)] = "stopped"]
           /\ PhaseOf(d) = "halted"
  \/ /\ PhaseOf(c) = "active" /\ PhaseOf(d) = "halted"
     /\ Disposed(d) = Disposed(c) /\ AskedOf(d) = AskedOf(c)
  \/ /\ Disposed(d) = Disposed(c) /\ PhaseOf(d) = PhaseOf(c)
     /\ AskedOf(d) = AskedOf(c)

\* Every way to save a state over a checkpoint is a move of the contract.
LEMMA SavesAreMoves ==
  ASSUME NEW c \in State, NEW d \in State,
         Disjoint(c), Dispositions(c) = Objectives,
         c.current # NoObjective => c.current \in c.pending,
         c.status = "paused_for_human_review" => c.current # NoObjective,
         c.current # NoObjective => IsNext(c, c.current),
         c.status \in Stopped => c.current = NoObjective,
         Goes(c, d) \/ LeadsTo(c, d)
  PROVE  Moves(c, d)
  <1>0. c.current \in Objectives \union {NoObjective} /\ c.pending \subseteq Objectives
    BY DEF State
  <1>1. CASE Goes(c, d)
    <2>1. Disposed(d) = Disposed(c)
      BY <1>1, SameDisposed DEF Goes
    <2>2. /\ PhaseOf(d) = "active" /\ AskedOf(d) = NoObjective
          /\ AskedOf(c) = NoObjective /\ PhaseOf(c) \in {"new", "active"}
      BY <1>1 DEF Goes, PhaseOf, AskedOf
    <2>. QED
      BY <2>1, <2>2 DEF Moves
  <1>2. CASE Repeats(c, d)
    <2>1. Disposed(d) = Disposed(c)
      BY <1>2, SameDisposed DEF Repeats
    <2>2. PhaseOf(d) = PhaseOf(c) /\ AskedOf(d) = AskedOf(c)
      BY <1>2 DEF Repeats, PhaseOf, AskedOf
    <2>. QED
      BY <2>1, <2>2 DEF Moves
  <1>3. CASE Advances(c, d)
    <2>1. PICK o \in c.pending :
            /\ IsNext(c, o)
            /\ \/ Completes(c, d, o) /\ d.status = "running"
               \/ Stops(c, d, o) /\ d.status \in Stopped
               \/ Same(c, d) /\ d.status = "paused_for_human_review" /\ d.current = o
      BY <1>3 DEF Advances
    <2>2. o \in Objectives /\ PhaseOf(c) = "active"
      BY <1>0, <1>3 DEF Advances, PhaseOf
    <2>3. /\ Disposed(c)[o] = "pending"
          /\ \A other \in Objectives :
               Rank[other] < Rank[o] => Disposed(c)[other] # "pending"
      BY <2>1, <2>2, NextIsDue
    <2>4. CASE Completes(c, d, o) /\ d.status = "running"
      <3>1. Disposed(d) = [Disposed(c) EXCEPT ![o] = "completed"]
        BY <2>2, <2>4, SettledDisposed
      <3>2. PhaseOf(d) = "active" /\ AskedOf(d) = NoObjective
        BY <2>4 DEF PhaseOf, AskedOf
      <3>. QED
        BY <2>2, <2>3, <3>1, <3>2 DEF Moves
    <2>5. CASE Stops(c, d, o) /\ d.status \in Stopped
      <3>1. Disposed(d) = [Disposed(c) EXCEPT ![o] = "stopped"]
        BY <2>2, <2>5, SettledDisposed
      <3>2. PhaseOf(d) = "halted" /\ AskedOf(d) = NoObjective
        BY <2>5 DEF PhaseOf, AskedOf
      <3>. QED
        BY <2>2, <2>3, <3>1, <3>2 DEF Moves
    <2>6. CASE Same(c, d) /\ d.status = "paused_for_human_review" /\ d.current = o
      <3>1. Disposed(d) = Disposed(c)
        BY <2>6, SameDisposed
      <3>2. PhaseOf(d) = "waiting" /\ AskedOf(d) = o
        BY <2>6 DEF PhaseOf, AskedOf
      <3>. QED
        BY <2>2, <2>3, <3>1, <3>2 DEF Moves
    <2>. QED
      BY <2>1, <2>4, <2>5, <2>6
  <1>4. CASE Ends(c, d)
    <2>1. Disposed(d) = Disposed(c)
      BY <1>4, SameDisposed DEF Ends
    <2>2. /\ PhaseOf(c) = "active" /\ PhaseOf(d) = "halted"
          /\ AskedOf(c) = NoObjective /\ AskedOf(d) = NoObjective
      BY <1>4 DEF Ends, PhaseOf, AskedOf
    <2>. QED
      BY <2>1, <2>2 DEF Moves
  <1>5. CASE Answers(c, d)
    <2>. DEFINE o == c.current
    <2>1. /\ o \in Objectives /\ o \in c.pending
          /\ PhaseOf(c) = "waiting" /\ AskedOf(c) = o
      BY <1>0, <1>5 DEF Answers, PhaseOf, AskedOf
    <2>2. Disposed(c)[o] = "pending"
      BY <2>1, SettledDisposed
    <2>. HIDE DEF o
    <2>3. CASE Completes(c, d, o) /\ d.status = "ready_to_resume"
      <3>1. Disposed(d) = [Disposed(c) EXCEPT ![o] = "completed"]
        BY <2>1, <2>3, SettledDisposed
      <3>2. PhaseOf(d) = "active" /\ AskedOf(d) = NoObjective
        BY <2>3 DEF PhaseOf, AskedOf
      <3>. QED
        BY <2>1, <3>1, <3>2 DEF Moves
    <2>4. CASE Same(c, d) /\ d.status = "ready_to_resume"
      <3>1. Disposed(d) = [Disposed(c) EXCEPT ![o] = "pending"]
        BY <2>2, <2>4, SameDisposed DEF Disposed
      <3>2. PhaseOf(d) = "active" /\ AskedOf(d) = NoObjective
        BY <2>4 DEF PhaseOf, AskedOf
      <3>. QED
        BY <2>1, <3>1, <3>2 DEF Moves
    <2>5. CASE Stops(c, d, o) /\ d.status \in Stopped
      <3>1. Disposed(d) = [Disposed(c) EXCEPT ![o] = "stopped"]
        BY <2>1, <2>5, SettledDisposed
      <3>2. PhaseOf(d) = "halted" /\ AskedOf(d) = NoObjective
        BY <2>5 DEF PhaseOf, AskedOf
      <3>. QED
        BY <2>1, <3>1, <3>2 DEF Moves
    <2>. QED
      BY <1>5, <2>3, <2>4, <2>5 DEF Answers, o
  <1>6. CASE OperatorStops(c, d)
    <2>. DEFINE o == c.current
    <2>1. /\ PhaseOf(d) = "halted" /\ AskedOf(d) = NoObjective
          /\ PhaseOf(c) \in {"active", "waiting", "halted"}
          /\ PhaseOf(c) = "halted" => c.status \in Stopped
          /\ PhaseOf(c) = "waiting" => c.status = "paused_for_human_review"
      BY <1>6 DEF OperatorStops, PhaseOf, AskedOf, State
    <2>2. CASE o = NoObjective
      <3>1. Disposed(d) = Disposed(c) /\ AskedOf(c) = NoObjective
        BY <1>6, <2>2, SameDisposed DEF OperatorStops, AskedOf
      <3>. QED
        BY <2>1, <2>2, <3>1 DEF Moves
    <2>3. CASE o # NoObjective
      <3>1. o \in Objectives /\ o \in c.pending /\ IsNext(c, o)
        BY <1>0, <2>3
      <3>2. Disposed(d) = [Disposed(c) EXCEPT ![o] = "stopped"]
        BY <1>6, <2>3, <3>1, SettledDisposed DEF OperatorStops
      <3>3. CASE PhaseOf(c) = "waiting"
        <4>1. AskedOf(c) = o
          BY <2>1, <3>3 DEF AskedOf
        <4>. QED
          BY <2>1, <3>2, <3>3, <4>1 DEF Moves
      <3>4. CASE PhaseOf(c) = "active"
        <4>1. /\ Disposed(c)[o] = "pending"
              /\ \A other \in Objectives :
                   Rank[other] < Rank[o] => Disposed(c)[other] # "pending"
          BY <3>1, NextIsDue
        <4>. QED
          BY <2>1, <3>1, <3>2, <3>4, <4>1 DEF Moves
      <3>. QED
        BY <2>1, <2>3, <3>3, <3>4
    <2>. QED
      BY <2>2, <2>3
  <1>. QED
    BY <1>1, <1>2, <1>3, <1>4, <1>5, <1>6 DEF LeadsTo

(***************************************************************************)
(* The engine implements the contract: whoever sees only the checkpoints   *)
(* sees objectives settled one at a time in schedule order, and pauses     *)
(* that end with an answer about the objective they asked about.           *)
(***************************************************************************)
THEOREM EngineImplementsContract == ASSUME Exclusive PROVE Spec => ImplementsContract
  <1>1. Init => Contract!ContractInit
    <2>. SUFFICES ASSUME Init PROVE Contract!ContractInit
      OBVIOUS
    <2>1. ckpt = NoFile
      BY DEF Init
    <2>. QED
      BY <2>1 DEF Contract!ContractInit, NoFile, InitialState, DispositionOf, PhaseOf
  <1>2. IInv /\ SInv /\ [Next]_vars => [Contract!ContractNext]_(Contract!contract)
    <2>. SUFFICES ASSUME IInv, SInv, [Next]_vars
                  PROVE  [Contract!ContractNext]_(Contract!contract)
      OBVIOUS
    <2>1. CASE UNCHANGED ckpt
      BY <2>1 DEF Contract!contract, DispositionOf, PhaseOf
    <2>2. CASE ckpt' # ckpt
      <3>1. PICK s \in State : /\ ckpt' = Revised(s) /\ s.rev = ckpt.rev
                               /\ Goes(ckpt, s) \/ LeadsTo(ckpt, s)
        BY <2>2, SavesAreSteps
      <3>2. /\ ckpt \in State /\ Disjoint(ckpt) /\ Dispositions(ckpt) = Objectives
            /\ ckpt.current # NoObjective => ckpt.current \in ckpt.pending
            /\ ckpt.status = "paused_for_human_review" => ckpt.current # NoObjective
        BY DEF IInv, GoodState
      <3>3. /\ ckpt.current # NoObjective => IsNext(ckpt, ckpt.current)
            /\ ckpt.status \in Stopped => ckpt.current = NoObjective
        BY DEF SInv, SerialFiles, WellFounded
      <3>4. Moves(ckpt, s)
        BY <3>1, <3>2, <3>3, SavesAreMoves
      <3>5. /\ Disposed(ckpt') = Disposed(s) /\ PhaseOf(ckpt') = PhaseOf(s)
            /\ AskedOf(ckpt') = AskedOf(s)
        BY <3>1, RevisedFields DEF Disposed, DispositionOf, PhaseOf, AskedOf
      <3>6. Moves(ckpt, ckpt')
        BY <3>4, <3>5 DEF Moves
      <3>. QED
        BY <3>6 DEF Moves, Disposed, AskedOf,
             Contract!ContractNext, Contract!Begin, Contract!Advance, Contract!Ask,
             Contract!Answer, Contract!End, Contract!Settle, Contract!Due,
             Contract!contract
    <2>. QED
      BY <2>1, <2>2
  <1>. QED
    BY <1>1, <1>2, InductiveInvariant, SerialInvariant, PTL
       DEF Spec, ImplementsContract, Contract!ContractSpec

=============================================================================
