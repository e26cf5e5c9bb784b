----------------------- MODULE FindingLifecycle_proofs -----------------------
(***************************************************************************)
(* The rules of findings hold for any number of findings and overlapping   *)
(* commands, however often evidence and decisions are replaced, and for    *)
(* histories of any length.                                                *)
(***************************************************************************)
EXTENDS FindingLifecycle, SequenceTheorems, TLAPS

\* What every copy of a candidate keeps to, in its file or in a command: its
\* flag stands for a human, its state for the flag, its history for its state.
Sound(f, k, validated) ==
  /\ k.validated => [f |-> f, manifest |-> k.manifest] \in validated
  /\ k.state \in Settled => k.validated
  /\ Explains(k)

Bounded ==
  /\ writes \in 0 .. MaxWrites
  /\ \A f \in Findings : evidence[f] \in 1 .. writes + 1

\* A decision file holds a decision about its own finding.
DecisionsFiled ==
  \A f \in Findings : review[f] # 0 => decisions[review[f]].f = f

FilesSound ==
  \A f \in Findings :
    candidate[f] # NoCandidate => Sound(f, candidate[f], validations)

CommandsSound ==
  \A c \in Commands :
    cmd[c].pc # "idle" => Sound(cmd[c].f, cmd[c].cand, validations)

FInv ==
  /\ FindingTypeOK
  /\ Bounded
  /\ DecisionsFiled
  /\ FilesSound
  /\ CommandsSound
  /\ ReportedFindingsAreReviewed

-----------------------------------------------------------------------------
(* Candidates *)

\* A copy stays sound when a human validates more.
LEMMA SoundStays ==
  ASSUME NEW f, NEW k, NEW old, NEW new, old \subseteq new, Sound(f, k, old)
  PROVE  Sound(f, k, new)
  BY DEF Sound

\* A new candidate is well formed and sound.
LEMMA FreshIsSound ==
  ASSUME NEW f \in Findings, NEW version \in Versions, NEW claimed \in Kinds,
         NEW person \in Reviewers \union {NoOne}, NEW validated
  PROVE  /\ Fresh(version, claimed, person) \in Candidates
         /\ Sound(f, Fresh(version, claimed, person), validated)
  BY DEF Fresh, Candidates, Moves, FINDING_STATES, Sound, Settled, Explains

\* An allowed transition leads to a settled state from a settled one, or is
\* the confirmation.
LEMMA OnlyConfirmationSettles ==
  ASSUME NEW from, NEW to \in Settled, <<from, to>> \in ALLOWED_TRANSITIONS
  PROVE  from \in Settled \/ to = "confirmed"
  BY DEF ALLOWED_TRANSITIONS, Settled

\* A transition appends to the history what it does to the state.
LEMMA MovedIsExplained ==
  ASSUME NEW k \in Candidates, NEW new \in FINDING_STATES, NEW human \in BOOLEAN,
         Explains(k), <<k.state, new>> \in ALLOWED_TRANSITIONS
  PROVE  /\ Moved(k, new, human) \in Candidates
         /\ Explains(Moved(k, new, human))
  <1> DEFINE m == Moved(k, new, human)
             e == [from |-> k.state, to |-> new]
  <1>1. /\ k.history \in Seq(Moves)
        /\ e \in Moves
        /\ k.state \in FINDING_STATES
    BY DEF Candidates, Moves
  <1>2. /\ m \in Candidates
        /\ m.history = Append(k.history, e)
        /\ m.state = new
    <2> DEFINE h == Append(k.history, e)
               v == k.validated \/ human
    <2>1. h \in Seq(Moves)
      BY <1>1
    <2>2. v \in BOOLEAN
      OBVIOUS
    <2>3. m = [k EXCEPT !.state = new, !.validated = v, !.history = h]
      BY DEF Moved
    <2> HIDE DEF h, v, m
    <2>4. m \in Candidates /\ m.history = h /\ m.state = new
      BY <2>1, <2>2, <2>3 DEF Candidates
    <2>. QED
      BY <2>4 DEF h
  <1>3. /\ Len(k.history) \in Nat \ {0}
        /\ k.history[1] = [from |-> "none", to |-> "candidate"]
        /\ \A i \in 2 .. Len(k.history) :
             /\ k.history[i].from = k.history[i - 1].to
             /\ <<k.history[i].from, k.history[i].to>> \in ALLOWED_TRANSITIONS
        /\ k.history[Len(k.history)].to = k.state
    BY <1>1 DEF Explains
  <1>4. /\ Len(m.history) = Len(k.history) + 1
        /\ \A i \in 1 .. Len(k.history) : m.history[i] = k.history[i]
        /\ m.history[Len(k.history) + 1] = e
        /\ m.history # << >>
    <2> HIDE DEF m, e
    <2>. QED
      BY <1>1, <1>2, AppendProperties
  <1>5. ASSUME NEW i \in 2 .. Len(m.history)
        PROVE  /\ m.history[i].from = m.history[i - 1].to
               /\ <<m.history[i].from, m.history[i].to>> \in ALLOWED_TRANSITIONS
    <2>1. CASE i = Len(k.history) + 1
      BY <2>1, <1>3, <1>4
    <2>2. CASE i # Len(k.history) + 1
      <3>1. i \in 2 .. Len(k.history) /\ i - 1 \in 1 .. Len(k.history)
        BY <2>2, <1>3, <1>4
      <3>. QED
        BY <3>1, <1>3, <1>4, SMTT(90)
    <2>. QED
      BY <2>1, <2>2
  <1>. QED
    BY <1>2, <1>3, <1>4, <1>5 DEF Explains

\* A transition that validates keeps a copy sound.
LEMMA MovedIsSound ==
  ASSUME NEW f \in Findings, NEW k \in Candidates, NEW new \in FINDING_STATES,
         NEW human \in BOOLEAN, NEW old, NEW validated,
         Sound(f, k, old), old \subseteq validated,
         human => [f |-> f, manifest |-> k.manifest] \in validated,
         <<k.state, new>> \in ALLOWED_TRANSITIONS,
         Valid(f, Moved(k, new, human))
  PROVE  /\ Moved(k, new, human) \in Candidates
         /\ Sound(f, Moved(k, new, human), validated)
  <1> DEFINE m == Moved(k, new, human)
  <1>1. m \in Candidates /\ Explains(m)
    BY MovedIsExplained DEF Sound
  <1>2. /\ m.state = new
        /\ m.manifest = k.manifest
        /\ m.validated = (k.validated \/ human)
    BY DEF Moved, Candidates
  <1>3. m.validated => [f |-> f, manifest |-> m.manifest] \in validated
    BY <1>2 DEF Sound
  <1>4. ASSUME m.state \in Settled
        PROVE  m.validated
    <2>1. CASE k.state \in Settled
      BY <2>1, <1>2 DEF Sound
    <2>2. CASE m.state = "confirmed"
      BY <2>2 DEF Valid
    <2>. QED
      BY <1>2, <1>4, <2>1, <2>2, OnlyConfirmationSettles
  <1>. QED
    BY <1>1, <1>3, <1>4 DEF Sound

-----------------------------------------------------------------------------
(* One lemma for each action *)

\* What a command that is not idle holds.
LEMMA BusyCommand ==
  ASSUME FindingTypeOK, NEW c \in Commands, cmd[c].pc # "idle"
  PROVE  cmd[c] \in [pc: {"hash", "write"}, f: Findings, cand: Candidates]
  BY DEF FindingTypeOK, CommandStates, Idle

\* A manifest that is replaced disturbs no candidate.
LEMMA NewEvidenceKeepsFInv ==
  ASSUME FInv, NEW f \in Findings, NewEvidence(f)
  PROVE  FInv'
  <1> USE DEF NewEvidence
  <1>1. FindingTypeOK' /\ Bounded'
    BY FindingAssumption DEF FInv, FindingTypeOK, Bounded, Versions
  <1>2. DecisionsFiled'
    BY DEF FInv, DecisionsFiled
  <1>3. FilesSound'
    BY DEF FInv, FilesSound
  <1>4. CommandsSound'
    BY DEF FInv, CommandsSound
  <1>5. ReportedFindingsAreReviewed'
    BY DEF FInv, ReportedFindingsAreReviewed
  <1>. QED
    BY <1>1, <1>2, <1>3, <1>4, <1>5 DEF FInv

\* A decision that is added leaves the earlier ones in place.
LEMMA ReviewCreateKeepsFInv ==
  ASSUME FInv, NEW f \in Findings, NEW version \in Versions,
         NEW person \in Reviewers, ReviewCreate(f, version, person)
  PROVE  FInv'
  <1> DEFINE d == [f |-> f, manifest |-> version, reviewer |-> person]
  <1>1. decisions \in Seq(Decisions) /\ d \in Decisions
    BY DEF FInv, FindingTypeOK, Decisions
  <1>2. /\ decisions' \in Seq(Decisions)
        /\ Len(decisions) \in Nat
        /\ Len(decisions') = Len(decisions) + 1
        /\ \A i \in 1 .. Len(decisions) : decisions'[i] = decisions[i]
        /\ decisions'[Len(decisions) + 1] = d
    <2>1. decisions' = Append(decisions, d)
      BY DEF ReviewCreate
    <2> HIDE DEF d
    <2>. QED
      BY <1>1, <2>1, AppendProperties
  <1>3. /\ review' = [review EXCEPT ![f] = Len(decisions) + 1]
        /\ writes' = writes + 1
        /\ writes < MaxWrites
        /\ UNCHANGED <<kind, evidence, candidate, cmd, reporter, validations>>
    BY DEF ReviewCreate
  <1>4. FindingTypeOK' /\ Bounded'
    <2>1. review' \in [Findings -> 0 .. Len(decisions')]
      BY <1>2, <1>3 DEF FInv, FindingTypeOK
    <2>. QED
      BY <1>2, <1>3, <2>1, FindingAssumption DEF FInv, FindingTypeOK, Bounded
  <1>5. DecisionsFiled'
    <2> SUFFICES ASSUME NEW g \in Findings, review'[g] # 0
                 PROVE  decisions'[review'[g]].f = g
      BY DEF DecisionsFiled
    <2>1. CASE g = f
      BY <2>1, <1>2, <1>3 DEF FInv, FindingTypeOK
    <2>2. CASE g # f
      <3>1. review'[g] = review[g] /\ review[g] \in 1 .. Len(decisions)
        BY <2>2, <1>2, <1>3 DEF FInv, FindingTypeOK
      <3>. QED
        BY <3>1, <1>2 DEF FInv, DecisionsFiled
    <2>. QED
      BY <2>1, <2>2
  <1>6. FilesSound'
    BY <1>3 DEF FInv, FilesSound
  <1>7. CommandsSound'
    BY <1>3 DEF FInv, CommandsSound
  <1>8. ReportedFindingsAreReviewed'
    <2>1. DOMAIN decisions = 1 .. Len(decisions)
          /\ DOMAIN decisions' = 1 .. Len(decisions) + 1
      BY <1>1, <1>2
    <2>2. ASSUME NEW e \in reporter.included, kind[e.f] = "panel"
          PROVE  \E i \in DOMAIN decisions' : decisions'[i] = e
      <3>1. PICK i \in DOMAIN decisions : decisions[i] = e
        BY <2>2 DEF FInv, ReportedFindingsAreReviewed
      <3>. QED
        BY <3>1, <2>1, <1>2
    <2>. QED
      BY <2>2, <1>3 DEF FInv, ReportedFindingsAreReviewed
  <1>. QED
    BY <1>4, <1>5, <1>6, <1>7, <1>8 DEF FInv

\* A candidate from elsewhere starts without a human's flag.
LEMMA ImportKeepsFInv ==
  ASSUME FInv, NEW f \in Findings, NEW version \in Versions,
         ImportCandidate(f, version)
  PROVE  FInv'
  <1> DEFINE k == Fresh(version, "plain", NoOne)
  <1>1. k \in Candidates /\ Sound(f, k, validations)
    BY FreshIsSound DEF Kinds
  <1>2. /\ candidate' = [candidate EXCEPT ![f] = k]
        /\ UNCHANGED <<kind, evidence, writes, decisions, review, cmd, reporter, validations>>
    BY DEF ImportCandidate
  <1> HIDE DEF k
  <1>3. FindingTypeOK' /\ Bounded' /\ DecisionsFiled'
    BY <1>1, <1>2 DEF FInv, FindingTypeOK, Bounded, DecisionsFiled
  <1>4. FilesSound'
    BY <1>1, <1>2 DEF FInv, FilesSound, FindingTypeOK
  <1>5. CommandsSound' /\ ReportedFindingsAreReviewed'
    BY <1>2 DEF FInv, CommandsSound, ReportedFindingsAreReviewed
  <1>. QED
    BY <1>3, <1>4, <1>5 DEF FInv

\* A new candidate in a command is sound.
LEMMA CreateKeepsFInv ==
  ASSUME FInv, NEW c \in Commands, NEW f \in Findings, NEW version \in Versions,
         Create(c, f, version)
  PROVE  FInv'
  <1>1. PICK pc \in {"hash", "write"}, claimed \in Kinds,
             person \in Reviewers \union {NoOne} :
          cmd' = [cmd EXCEPT ![c] = [pc |-> pc, f |-> f,
                    cand |-> Fresh(version, claimed, person)]]
    <2>1. CASE kind[f] = "panel"
      <3>1. review[f] \in 1 .. Len(decisions) /\ decisions \in Seq(Decisions)
        BY <2>1 DEF Create, FInv, FindingTypeOK
      <3>2. decisions[review[f]] \in Decisions
        BY <3>1
      <3>3. decisions[review[f]].reviewer \in Reviewers
        BY <3>2 DEF Decisions
      <3>. QED
        BY <2>1, <3>3 DEF Create, Kinds
    <2>2. CASE kind[f] # "panel"
      <3>1. kind[f] \in Kinds
        BY DEF FInv, FindingTypeOK
      <3>. QED
        BY <2>2, <3>1 DEF Create
    <2>. QED
      BY <2>1, <2>2
  <1> DEFINE k == Fresh(version, claimed, person)
  <1>2. k \in Candidates /\ Sound(f, k, validations)
    BY FreshIsSound
  <1>3. UNCHANGED <<files, reporter, validations>>
    BY DEF Create
  <1> HIDE DEF k
  <1>4. cmd' = [cmd EXCEPT ![c] = [pc |-> pc, f |-> f, cand |-> k]]
    BY <1>1 DEF k
  <1>5. FindingTypeOK' /\ Bounded' /\ DecisionsFiled'
    BY <1>2, <1>3, <1>4
    DEF FInv, FindingTypeOK, Bounded, DecisionsFiled, files, CommandStates
  <1>6. FilesSound' /\ ReportedFindingsAreReviewed'
    BY <1>3 DEF FInv, FilesSound, ReportedFindingsAreReviewed, files
  <1>7. CommandsSound'
    BY <1>2, <1>3, <1>4 DEF FInv, CommandsSound, FindingTypeOK
  <1>. QED
    BY <1>5, <1>6, <1>7 DEF FInv

\* The SHA256 of the decision is added to a candidate that stays sound.
LEMMA CreateHashKeepsFInv ==
  ASSUME FInv, NEW c \in Commands, CreateHash(c)
  PROVE  FInv'
  <1> DEFINE f == cmd[c].f
             k == [cmd[c].cand EXCEPT !.review = review[f]]
  <1>1. /\ cmd[c] \in [pc: {"hash", "write"}, f: Findings, cand: Candidates]
        /\ Sound(f, cmd[c].cand, validations)
    BY BusyCommand DEF CreateHash, FInv, CommandsSound
  <1>2. f \in Findings /\ review[f] \in Nat /\ cmd[c].cand \in Candidates
    BY <1>1 DEF FInv, FindingTypeOK
  <1>3. k \in Candidates /\ Sound(f, k, validations)
    BY <1>1, <1>2 DEF Candidates, Sound, Explains
  <1>4. /\ cmd' = [cmd EXCEPT ![c] = [pc |-> "write", f |-> f, cand |-> k]]
        /\ UNCHANGED <<files, reporter, validations>>
    BY DEF CreateHash
  <1> HIDE DEF k, f
  <1>5. FindingTypeOK' /\ Bounded' /\ DecisionsFiled'
    BY <1>2, <1>3, <1>4
    DEF FInv, FindingTypeOK, Bounded, DecisionsFiled, files, CommandStates
  <1>6. FilesSound' /\ ReportedFindingsAreReviewed'
    BY <1>4 DEF FInv, FilesSound, ReportedFindingsAreReviewed, files
  <1>7. CommandsSound'
    BY <1>3, <1>4 DEF FInv, CommandsSound, FindingTypeOK
  <1>. QED
    BY <1>5, <1>6, <1>7 DEF FInv

\* A transition keeps its copy sound; what the human adds disturbs no other.
LEMMA TransitionKeepsFInv ==
  ASSUME FInv, NEW c \in Commands, NEW f \in Findings, NEW new \in FINDING_STATES,
         NEW human \in BOOLEAN, TransitionLoad(c, f, new, human)
  PROVE  FInv'
  <1> DEFINE k == candidate[f]
             m == Moved(k, new, human)
  <1>1. k \in Candidates /\ Sound(f, k, validations)
    BY DEF TransitionLoad, FInv, FindingTypeOK, FilesSound
  <1>2. /\ validations \subseteq validations'
        /\ human => [f |-> f, manifest |-> k.manifest] \in validations'
        /\ validations' \subseteq [f: Findings, manifest: Versions]
    BY <1>1 DEF TransitionLoad, FInv, FindingTypeOK, Candidates
  <1>3. m \in Candidates /\ Sound(f, m, validations')
    BY <1>1, <1>2, MovedIsSound DEF TransitionLoad
  <1>4. /\ cmd' = [cmd EXCEPT ![c] = [pc |-> "write", f |-> f, cand |-> m]]
        /\ UNCHANGED <<files, reporter>>
    BY DEF TransitionLoad
  <1> HIDE DEF m, k
  <1>5. FindingTypeOK' /\ Bounded' /\ DecisionsFiled'
    BY <1>2, <1>3, <1>4
    DEF FInv, FindingTypeOK, Bounded, DecisionsFiled, files, CommandStates
  <1>6. FilesSound'
    BY <1>2, <1>4, SoundStays DEF FInv, FilesSound, files
  <1>7. CommandsSound'
    <2> SUFFICES ASSUME NEW b \in Commands, cmd'[b].pc # "idle"
                 PROVE  Sound(cmd'[b].f, cmd'[b].cand, validations')
      BY DEF CommandsSound
    <2>1. CASE b = c
      BY <2>1, <1>3, <1>4 DEF FInv, FindingTypeOK
    <2>2. CASE b # c
      <3>1. cmd'[b] = cmd[b]
        BY <2>2, <1>4 DEF FInv, FindingTypeOK
      <3>2. Sound(cmd[b].f, cmd[b].cand, validations)
        BY <3>1 DEF FInv, CommandsSound
      <3>. QED
        BY <3>1, <3>2, <1>2, SoundStays
    <2>. QED
      BY <2>1, <2>2
  <1>8. ReportedFindingsAreReviewed'
    BY <1>2, <1>4 DEF FInv, ReportedFindingsAreReviewed, files
  <1>. QED
    BY <1>5, <1>6, <1>7, <1>8 DEF FInv

\* What a command writes is as sound as its copy was.
LEMMA WriteKeepsFInv ==
  ASSUME FInv, NEW c \in Commands, WriteCandidate(c)
  PROVE  FInv'
  <1> DEFINE f == cmd[c].f
             k == cmd[c].cand
  <1>1. /\ cmd[c] \in [pc: {"hash", "write"}, f: Findings, cand: Candidates]
        /\ Sound(f, k, validations)
    BY BusyCommand DEF WriteCandidate, FInv, CommandsSound
  <1>2. f \in Findings /\ k \in Candidates
    BY <1>1
  <1>3. /\ candidate' = [candidate EXCEPT ![f] = k]
        /\ cmd' = [cmd EXCEPT ![c] = Idle]
        /\ UNCHANGED <<kind, evidence, writes, decisions, review, reporter, validations>>
    BY DEF WriteCandidate
  <1> HIDE DEF f, k
  <1>4. FindingTypeOK' /\ Bounded' /\ DecisionsFiled'
    BY <1>2, <1>3
    DEF FInv, FindingTypeOK, Bounded, DecisionsFiled, CommandStates
  <1>5. FilesSound'
    BY <1>1, <1>2, <1>3 DEF FInv, FilesSound, FindingTypeOK, k, f
  <1>6. CommandsSound' /\ ReportedFindingsAreReviewed'
    BY <1>3 DEF FInv, CommandsSound, ReportedFindingsAreReviewed, FindingTypeOK, Idle
  <1>. QED
    BY <1>4, <1>5, <1>6 DEF FInv

\* A command that gives up takes nothing with it.
LEMMA GiveUpKeepsFInv ==
  ASSUME FInv, NEW c \in Commands, GiveUp(c)
  PROVE  FInv'
  <1>1. /\ cmd' = [cmd EXCEPT ![c] = Idle]
        /\ UNCHANGED <<files, reporter, validations>>
    BY DEF GiveUp
  <1>2. FindingTypeOK' /\ Bounded' /\ DecisionsFiled'
    BY <1>1 DEF FInv, FindingTypeOK, Bounded, DecisionsFiled, files, CommandStates
  <1>3. FilesSound' /\ ReportedFindingsAreReviewed'
    BY <1>1 DEF FInv, FilesSound, ReportedFindingsAreReviewed, files
  <1>4. CommandsSound'
    BY <1>1 DEF FInv, CommandsSound, FindingTypeOK, Idle, files
  <1>. QED
    BY <1>2, <1>3, <1>4 DEF FInv

\* A new report includes nothing yet.
LEMMA NewReportKeepsFInv ==
  ASSUME FInv, reporter' = NewReport, UNCHANGED <<files, cmd, validations>>
  PROVE  FInv'
  BY DEF FInv, FindingTypeOK, Bounded, DecisionsFiled, FilesSound, CommandsSound,
         ReportedFindingsAreReviewed, NewReport, files

\* A candidate that a report includes was validated, is no indicator, and is
\* panel evidence only with the decision that names its reviewer.
LEMMA IncludedIsReviewed ==
  ASSUME FInv, NEW f \in Findings, candidate[f] # NoCandidate,
         Valid(f, candidate[f]), Reportable(f, candidate[f])
  PROVE  LET k == candidate[f]
             entry == [f |-> f, manifest |-> k.manifest, reviewer |-> k.reviewer]
         IN /\ entry \in Entries
            /\ [f |-> f, manifest |-> k.manifest] \in validations
            /\ kind[f] # "indicator"
            /\ kind[f] = "panel" => \E i \in DOMAIN decisions : decisions[i] = entry
  <1> DEFINE k == candidate[f]
             entry == [f |-> f, manifest |-> k.manifest, reviewer |-> k.reviewer]
  <1>1. k \in Candidates /\ Sound(f, k, validations)
    BY DEF FInv, FindingTypeOK, FilesSound
  <1>2. entry \in Entries
    BY <1>1 DEF Candidates, Entries
  <1>3. k.validated /\ kind[f] # "indicator"
    BY DEF Valid, Reportable
  <1>4. ASSUME kind[f] = "panel"
        PROVE  \E i \in DOMAIN decisions : decisions[i] = entry
    <2>1. /\ review[f] = k.review
          /\ k.review # 0
          /\ decisions[k.review].manifest = k.manifest
          /\ decisions[k.review].reviewer = k.reviewer
      BY <1>4 DEF Reportable, InclusionAllowed, ReviewStands
    <2>2. /\ decisions \in Seq(Decisions)
          /\ review[f] \in 0 .. Len(decisions)
      BY DEF FInv, FindingTypeOK
    <2>3. k.review \in DOMAIN decisions /\ decisions[k.review] \in Decisions
      BY <2>1, <2>2
    <2>4. decisions[k.review].f = f
      BY <2>1 DEF FInv, DecisionsFiled
    <2>5. decisions[k.review] = entry
      BY <2>1, <2>3, <2>4 DEF Decisions
    <2>. QED
      BY <2>3, <2>5
  <1>. QED
    BY <1>1, <1>2, <1>3, <1>4 DEF Sound

\* A report includes only what is reviewed.
LEMMA ReportReadKeepsFInv ==
  ASSUME FInv, NEW f \in Findings, NEW version \in Versions, ReportRead(f, version)
  PROVE  FInv'
  <1> DEFINE k == candidate[f]
             entry == [f |-> f, manifest |-> version, reviewer |-> k.reviewer]
  <1>1. UNCHANGED <<files, cmd, validations>>
    BY DEF ReportRead
  <1>2. reporter \in [todo: SUBSET Findings, included: SUBSET Entries]
    BY DEF FInv, FindingTypeOK
  <1>3. CASE reporter' = NewReport
    BY <1>1, <1>3, NewReportKeepsFInv
  <1>4. ASSUME reporter' \in [todo: SUBSET Findings, included: SUBSET Entries],
               \A e \in reporter'.included :
                 \/ e \in reporter.included
                 \/ /\ e = entry
                    /\ [f |-> f, manifest |-> version] \in validations
                    /\ kind[f] # "indicator"
                    /\ kind[f] = "panel" => \E i \in DOMAIN decisions : decisions[i] = entry
        PROVE  FInv'
    <2>1. ReportedFindingsAreReviewed'
      <3>1. kind' = kind /\ decisions' = decisions /\ validations' = validations
        BY <1>1 DEF files
      <3>2. ASSUME NEW e \in reporter'.included
            PROVE  /\ [f |-> e.f, manifest |-> e.manifest] \in validations
                   /\ kind[e.f] # "indicator"
                   /\ kind[e.f] = "panel" => \E i \in DOMAIN decisions : decisions[i] = e
        <4>1. CASE e \in reporter.included
          BY <4>1 DEF FInv, ReportedFindingsAreReviewed
        <4>2. CASE e \notin reporter.included
          <5>1. /\ e = entry
                /\ [f |-> f, manifest |-> version] \in validations
                /\ kind[f] # "indicator"
                /\ kind[f] = "panel" => \E i \in DOMAIN decisions : decisions[i] = entry
            BY <1>4, <4>2
          <5>2. e.f = f /\ e.manifest = version
            BY <5>1
          <5> HIDE DEF entry
          <5>. QED
            BY <5>1, <5>2
        <4>. QED
          BY <4>1, <4>2
      <3>. QED
        BY <3>1, <3>2 DEF ReportedFindingsAreReviewed
    <2>. QED
      BY <1>1, <1>4, <2>1
      DEF FInv, FindingTypeOK, Bounded, DecisionsFiled, FilesSound, CommandsSound, files
  <1>5. CASE k = NoCandidate
    <2>1. reporter' = [reporter EXCEPT !.todo = @ \ {f}]
      BY <1>5 DEF ReportRead
    <2>. QED
      BY <1>2, <1>4, <2>1
  <1>6. CASE k # NoCandidate /\ Valid(f, k) /\ k.manifest = version
    <2>1. reporter' = [todo |-> reporter.todo \ {f},
             included |-> IF Reportable(f, k) THEN reporter.included \union {entry}
                          ELSE reporter.included]
      BY <1>6 DEF ReportRead
    <2>2. CASE Reportable(f, k)
      <3>1. /\ entry \in Entries
            /\ [f |-> f, manifest |-> version] \in validations
            /\ kind[f] # "indicator"
            /\ kind[f] = "panel" => \E i \in DOMAIN decisions : decisions[i] = entry
        BY <1>6, <2>2, IncludedIsReviewed
      <3> HIDE DEF entry
      <3>. QED
        BY <1>2, <1>4, <2>1, <2>2, <3>1
    <2>3. CASE ~Reportable(f, k)
      BY <1>2, <1>4, <2>1, <2>3
    <2>. QED
      BY <2>2, <2>3
  <1>. QED
    BY <1>3, <1>5, <1>6 DEF ReportRead

-----------------------------------------------------------------------------
(* Theorems *)

\* Every step keeps the invariant.
LEMMA NextKeepsFInv ==
  ASSUME FInv, FindingNext
  PROVE  FInv'
  <1>1. CASE ReportBegin
    BY <1>1, NewReportKeepsFInv DEF ReportBegin
  <1>. QED
    BY <1>1, NewEvidenceKeepsFInv, ReviewCreateKeepsFInv, ImportKeepsFInv,
       CreateKeepsFInv, CreateHashKeepsFInv, TransitionKeepsFInv, WriteKeepsFInv,
       GiveUpKeepsFInv, ReportReadKeepsFInv
    DEF FindingNext

\* The invariant holds before anything is written.
LEMMA InitHasFInv ==
  ASSUME FindingInit
  PROVE  FInv
  BY FindingAssumption
  DEF FindingInit, FInv, FindingTypeOK, Bounded, DecisionsFiled, FilesSound,
      CommandsSound, ReportedFindingsAreReviewed, NewReport, Idle, CommandStates,
      Versions

\* FInv is inductive.
THEOREM FindingInvariant == FindingSpec => []FInv
  <1>1. FInv /\ UNCHANGED findingVars => FInv'
    BY DEF findingVars, files, FInv, FindingTypeOK, Bounded, DecisionsFiled,
           FilesSound, CommandsSound, ReportedFindingsAreReviewed
  <1>. QED
    BY <1>1, InitHasFInv, NextKeepsFInv, PTL DEF FindingSpec

\* Files and commands keep their shape.
THEOREM FindingTypeCorrectness == FindingSpec => []FindingTypeOK
  <1>1. FInv => FindingTypeOK
    BY DEF FInv
  <1>. QED
    BY <1>1, FindingInvariant, PTL

\* A report shows only findings that a human validated, and panel evidence
\* only as it was reviewed.
THEOREM ReportsAreReviewed == FindingSpec => []ReportedFindingsAreReviewed
  <1>1. FInv => ReportedFindingsAreReviewed
    BY DEF FInv
  <1>. QED
    BY <1>1, FindingInvariant, PTL

\* No finding is confirmed without a human.
THEOREM HumansConfirm == FindingSpec => []ConfirmationIsHuman
  <1>1. FInv => ConfirmationIsHuman
    BY DEF FInv, FilesSound, Sound, ConfirmationIsHuman
  <1>. QED
    BY <1>1, FindingInvariant, PTL

\* The history of a candidate explains its state.
THEOREM HistoriesExplain == FindingSpec => []HistoryExplainsState
  <1>1. FInv => HistoryExplainsState
    BY DEF FInv, FilesSound, Sound, HistoryExplainsState
  <1>. QED
    BY <1>1, FindingInvariant, PTL

=============================================================================
