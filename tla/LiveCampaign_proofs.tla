------------------------- MODULE LiveCampaign_proofs -------------------------
(***************************************************************************)
(* A verified package is whole, accounts for each test and claims nothing  *)
(* that its files do not support: proved for every catalogue, every set of *)
(* configurations and answers and any number of runs into one directory.   *)
(*                                                                         *)
(* The argument follows the files.  What a run keeps among its artifacts   *)
(* is what is on disk (Memory); so the result, when it is written,         *)
(* describes the disk (AtTheEnd), and so do the digests taken right after  *)
(* it (SealedSums).  A later run may overwrite the files or die, but it    *)
(* cannot change digests that are sealed without unsealing or tearing them.*)
(* What the files say follows the same way (EInv), and then counting shows *)
(* that queue and proof requests account for the catalogue.                *)
(***************************************************************************)
EXTENDS LiveCampaign, SequenceTheorems, FiniteSetTheorems, WellFoundedInduction, TLAPS

Elements(s) == {s[k] : k \in DOMAIN s}

IsSeq(s) == s \in Seq(Elements(s))

IsMemory(r) ==
  r = [pc |-> r.pc, kind |-> r.kind, config |-> r.config, log |-> r.log,
       answers |-> r.answers, observed |-> r.observed, findings |-> r.findings,
       proofs |-> r.proofs, artifacts |-> r.artifacts]

Steps(kind) ==
  IF kind = "juice"
  THEN {"plan", "fetch", "surface", "findings", "benchmark", "report", "decisions",
        "index", "result", "resums", "done"}
  ELSE {"plan", "queue", "fetch", "surface", "findings", "proofs", "benchmark", "state",
        "decisions", "index", "report", "final", "sums", "result", "resums", "done"}

\* What a later decision of the run will refer to has been written.
Earlier(r) ==
  CASE r.pc = "queue" -> {PlanFile("generic")}
    [] r.pc = "state" -> {Benchmark}
    [] r.pc = "decisions" ->
         {Benchmark, IF r.kind = "juice" THEN Report ELSE StateFile}
    [] r.pc = "index" ->
         {Benchmark, DecisionsFile, IF r.kind = "juice" THEN Report ELSE StateFile}
    [] r.pc = "report" ->
         IF r.kind = "juice" THEN {Benchmark}
         ELSE {Benchmark, StateFile, DecisionsFile, Index}
    [] OTHER -> {}

Shape(r) ==
  /\ IsMemory(r)
  /\ r.kind \in {"generic", "juice"}
  /\ r.kind = r.config.kind
  /\ r.pc \in Steps(r.kind)
  /\ IsSeq(r.log)
  /\ IsSeq(r.answers)

Backed(r, files) ==
  /\ \A f \in DOMAIN r.artifacts \ {Sums, Result} :
       f \in DOMAIN files /\ files[f] = r.artifacts[f]
  /\ \A k \in DOMAIN r.log : r.log[k].refs \subseteq DOMAIN r.artifacts
  /\ \A k \in DOMAIN r.answers :
       /\ Observation(r.kind, k) \in DOMAIN r.artifacts
       /\ r.artifacts[Observation(r.kind, k)] = r.answers[k]
  /\ Earlier(r) \subseteq DOMAIN r.artifacts

Memory == run.pc # "idle" => Shape(run) /\ Backed(run, disk)

AtTheEnd ==
  run.pc = "resums" => Result \in DOMAIN disk /\ Describes(disk[Result], disk)

SealedSums ==
  sealed /\ Sums \in DOMAIN disk /\ disk[Sums] # Torn =>
    Result \in DOMAIN disk[Sums] /\ Describes(disk[Sums][Result], disk[Sums])

Finished ==
  run.pc = "done" =>
    Result \in DOMAIN disk /\ Sums \in DOMAIN disk /\ disk[Sums] = Listing(disk)

IInv == Memory /\ AtTheEnd /\ SealedSums /\ Finished

-----------------------------------------------------------------------------
(* Sequences and functions that grow.                                      *)

\* What Append does to a sequence whose elements have no type.
LEMMA AppendedSeq ==
  ASSUME NEW s, NEW e, IsSeq(s)
  PROVE  /\ IsSeq(Append(s, e))
         /\ Len(s) \in Nat
         /\ DOMAIN s = 1 .. Len(s)
         /\ DOMAIN Append(s, e) = 1 .. Len(s) + 1
         /\ \A k \in 1 .. Len(s) : Append(s, e)[k] = s[k]
         /\ Append(s, e)[Len(s) + 1] = e
<1> DEFINE T == Elements(s) \cup {e}
<1>1. s \in Seq(T)
  BY DEF IsSeq, Elements
<1>2. /\ Append(s, e) \in Seq(T)
      /\ Len(s) \in Nat
      /\ DOMAIN s = 1 .. Len(s)
      /\ DOMAIN Append(s, e) = 1 .. Len(s) + 1
      /\ \A k \in 1 .. Len(s) : Append(s, e)[k] = s[k]
      /\ Append(s, e)[Len(s) + 1] = e
  <2> HIDE DEF T
  <2> QED BY <1>1, e \in T, AppendProperties, LenProperties DEF T
<1>3. Append(s, e) \in [1 .. Len(s) + 1 -> T]
  <2> HIDE DEF T
  <2> QED BY <1>1, e \in T, AppendProperties, LenProperties DEF T
<1>4. \A k \in 1 .. Len(s) + 1 : Append(s, e)[k] \in Elements(Append(s, e))
  BY <1>2 DEF Elements
<1>5. Append(s, e) \in [1 .. Len(s) + 1 -> Elements(Append(s, e))]
  <2> HIDE DEF T
  <2> QED BY <1>3, <1>4
<1>6. Append(s, e) \in Seq(Elements(Append(s, e)))
  <2> DEFINE n == Len(s) + 1
  <2>1. n \in Nat
    BY <1>2
  <2> HIDE DEF n
  <2>2. Append(s, e) \in [1 .. n -> Elements(Append(s, e))]
    BY <1>5 DEF n
  <2> QED BY <2>1, <2>2, SeqDef
<1> QED BY <1>2, <1>6 DEF IsSeq

-----------------------------------------------------------------------------
(* One write.                                                              *)

\* A write of anything but the digests keeps them, sealed or not.
LEMMA SaveKeepsSums ==
  ASSUME SealedSums, NEW content, NEW r, Save(content, r), Target(run) # Sums
  PROVE  SealedSums'
<1>1. sealed' = sealed /\ disk' = Put(disk, Target(run), content)
  BY DEF Save
<1>2. Sums \in DOMAIN disk' => Sums \in DOMAIN disk /\ disk'[Sums] = disk[Sums]
  BY <1>1 DEF Put
<1> QED BY <1>1, <1>2 DEF SealedSums

\* A write leaves the memory backed by the disk if the decisions it adds
\* refer to what was written before or is written now, and the answer it
\* adds is what is written.
LEMMA SaveKeepsMemory ==
  ASSUME Shape(run), Backed(run, disk), NEW content, NEW r, Save(content, r),
         Shape(r), r.kind = run.kind,
         \A k \in DOMAIN r.log :
           r.log[k].refs \subseteq DOMAIN run.artifacts \cup {Target(run)},
         \A k \in DOMAIN r.answers :
           \/ /\ k \in DOMAIN run.answers
              /\ r.answers[k] = run.answers[k]
              /\ Observation(run.kind, k) # Target(run)
           \/ /\ Observation(run.kind, k) = Target(run)
              /\ r.answers[k] = content,
         Earlier(r) \subseteq DOMAIN run.artifacts \cup {Target(run)}
  PROVE  Shape(run') /\ Backed(run', disk')
<1> DEFINE file == Target(run)
           kept == Put(run.artifacts, file, content)
<1>1. /\ disk' = Put(disk, file, content)
      /\ run' = [r EXCEPT !.artifacts = kept]
  BY DEF Save
<1>2. run' = [pc |-> r.pc, kind |-> r.kind, config |-> r.config, log |-> r.log,
              answers |-> r.answers, observed |-> r.observed, findings |-> r.findings,
              proofs |-> r.proofs, artifacts |-> kept]
  <2> HIDE DEF kept
  <2> QED BY <1>1 DEF Shape, IsMemory
<1> HIDE DEF kept
<1>3. /\ run'.pc = r.pc /\ run'.kind = r.kind /\ run'.config = r.config
      /\ run'.log = r.log /\ run'.answers = r.answers /\ run'.artifacts = kept
      /\ IsMemory(run')
  BY <1>2 DEF IsMemory
<1>4. Shape(run')
  BY <1>3 DEF Shape
<1>5. /\ DOMAIN kept = DOMAIN run.artifacts \cup {file}
      /\ kept[file] = content
      /\ \A f \in DOMAIN run.artifacts \ {file} : kept[f] = run.artifacts[f]
  <2> HIDE DEF file
  <2> QED BY DEF kept, Put
<1>6. /\ DOMAIN disk' = DOMAIN disk \cup {file}
      /\ disk'[file] = content
      /\ \A f \in DOMAIN disk \ {file} : disk'[f] = disk[f]
  <2> HIDE DEF file
  <2> QED BY <1>1 DEF Put
<1>7. Earlier(run') = Earlier(r)
  BY <1>3 DEF Earlier
<1> HIDE DEF file
<1>8. \A f \in DOMAIN run'.artifacts \ {Sums, Result} :
         f \in DOMAIN disk' /\ disk'[f] = run'.artifacts[f]
  BY <1>3, <1>5, <1>6 DEF Backed
<1>9. \A k \in DOMAIN run'.log : run'.log[k].refs \subseteq DOMAIN run'.artifacts
  BY <1>3, <1>5 DEF file
<1>10. \A k \in DOMAIN run'.answers :
         /\ Observation(run'.kind, k) \in DOMAIN run'.artifacts
         /\ run'.artifacts[Observation(run'.kind, k)] = run'.answers[k]
  <2> SUFFICES ASSUME NEW k \in DOMAIN r.answers
               PROVE  /\ Observation(r.kind, k) \in DOMAIN kept
                      /\ kept[Observation(r.kind, k)] = r.answers[k]
    BY <1>3
  <2>1. CASE Observation(run.kind, k) = file /\ r.answers[k] = content
    BY <2>1, <1>5
  <2>2. CASE /\ k \in DOMAIN run.answers
             /\ r.answers[k] = run.answers[k]
             /\ Observation(run.kind, k) # file
    BY <2>2, <1>5 DEF Backed
  <2> QED BY <2>1, <2>2 DEF file
<1>11. Earlier(run') \subseteq DOMAIN run'.artifacts
  BY <1>3, <1>5, <1>7 DEF file
<1> QED BY <1>4, <1>8, <1>9, <1>10, <1>11 DEF Backed

\* A run that only advances keeps its shape.
LEMMA AdvancedShape ==
  ASSUME Shape(run), run.pc \notin {"idle", "fetch", "done"}
  PROVE  /\ Advanced(run) = [pc |-> Following(run), kind |-> run.kind,
              config |-> run.config, log |-> run.log, answers |-> run.answers,
              observed |-> run.observed, findings |-> run.findings,
              proofs |-> run.proofs, artifacts |-> run.artifacts]
         /\ Shape(Advanced(run))
         /\ Following(run) # "idle"
         /\ Following(run) = "done" => run.pc = "resums"
         /\ Following(run) = "resums" => run.pc = "result"
<1> DEFINE pc == Following(run)
<1>1. pc \in Steps(run.kind)
  BY DEF Shape, Steps, Following, JuiceNext, GenericNext
<1>2. /\ pc # "idle"
      /\ pc = "done" => run.pc = "resums"
      /\ pc = "resums" => run.pc = "result"
  BY DEF Shape, Steps, Following, JuiceNext, GenericNext
<1> HIDE DEF pc
<1>3. Advanced(run) = [pc |-> pc, kind |-> run.kind, config |-> run.config,
         log |-> run.log, answers |-> run.answers, observed |-> run.observed,
         findings |-> run.findings, proofs |-> run.proofs, artifacts |-> run.artifacts]
  BY DEF Shape, IsMemory, Advanced, pc
<1>4. Shape(Advanced(run))
  BY <1>1, <1>3 DEF Shape, IsMemory
<1> QED BY <1>2, <1>3, <1>4 DEF pc

\* A decision lengthens the log and changes nothing else.
LEMMA DecidedShape ==
  ASSUME NEW m, Shape(m), NEW action, NEW ids, NEW refs
  PROVE  LET r == Decided(m, action, ids, refs)
         IN  /\ r = [pc |-> m.pc, kind |-> m.kind, config |-> m.config, log |-> r.log,
                     answers |-> m.answers, observed |-> m.observed,
                     findings |-> m.findings, proofs |-> m.proofs,
                     artifacts |-> m.artifacts]
             /\ Shape(r)
             /\ \A k \in DOMAIN r.log :
                  \/ k \in DOMAIN m.log /\ r.log[k] = m.log[k]
                  \/ r.log[k].refs = refs
<1> DEFINE d == Decision(action, "completed", ids, refs)
           log == Append(m.log, d)
           r == Decided(m, action, ids, refs)
<1>1. /\ IsSeq(log)
      /\ DOMAIN m.log = 1 .. Len(m.log)
      /\ DOMAIN log = 1 .. Len(m.log) + 1
      /\ Len(m.log) \in Nat
      /\ \A k \in 1 .. Len(m.log) : log[k] = m.log[k]
      /\ log[Len(m.log) + 1] = d
  <2> HIDE DEF d
  <2> QED BY AppendedSeq DEF Shape
<1>2. d.refs = refs
  BY DEF Decision
<1> HIDE DEF d
<1>3. r = [pc |-> m.pc, kind |-> m.kind, config |-> m.config, log |-> log,
           answers |-> m.answers, observed |-> m.observed, findings |-> m.findings,
           proofs |-> m.proofs, artifacts |-> m.artifacts]
  BY DEF Shape, IsMemory, Decided, d
<1> HIDE DEF log, r
<1>4. r.log = log /\ Shape(r)
  BY <1>1, <1>3 DEF Shape, IsMemory
<1>5. \A k \in DOMAIN log :
         \/ k \in DOMAIN m.log /\ log[k] = m.log[k]
         \/ log[k].refs = refs
  BY <1>1, <1>2
<1> QED BY <1>3, <1>4, <1>5 DEF r

\* A write after the requests, or before them.
LEMMA PlainSave ==
  ASSUME Shape(run), Backed(run, disk), run.pc \notin {"idle", "fetch", "done"},
         NEW content, NEW r, Save(content, r), Shape(r), r.kind = run.kind,
         r.answers = run.answers, NEW refs,
         \A k \in DOMAIN r.log :
           \/ k \in DOMAIN run.log /\ r.log[k] = run.log[k]
           \/ r.log[k].refs = refs,
         refs \subseteq DOMAIN run.artifacts \cup {Target(run)},
         Earlier(r) \subseteq DOMAIN run.artifacts \cup {Target(run)}
  PROVE  Shape(run') /\ Backed(run', disk')
<1>1. \A k : Observation(run.kind, k) # Target(run)
  BY DEF Shape, Steps, Target, FileAt, PlanFile, Observation, Named, Queue, Surface,
         FindingsFile, ProofsFile, Benchmark, StateFile, DecisionsFile, Index, Report,
         FinalState, Sums, Result
<1>2. \A k \in DOMAIN r.log :
         r.log[k].refs \subseteq DOMAIN run.artifacts \cup {Target(run)}
  BY DEF Backed
<1> QED BY <1>1, <1>2, SaveKeepsMemory

-----------------------------------------------------------------------------
(* Every write but those of the digests.                                   *)

\* What a write of the run needs to keep the invariant, its memory apart.
LEMMA SaveKeepsIInv ==
  ASSUME IInv, NEW content, NEW r, Save(content, r), Target(run) # Sums,
         Shape(run') /\ Backed(run', disk'), run'.pc \notin {"resums", "done"}
  PROVE  IInv'
<1>1. SealedSums'
  BY SaveKeepsSums DEF IInv
<1> QED BY <1>1 DEF IInv, Memory, AtTheEnd, Finished

\* Only the two lists of digests are written to SHA256SUMS.
LEMMA TargetNotSums ==
  ASSUME Shape(run), run.pc \notin {"sums", "resums", "done", "idle"}
  PROVE  Target(run) # Sums
BY DEF Shape, Steps, Target, FileAt, PlanFile, Observation, Named, Queue, Surface,
       FindingsFile, ProofsFile, Benchmark, StateFile, DecisionsFile, Index, Report,
       FinalState, Sums, Result

\* Writes that record no decision.
LEMMA AdvancingWrites ==
  ASSUME IInv,
         \/ WriteBenchmark \/ WriteState \/ WriteDecisions \/ WriteFinalState
         \/ WritePlan /\ run.kind = "generic"
         \/ WriteIndex /\ run.kind = "generic"
         \/ WriteReport /\ run.kind = "juice"
  PROVE  IInv'
<1>1. /\ run.pc \in {"benchmark", "state", "decisions", "final", "plan", "index", "report"}
      /\ run.pc \in {"plan", "index"} => run.kind = "generic"
      /\ run.pc = "report" => run.kind = "juice"
      /\ \E content : Save(content, Advanced(run))
  BY DEF WriteBenchmark, WriteState, WriteDecisions, WriteFinalState, WritePlan,
         WriteIndex, WriteReport
<1>2. PICK content : Save(content, Advanced(run))
  BY <1>1
<1>3. Shape(run) /\ Backed(run, disk)
  BY <1>1 DEF IInv, Memory
<1> DEFINE r == Advanced(run)
<1>4. /\ Shape(r) /\ r.kind = run.kind /\ r.answers = run.answers /\ r.log = run.log
      /\ r.pc = Following(run) /\ r.pc \notin {"resums", "done"}
  <2>1. /\ r = [pc |-> Following(run), kind |-> run.kind,
              config |-> run.config, log |-> run.log, answers |-> run.answers,
              observed |-> run.observed, findings |-> run.findings,
              proofs |-> run.proofs, artifacts |-> run.artifacts]
        /\ Shape(r) /\ Following(run) \notin {"resums", "done"}
    BY <1>1, <1>3, AdvancedShape
  <2> HIDE DEF r
  <2> QED BY <2>1
<1>5. Earlier(r) \subseteq DOMAIN run.artifacts \cup {Target(run)}
  <2> HIDE DEF r
  <2>1. Earlier(run) \subseteq DOMAIN run.artifacts
    BY <1>3 DEF Backed
  <2> QED
    BY <1>1, <1>3, <1>4, <2>1
    DEF Shape, Steps, Earlier, Following, JuiceNext, GenericNext, Target, FileAt
<1>6. Save(content, r)
  BY <1>2
<1> HIDE DEF r
<1>7. Shape(run') /\ Backed(run', disk')
  <2> DEFINE none == {}
  <2>1. none \subseteq DOMAIN run.artifacts \cup {Target(run)}
    OBVIOUS
  <2> HIDE DEF none
  <2> QED BY <1>1, <1>3, <1>4, <1>5, <1>6, <2>1, PlainSave
<1>8. run'.pc = r.pc
  BY <1>4, <1>6 DEF Save, Shape, IsMemory
<1>9. Target(run) # Sums
  BY <1>1, <1>3, TargetNotSums
<1> QED BY <1>4, <1>6, <1>7, <1>8, <1>9, SaveKeepsIInv

\* The memory of a run that records a decision with its write.
Recording(action, ids, refs, observed, findings, proofs) ==
  [pc |-> Following(run), kind |-> run.kind, config |-> run.config,
   log |-> Decided(Advanced(run), action, ids, refs).log,
   answers |-> run.answers, observed |-> observed, findings |-> findings,
   proofs |-> proofs, artifacts |-> run.artifacts]

\* A decision about files that are there, or are written now, keeps it all.
LEMMA RecordingWrite ==
  ASSUME IInv, NEW content, NEW action, NEW ids, NEW refs, NEW observed, NEW findings,
         NEW proofs,
         Save(content, Recording(action, ids, refs, observed, findings, proofs)),
         run.pc \notin {"idle", "fetch", "done", "result", "resums", "sums"},
         refs \subseteq DOMAIN run.artifacts \cup {Target(run)},
         Following(run) \notin {"state", "decisions", "index", "report"},
         Following(run) = "queue" => Target(run) = PlanFile("generic")
  PROVE  IInv'
<1> DEFINE r == Recording(action, ids, refs, observed, findings, proofs)
           m == Decided(Advanced(run), action, ids, refs)
<1>1. Shape(run) /\ Backed(run, disk)
  BY DEF IInv, Memory
<1>2. /\ Shape(Advanced(run))
      /\ Advanced(run).log = run.log
      /\ Advanced(run).pc = Following(run)
      /\ Advanced(run).kind = run.kind
      /\ Following(run) \notin {"resums", "done"}
  <2>1. /\ Advanced(run) = [pc |-> Following(run), kind |-> run.kind,
              config |-> run.config, log |-> run.log, answers |-> run.answers,
              observed |-> run.observed, findings |-> run.findings,
              proofs |-> run.proofs, artifacts |-> run.artifacts]
        /\ Shape(Advanced(run))
        /\ Following(run) \notin {"resums", "done"}
    BY <1>1, AdvancedShape
  <2> QED BY <2>1
<1>3. /\ Shape(m)
      /\ \A k \in DOMAIN m.log :
           \/ k \in DOMAIN run.log /\ m.log[k] = run.log[k]
           \/ m.log[k].refs = refs
  BY <1>2, DecidedShape
<1>4. Shape(r)
  BY <1>1, <1>2, <1>3 DEF Recording, Shape, IsMemory
<1>5. /\ r.log = m.log /\ r.kind = run.kind /\ r.answers = run.answers
      /\ r.pc = Following(run) /\ IsMemory(r)
  <2> HIDE DEF m
  <2> QED BY <1>4 DEF Recording, m, Shape
<1>6. Save(content, r)
  OBVIOUS
<1> HIDE DEF r, m
<1>7. Earlier(r) \subseteq DOMAIN run.artifacts \cup {Target(run)}
  BY <1>5 DEF Earlier
<1>8. Shape(run') /\ Backed(run', disk')
  BY <1>1, <1>3, <1>4, <1>5, <1>6, <1>7, PlainSave
<1>9. run'.pc = r.pc
  BY <1>5, <1>6 DEF Save, IsMemory
<1>10. Target(run) # Sums
  BY <1>1, TargetNotSums
<1> QED BY <1>2, <1>5, <1>6, <1>8, <1>9, <1>10, SaveKeepsIInv

\* What a recording run's memory is when nothing but the log changes.
LEMMA DecidedIsRecording ==
  ASSUME Shape(run), run.pc \notin {"idle", "fetch", "done"},
         NEW action, NEW ids, NEW refs
  PROVE  Decided(Advanced(run), action, ids, refs) =
           Recording(action, ids, refs, run.observed, run.findings, run.proofs)
<1>1. /\ Advanced(run) = [pc |-> Following(run), kind |-> run.kind,
              config |-> run.config, log |-> run.log, answers |-> run.answers,
              observed |-> run.observed, findings |-> run.findings,
              proofs |-> run.proofs, artifacts |-> run.artifacts]
      /\ Shape(Advanced(run))
  BY AdvancedShape
<1> DEFINE m == Decided(Advanced(run), action, ids, refs)
<1>2. m = [pc |-> Advanced(run).pc, kind |-> Advanced(run).kind,
           config |-> Advanced(run).config, log |-> m.log,
           answers |-> Advanced(run).answers, observed |-> Advanced(run).observed,
           findings |-> Advanced(run).findings, proofs |-> Advanced(run).proofs,
           artifacts |-> Advanced(run).artifacts]
  BY <1>1, DecidedShape
<1> HIDE DEF m
<1> QED BY <1>1, <1>2 DEF Recording, m

\* WritePlan keeps the invariant.
LEMMA WritePlanKeeps ==
  ASSUME IInv, WritePlan, run.kind = "juice"
  PROVE  IInv'
<1>1. Shape(run) /\ Backed(run, disk) /\ run.pc = "plan"
  BY DEF IInv, Memory, WritePlan
<1>2. Save(BuildPlan(run.config.profile),
           Recording("build_plan", {}, {PlanFile("juice")},
                     run.observed, run.findings, run.proofs))
  BY <1>1, DecidedIsRecording DEF WritePlan
<1>3. {PlanFile("juice")} \subseteq DOMAIN run.artifacts \cup {Target(run)}
  BY <1>1 DEF Backed, Earlier, Target, FileAt, Shape, Steps
<1>4. Following(run) \in {"fetch", "surface"}
  BY <1>1 DEF Following, JuiceNext, GenericNext, Shape, Steps
<1> QED BY <1>1, <1>2, <1>3, <1>4, RecordingWrite

\* WriteQueue keeps the invariant.
LEMMA WriteQueueKeeps ==
  ASSUME IInv, WriteQueue
  PROVE  IInv'
<1>1. Shape(run) /\ Backed(run, disk) /\ run.pc = "queue"
  BY DEF IInv, Memory, WriteQueue
<1> DEFINE content == [actions |-> PlanActions(run.config.profile, run.config.paths, run.config.maxActions),
                       blocked |-> Blocked(run.config.profile)]
<1>2. Save(content,
           Recording("build_plan", {}, {PlanFile("generic"), Queue},
                     run.observed, run.findings, run.proofs))
  BY <1>1, DecidedIsRecording DEF WriteQueue
<1>3. {PlanFile("generic"), Queue} \subseteq DOMAIN run.artifacts \cup {Target(run)}
  BY <1>1 DEF Backed, Earlier, Target, FileAt, Shape, Steps
<1>4. Following(run) \in {"fetch", "surface"}
  BY <1>1 DEF Following, JuiceNext, GenericNext, Shape, Steps
<1> QED BY <1>1, <1>2, <1>3, <1>4, RecordingWrite

\* What WriteSurface records.
LEMMA SurfaceRecorded ==
  ASSUME Shape(run), WriteSurface
  PROVE  LET ids == IF run.kind = "juice" THEN {"INFO-05", "INFO-06", "INFO-08"}
                    ELSE run.observed
             observed == IF run.kind = "juice" /\ ExtractSurface(run.answers)
                         THEN run.observed \cup {"CLNT-01", "CLNT-04"} ELSE run.observed
         IN  Save(ExtractSurface(run.answers),
                  Recording("derive_surface", ids, {Surface},
                            observed, run.findings, run.proofs))
<1> DEFINE ids == IF run.kind = "juice" THEN {"INFO-05", "INFO-06", "INFO-08"}
                  ELSE run.observed
<1>1. run.pc = "surface"
  BY DEF WriteSurface
<1>2. Decided(Advanced(run), "derive_surface", ids, {Surface}) =
        Recording("derive_surface", ids, {Surface},
                  run.observed, run.findings, run.proofs)
  BY <1>1, DecidedIsRecording
<1> QED BY <1>1, <1>2 DEF WriteSurface, Recording

\* WriteSurface keeps the invariant.
LEMMA WriteSurfaceKeeps ==
  ASSUME IInv, WriteSurface
  PROVE  IInv'
<1>1. Shape(run) /\ Backed(run, disk) /\ run.pc = "surface"
  BY DEF IInv, Memory, WriteSurface
<1>2. PICK ids, observed :
        Save(ExtractSurface(run.answers),
             Recording("derive_surface", ids, {Surface},
                       observed, run.findings, run.proofs))
  BY <1>1, SurfaceRecorded
<1>3. {Surface} \subseteq DOMAIN run.artifacts \cup {Target(run)}
  BY <1>1 DEF Backed, Earlier, Target, FileAt, Shape, Steps
<1>4. Following(run) \in {"findings"}
  BY <1>1 DEF Following, JuiceNext, GenericNext, Shape, Steps
<1> QED BY <1>1, <1>2, <1>3, <1>4, RecordingWrite

\* What WriteFindings records.
LEMMA FindingsRecorded ==
  ASSUME Shape(run), WriteFindings
  PROVE  LET findings == CandidateFindings(run.kind, run.answers)
             observed == IF run.kind = "juice" THEN run.observed \cup IdsOf(findings)
                         ELSE run.observed
         IN  Save(findings,
                  Recording("create_candidates", IdsOf(findings), {FindingsFile},
                            observed, findings, run.proofs))
<1> DEFINE findings == CandidateFindings(run.kind, run.answers)
           observed == IF run.kind = "juice" THEN run.observed \cup IdsOf(findings)
                       ELSE run.observed
<1>0. run.pc = "findings"
  BY DEF WriteFindings
<1>1. Decided(Advanced(run), "create_candidates", IdsOf(findings), {FindingsFile}) =
        Recording("create_candidates", IdsOf(findings), {FindingsFile},
                  run.observed, run.findings, run.proofs)
  BY <1>0, DecidedIsRecording
<1>2. Save(findings,
           [Decided(Advanced(run), "create_candidates", IdsOf(findings), {FindingsFile})
              EXCEPT !.findings = findings,
                     !.observed = IF run.kind = "juice" THEN @ \cup IdsOf(findings) ELSE @])
  BY DEF WriteFindings
<1> HIDE DEF findings
<1>3. [Decided(Advanced(run), "create_candidates", IdsOf(findings), {FindingsFile})
         EXCEPT !.findings = findings,
                !.observed = IF run.kind = "juice" THEN @ \cup IdsOf(findings) ELSE @]
      = Recording("create_candidates", IdsOf(findings), {FindingsFile},
                  observed, findings, run.proofs)
  <2> DEFINE found == IdsOf(findings)
             m == Decided(Advanced(run), "create_candidates", found, {FindingsFile})
  <2>1. m = [pc |-> Following(run), kind |-> run.kind, config |-> run.config,
             log |-> m.log, answers |-> run.answers, observed |-> run.observed,
             findings |-> run.findings, proofs |-> run.proofs,
             artifacts |-> run.artifacts]
    <3> HIDE DEF found
    <3> QED BY <1>1 DEF Recording, found
  <2> HIDE DEF found, m
  <2>2. [m EXCEPT !.findings = findings,
                  !.observed = IF run.kind = "juice" THEN @ \cup found ELSE @]
        = [pc |-> Following(run), kind |-> run.kind, config |-> run.config,
           log |-> m.log, answers |-> run.answers,
           observed |-> IF run.kind = "juice" THEN run.observed \cup found
                        ELSE run.observed,
           findings |-> findings, proofs |-> run.proofs, artifacts |-> run.artifacts]
    <3> DEFINE seen == IF run.kind = "juice" THEN m.observed \cup found ELSE m.observed
               log == m.log
               pc == Following(run)
    <3>1. m.observed = run.observed
      BY <2>1
    <3>2. seen = IF run.kind = "juice" THEN run.observed \cup found ELSE run.observed
      BY <3>1
    <3>3. m = [pc |-> pc, kind |-> run.kind, config |-> run.config,
               log |-> log, answers |-> run.answers, observed |-> run.observed,
               findings |-> run.findings, proofs |-> run.proofs,
               artifacts |-> run.artifacts]
      BY <2>1
    <3> HIDE DEF seen, log, pc
    <3> DEFINE n == [m EXCEPT !.findings = findings]
    <3>4. n = [pc |-> pc, kind |-> run.kind, config |-> run.config, log |-> log,
               answers |-> run.answers, observed |-> run.observed,
               findings |-> findings, proofs |-> run.proofs,
               artifacts |-> run.artifacts]
      BY <3>3
    <3> HIDE DEF n
    <3>5. [n EXCEPT !.observed = seen]
          = [pc |-> pc, kind |-> run.kind, config |-> run.config, log |-> log,
             answers |-> run.answers, observed |-> seen, findings |-> findings,
             proofs |-> run.proofs, artifacts |-> run.artifacts]
      BY <3>4
    <3>6. n.observed = m.observed
      BY <3>1, <3>4
    <3> QED BY <3>2, <3>5, <3>6 DEF seen, log, pc, n
  <2> QED BY <2>2 DEF Recording, found, m
<1> QED BY <1>2, <1>3 DEF findings

\* WriteFindings keeps the invariant.
LEMMA WriteFindingsKeeps ==
  ASSUME IInv, WriteFindings
  PROVE  IInv'
<1>1. Shape(run) /\ Backed(run, disk) /\ run.pc = "findings"
  BY DEF IInv, Memory, WriteFindings
<1>2. PICK findings, observed :
        Save(findings,
             Recording("create_candidates", IdsOf(findings), {FindingsFile},
                       observed, findings, run.proofs))
  BY <1>1, FindingsRecorded
<1>3. {FindingsFile} \subseteq DOMAIN run.artifacts \cup {Target(run)}
  BY <1>1 DEF Backed, Earlier, Target, FileAt, Shape, Steps
<1>4. Following(run) \in {"proofs", "benchmark"}
  BY <1>1 DEF Following, JuiceNext, GenericNext, Shape, Steps
<1> QED BY <1>1, <1>2, <1>3, <1>4, RecordingWrite

\* What WriteProofs records.
LEMMA ProofsRecorded ==
  ASSUME Shape(run), WriteProofs
  PROVE  LET proofs == ProofRequests(run.config.profile, run.observed,
                                     run.config.proofLimit)
         IN  Save(proofs,
                  Recording("request_missing_proof", {Catalog[i].id : i \in proofs},
                            {ProofsFile}, run.observed, run.findings, proofs))
<1> DEFINE proofs == ProofRequests(run.config.profile, run.observed, run.config.proofLimit)
           ids == {Catalog[i].id : i \in proofs}
<1>1. run.pc = "proofs"
  BY DEF WriteProofs
<1>2. Decided(Advanced(run), "request_missing_proof", ids, {ProofsFile}) =
        Recording("request_missing_proof", ids, {ProofsFile},
                  run.observed, run.findings, run.proofs)
  BY <1>1, DecidedIsRecording
<1>3. Save(proofs,
           [Decided(Advanced(run), "request_missing_proof", ids, {ProofsFile})
              EXCEPT !.proofs = proofs])
  BY DEF WriteProofs
<1> HIDE DEF proofs, ids
<1>4. [Decided(Advanced(run), "request_missing_proof", ids, {ProofsFile})
         EXCEPT !.proofs = proofs]
      = Recording("request_missing_proof", ids, {ProofsFile},
                  run.observed, run.findings, proofs)
  BY <1>2 DEF Recording
<1> QED BY <1>3, <1>4 DEF proofs, ids

\* WriteProofs keeps the invariant.
LEMMA WriteProofsKeeps ==
  ASSUME IInv, WriteProofs
  PROVE  IInv'
<1>1. Shape(run) /\ Backed(run, disk) /\ run.pc = "proofs"
  BY DEF IInv, Memory, WriteProofs
<1>2. PICK proofs, ids :
        Save(proofs,
             Recording("request_missing_proof", ids, {ProofsFile},
                       run.observed, run.findings, proofs))
  BY <1>1, ProofsRecorded
<1>3. {ProofsFile} \subseteq DOMAIN run.artifacts \cup {Target(run)}
  BY <1>1 DEF Backed, Earlier, Target, FileAt, Shape, Steps
<1>4. Following(run) \in {"benchmark"}
  BY <1>1 DEF Following, JuiceNext, GenericNext, Shape, Steps
<1> QED BY <1>1, <1>2, <1>3, <1>4, RecordingWrite

\* WriteIndex keeps the invariant.
LEMMA WriteIndexKeeps ==
  ASSUME IInv, WriteIndex, run.kind = "juice"
  PROVE  IInv'
<1>1. Shape(run) /\ Backed(run, disk) /\ run.pc = "index"
  BY DEF IInv, Memory, WriteIndex
<1>2. Save(run.answers,
           Recording("compare_benchmark", run.observed, {Benchmark, Report, DecisionsFile, Index},
                     run.observed, run.findings, run.proofs))
  BY <1>1, DecidedIsRecording DEF WriteIndex
<1>3. {Benchmark, Report, DecisionsFile, Index} \subseteq DOMAIN run.artifacts \cup {Target(run)}
  BY <1>1 DEF Backed, Earlier, Target, FileAt, Shape, Steps
<1>4. Following(run) \in {"result"}
  BY <1>1 DEF Following, JuiceNext, GenericNext, Shape, Steps
<1> QED BY <1>1, <1>2, <1>3, <1>4, RecordingWrite

\* WriteReport keeps the invariant.
LEMMA WriteReportKeeps ==
  ASSUME IInv, WriteReport, run.kind = "generic"
  PROVE  IInv'
<1>1. Shape(run) /\ Backed(run, disk) /\ run.pc = "report"
  BY DEF IInv, Memory, WriteReport
<1>2. Save(ReportOf(run),
           Recording("write_package", run.observed, {Benchmark, StateFile, DecisionsFile, Index, Report},
                     run.observed, run.findings, run.proofs))
  BY <1>1, DecidedIsRecording DEF WriteReport
<1>3. {Benchmark, StateFile, DecisionsFile, Index, Report} \subseteq DOMAIN run.artifacts \cup {Target(run)}
  BY <1>1 DEF Backed, Earlier, Target, FileAt, Shape, Steps
<1>4. Following(run) \in {"final"}
  BY <1>1 DEF Following, JuiceNext, GenericNext, Shape, Steps
<1> QED BY <1>1, <1>2, <1>3, <1>4, RecordingWrite

-----------------------------------------------------------------------------
(* Requests, digests and the result.                                       *)

\* What a request is about, and what it leaves in the memory.
FetchPath == Requests(run.config)[Len(run.answers) + 1]

FetchIds(response) == ObservedIds(run.kind, FetchPath, response)

FetchAnswer(response) ==
  [path |-> FetchPath, ids |-> FetchIds(response), response |-> response]

FetchDecision(response) ==
  Decision("http_get", IF Ok(response) THEN "completed" ELSE "observed_error",
           FetchIds(response), {Observation(run.kind, Len(run.answers) + 1)})

FetchPc ==
  IF Len(run.answers) + 1 = Len(Requests(run.config)) THEN "surface" ELSE run.pc

Fetching(response) ==
  [pc |-> FetchPc, kind |-> run.kind, config |-> run.config,
   log |-> Append(run.log, FetchDecision(response)),
   answers |-> Append(run.answers, FetchAnswer(response)),
   observed |-> run.observed \cup FetchIds(response), findings |-> run.findings,
   proofs |-> run.proofs, artifacts |-> run.artifacts]

\* A request saves its answer.
LEMMA FetchRecorded ==
  ASSUME Shape(run), NEW response, Fetch(response)
  PROVE  Save(FetchAnswer(response), Fetching(response))
<1> DEFINE answers == Append(run.answers, FetchAnswer(response))
           log == Append(run.log, FetchDecision(response))
           observed == run.observed \cup FetchIds(response)
           r == [run EXCEPT !.answers = answers, !.observed = observed,
                            !.log = log, !.pc = FetchPc]
<1>1. Save(FetchAnswer(response), r)
  BY DEF Fetch, FetchAnswer, FetchDecision, FetchIds, FetchPath, FetchPc
<1>2. IsMemory(run)
  BY DEF Shape
<1>3. r = [run EXCEPT !.answers = answers, !.observed = observed, !.log = log,
                      !.pc = FetchPc]
  OBVIOUS
<1> HIDE DEF answers, log, observed, r
<1>4. r = [pc |-> FetchPc, kind |-> run.kind, config |-> run.config, log |-> log,
           answers |-> answers, observed |-> observed, findings |-> run.findings,
           proofs |-> run.proofs, artifacts |-> run.artifacts]
  BY <1>2, <1>3 DEF IsMemory
<1>5. r = Fetching(response)
  BY <1>4 DEF Fetching, answers, log, observed
<1>6. Save(FetchAnswer(response), r)
  BY <1>1 DEF r, answers, log, observed
<1> QED BY <1>5, <1>6

\* A request keeps the invariant: its observation is the file that is written.
LEMMA FetchKeeps ==
  ASSUME IInv, NEW response, Fetch(response)
  PROVE  IInv'
<1> DEFINE k == Len(run.answers) + 1
           answer == FetchAnswer(response)
           decision == FetchDecision(response)
           pc == FetchPc
           r == Fetching(response)
<1>1. Shape(run) /\ Backed(run, disk) /\ run.pc = "fetch"
  BY DEF IInv, Memory, Fetch
<1>2. Save(answer, r)
  BY <1>1, FetchRecorded
<1>3. decision.refs = {Observation(run.kind, k)}
  BY DEF FetchDecision, Decision
<1>4. Target(run) = Observation(run.kind, k)
  BY <1>1 DEF Target
<1>5. pc \in {"surface", "fetch"}
  BY <1>1 DEF FetchPc
<1> HIDE DEF answer, decision, pc
<1>6. /\ IsSeq(Append(run.answers, answer))
      /\ Len(run.answers) \in Nat
      /\ DOMAIN run.answers = 1 .. Len(run.answers)
      /\ DOMAIN Append(run.answers, answer) = 1 .. k
      /\ \A j \in 1 .. Len(run.answers) : Append(run.answers, answer)[j] = run.answers[j]
      /\ Append(run.answers, answer)[k] = answer
  BY <1>1, AppendedSeq DEF Shape
<1>7. /\ IsSeq(Append(run.log, decision))
      /\ Len(run.log) \in Nat
      /\ DOMAIN run.log = 1 .. Len(run.log)
      /\ DOMAIN Append(run.log, decision) = 1 .. Len(run.log) + 1
      /\ \A j \in 1 .. Len(run.log) : Append(run.log, decision)[j] = run.log[j]
      /\ Append(run.log, decision)[Len(run.log) + 1] = decision
  BY <1>1, AppendedSeq DEF Shape
<1>8. r = [pc |-> pc, kind |-> run.kind, config |-> run.config,
           log |-> Append(run.log, decision), answers |-> Append(run.answers, answer),
           observed |-> run.observed \cup FetchIds(response), findings |-> run.findings,
           proofs |-> run.proofs, artifacts |-> run.artifacts]
  BY DEF Fetching, answer, decision, pc
<1> HIDE DEF r
<1>9. /\ r.pc = pc /\ r.kind = run.kind /\ r.config = run.config
      /\ r.log = Append(run.log, decision) /\ r.answers = Append(run.answers, answer)
      /\ IsMemory(r)
  BY <1>8 DEF IsMemory
<1>10. Shape(r)
  BY <1>1, <1>5, <1>6, <1>7, <1>9 DEF Shape, Steps
<1>11. \A j \in DOMAIN r.log :
         r.log[j].refs \subseteq DOMAIN run.artifacts \cup {Target(run)}
  BY <1>1, <1>3, <1>4, <1>7, <1>9 DEF Backed
<1>12. \A j \in 1 .. Len(run.answers) : Observation(run.kind, j) # Target(run)
  BY <1>4, <1>6 DEF Observation
<1>13. \A j \in DOMAIN r.answers :
         \/ /\ j \in DOMAIN run.answers
            /\ r.answers[j] = run.answers[j]
            /\ Observation(run.kind, j) # Target(run)
         \/ /\ Observation(run.kind, j) = Target(run)
            /\ r.answers[j] = answer
  BY <1>4, <1>6, <1>9, <1>12
<1>14. Earlier(r) \subseteq DOMAIN run.artifacts \cup {Target(run)}
  BY <1>5, <1>9 DEF Earlier
<1>15. Shape(run') /\ Backed(run', disk')
  BY <1>1, <1>2, <1>9, <1>10, <1>11, <1>13, <1>14, SaveKeepsMemory
<1>16. run'.pc \notin {"resums", "done"}
  BY <1>2, <1>5, <1>9 DEF Save, IsMemory
<1>17. Target(run) # Sums
  BY <1>4 DEF Observation, Sums, Named
<1> QED BY <1>2, <1>15, <1>16, <1>17, SaveKeepsIInv

\* What the harness keeps as its artifacts once it has hashed the directory.
Hashed ==
  [f \in DOMAIN run.artifacts \cup DOMAIN disk \cup {Sums} |->
     IF f = Sums \/ f \in DOMAIN disk THEN disk'[f] ELSE run.artifacts[f]]

\* The memory after the first digests.
LEMMA FirstSumsRecorded ==
  ASSUME Shape(run), WriteFirstSums
  PROVE  /\ run.pc = "sums" /\ run.kind = "generic"
         /\ disk' = Put(disk, Sums, Listing(disk)) /\ sealed' = FALSE
         /\ run' = [pc |-> "result", kind |-> run.kind, config |-> run.config,
              log |-> run.log, answers |-> run.answers, observed |-> run.observed,
              findings |-> run.findings, proofs |-> run.proofs, artifacts |-> Hashed]
<1>1. run.pc = "sums" /\ run.kind = "generic"
  BY DEF WriteFirstSums, Shape, Steps
<1>2. Advanced(run) = [pc |-> "result", kind |-> run.kind, config |-> run.config,
         log |-> run.log, answers |-> run.answers, observed |-> run.observed,
         findings |-> run.findings, proofs |-> run.proofs, artifacts |-> run.artifacts]
  <2>1. Following(run) = "result"
    BY <1>1 DEF Following, GenericNext
  <2> QED BY <1>1, <2>1, AdvancedShape
<1>3. Advanced(run).artifacts = run.artifacts
  BY <1>2
<1>4. /\ disk' = Put(disk, Sums, Listing(disk)) /\ sealed' = FALSE
      /\ run' = [Advanced(run) EXCEPT !.artifacts = Hashed]
  <2>1. /\ disk' = Put(disk, Sums, Listing(disk)) /\ sealed' = FALSE
        /\ run' = [Advanced(run) EXCEPT !.artifacts =
             [f \in DOMAIN Advanced(run).artifacts \cup DOMAIN disk \cup {Sums} |->
                IF f = Sums \/ f \in DOMAIN disk THEN disk'[f]
                ELSE Advanced(run).artifacts[f]]]
    BY DEF WriteFirstSums
  <2> QED BY <1>3, <2>1 DEF Hashed
<1> QED BY <1>1, <1>2, <1>4

\* The first digests unseal the directory and add digests to the artifacts.
LEMMA WriteFirstSumsKeeps ==
  ASSUME IInv, WriteFirstSums
  PROVE  IInv'
<1> DEFINE kept == Hashed
<1>1. Shape(run) /\ Backed(run, disk) /\ run.pc = "sums" /\ run.kind = "generic"
  BY DEF IInv, Memory, WriteFirstSums, Shape, Steps
<1>2. /\ disk' = Put(disk, Sums, Listing(disk)) /\ sealed' = FALSE
      /\ run' = [pc |-> "result", kind |-> run.kind, config |-> run.config,
         log |-> run.log, answers |-> run.answers, observed |-> run.observed,
         findings |-> run.findings, proofs |-> run.proofs, artifacts |-> kept]
  BY <1>1, FirstSumsRecorded
<1>3. /\ DOMAIN kept = DOMAIN run.artifacts \cup DOMAIN disk \cup {Sums}
      /\ \A f \in DOMAIN disk : kept[f] = disk'[f]
      /\ \A f \in DOMAIN run.artifacts : f \notin DOMAIN disk /\ f # Sums
                                         => kept[f] = run.artifacts[f]
  BY DEF Hashed
<1> HIDE DEF kept
<1>6. /\ run'.pc = "result" /\ run'.kind = run.kind /\ run'.config = run.config
      /\ run'.log = run.log /\ run'.answers = run.answers /\ run'.artifacts = kept
      /\ IsMemory(run')
  BY <1>2 DEF IsMemory
<1>7. Shape(run')
  BY <1>1, <1>6 DEF Shape, Steps
<1>8. /\ DOMAIN disk' = DOMAIN disk \cup {Sums}
      /\ \A f \in DOMAIN disk \ {Sums} : disk'[f] = disk[f]
  BY <1>2 DEF Put
<1>9. \A f \in DOMAIN kept \ {Sums, Result} : f \in DOMAIN disk' /\ disk'[f] = kept[f]
  BY <1>1, <1>3, <1>8 DEF Backed
<1>10. \A k \in DOMAIN run.log : run.log[k].refs \subseteq DOMAIN kept
  BY <1>1, <1>3 DEF Backed
<1>11. \A k \in DOMAIN run.answers :
          /\ Observation(run.kind, k) \in DOMAIN kept
          /\ kept[Observation(run.kind, k)] = run.answers[k]
  <2> SUFFICES ASSUME NEW k \in DOMAIN run.answers
               PROVE  /\ Observation(run.kind, k) \in DOMAIN kept
                      /\ kept[Observation(run.kind, k)] = run.answers[k]
    OBVIOUS
  <2> DEFINE f == Observation(run.kind, k)
  <2>1. f \notin {Sums, Result}
    BY DEF Observation, Sums, Result, Named
  <2> HIDE DEF f
  <2>2. /\ f \in DOMAIN run.artifacts
        /\ run.artifacts[f] = run.answers[k]
    BY <1>1 DEF Backed, f
  <2>3. f \in DOMAIN disk /\ disk[f] = run.artifacts[f]
    BY <1>1, <2>1, <2>2 DEF Backed
  <2>4. kept[f] = run.answers[k] /\ f \in DOMAIN kept
    BY <1>3, <1>8, <2>1, <2>2, <2>3
  <2> QED BY <2>4 DEF f
<1>12. Earlier(run') \subseteq DOMAIN kept
  BY <1>6 DEF Earlier
<1> QED
  BY <1>2, <1>6, <1>7, <1>9, <1>10, <1>11, <1>12
  DEF IInv, Memory, Backed, AtTheEnd, SealedSums, Finished

\* The result describes the disk it is written to.
LEMMA WriteResultKeeps ==
  ASSUME IInv, WriteResult
  PROVE  IInv'
<1> DEFINE r == Advanced(run)
<1>1. Shape(run) /\ Backed(run, disk) /\ run.pc = "result" /\ Save(ResultOf(run), r)
  BY DEF IInv, Memory, WriteResult
<1>2. /\ r = [pc |-> "resums", kind |-> run.kind, config |-> run.config,
              log |-> run.log, answers |-> run.answers, observed |-> run.observed,
              findings |-> run.findings, proofs |-> run.proofs,
              artifacts |-> run.artifacts]
      /\ Shape(r)
  <2>1. Following(run) = "resums"
    BY <1>1 DEF Following, GenericNext, JuiceNext
  <2> QED BY <1>1, <2>1, AdvancedShape
<1>3. Target(run) = Result
  BY <1>1 DEF Target, FileAt
<1> HIDE DEF r
<1>4. Shape(run') /\ Backed(run', disk')
  <2> DEFINE none == {}
  <2>1. none \subseteq DOMAIN run.artifacts \cup {Target(run)}
    OBVIOUS
  <2>2. /\ r.kind = run.kind /\ r.answers = run.answers /\ r.log = run.log
        /\ Earlier(r) = {}
    BY <1>2 DEF Earlier
  <2> HIDE DEF none
  <2> QED BY <1>1, <1>2, <2>1, <2>2, PlainSave
<1>5. SealedSums'
  <2>1. Target(run) # Sums
    BY <1>3 DEF Sums, Result, Named
  <2> QED BY <1>1, <2>1, SaveKeepsSums DEF IInv
<1>6. /\ DOMAIN disk' = DOMAIN disk \cup {Result}
      /\ disk'[Result] = ResultOf(run)
      /\ \A f \in DOMAIN disk \ {Result} : disk'[f] = disk[f]
  <2>1. disk' = Put(disk, Result, ResultOf(run))
    BY <1>1, <1>3 DEF Save
  <2> QED BY <2>1 DEF Put
<1>7. Describes(ResultOf(run), disk')
  <2> DEFINE result == ResultOf(run)
  <2>1. /\ result.log = run.log /\ result.answers = run.answers
        /\ result.artifacts = run.artifacts /\ result.config.kind = run.kind
    BY <1>1 DEF ResultOf, Shape
  <2> HIDE DEF result
  <2>2. \A k \in DOMAIN result.log : result.log[k].refs \subseteq DOMAIN result.artifacts
    BY <1>1, <2>1 DEF Backed
  <2>3. \A f \in DOMAIN result.artifacts \ {Sums, Result} :
          f \in DOMAIN disk' /\ disk'[f] = result.artifacts[f]
    BY <1>1, <1>6, <2>1 DEF Backed
  <2>4. \A k \in DOMAIN result.answers :
          /\ Observation(run.kind, k) \in DOMAIN disk'
          /\ disk'[Observation(run.kind, k)] = result.answers[k]
    <3> SUFFICES ASSUME NEW k \in DOMAIN run.answers
                 PROVE  /\ Observation(run.kind, k) \in DOMAIN disk'
                        /\ disk'[Observation(run.kind, k)] = run.answers[k]
      BY <2>1
    <3> DEFINE f == Observation(run.kind, k)
    <3>1. f \notin {Sums, Result}
      BY DEF Observation, Sums, Result, Named
    <3> HIDE DEF f
    <3>2. f \in DOMAIN run.artifacts /\ run.artifacts[f] = run.answers[k]
      BY <1>1 DEF Backed, f
    <3>3. f \in DOMAIN disk' /\ disk'[f] = run.answers[k]
      BY <2>1, <2>3, <3>1, <3>2
    <3> QED BY <3>3 DEF f
  <2>5. Describes(result, disk')
    BY <2>1, <2>2, <2>3, <2>4 DEF Describes
  <2> QED BY <2>5 DEF result
<1>8. run'.pc = "resums"
  BY <1>1, <1>2 DEF Save
<1> QED BY <1>4, <1>5, <1>6, <1>7, <1>8 DEF IInv, Memory, AtTheEnd, Finished

\* The last digests seal a directory that its result describes.
LEMMA WriteLastSumsKeeps ==
  ASSUME IInv, WriteLastSums
  PROVE  IInv'
<1>1. /\ Shape(run) /\ Backed(run, disk) /\ run.pc = "resums"
      /\ Result \in DOMAIN disk /\ Describes(disk[Result], disk)
  BY DEF IInv, Memory, AtTheEnd, WriteLastSums
<1>2. disk' = Put(disk, Sums, Listing(disk)) /\ run' = [run EXCEPT !.pc = "done"]
  BY DEF WriteLastSums
<1>3. /\ DOMAIN disk' = DOMAIN disk \cup {Sums}
      /\ disk'[Sums] = Listing(disk)
      /\ \A f \in DOMAIN disk \ {Sums} : disk'[f] = disk[f]
  <2> DEFINE list == Listing(disk)
  <2> HIDE DEF list
  <2>1. disk' = Put(disk, Sums, list)
    BY <1>2 DEF list
  <2>2. /\ DOMAIN disk' = DOMAIN disk \cup {Sums}
        /\ disk'[Sums] = list
        /\ \A f \in DOMAIN disk \ {Sums} : disk'[f] = disk[f]
    BY <2>1 DEF Put
  <2> QED BY <2>2 DEF list
<1>4. run' = [pc |-> "done", kind |-> run.kind, config |-> run.config, log |-> run.log,
              answers |-> run.answers, observed |-> run.observed,
              findings |-> run.findings, proofs |-> run.proofs,
              artifacts |-> run.artifacts]
  BY <1>1, <1>2 DEF Shape, IsMemory
<1>5. Shape(run')
  BY <1>1, <1>4 DEF Shape, IsMemory, Steps
<1>6. Backed(run', disk')
  <2>1. Earlier(run') = {}
    BY <1>4 DEF Earlier
  <2>2. /\ run'.log = run.log /\ run'.answers = run.answers
        /\ run'.artifacts = run.artifacts /\ run'.kind = run.kind
    BY <1>4
  <2> QED BY <1>1, <1>3, <2>1, <2>2 DEF Backed
<1>7. Listing(disk') = Listing(disk)
  BY <1>3 DEF Listing
<1>8. Result # Sums
  BY DEF Result, Sums, Named
<1>9. Finished'
  BY <1>1, <1>3, <1>7 DEF Finished
<1>10. AtTheEnd'
  BY <1>4 DEF AtTheEnd
<1>11. SealedSums'
  <2> DEFINE list == Listing(disk)
             result == disk[Result]
  <2>1. /\ DOMAIN list = DOMAIN disk \ {Sums}
        /\ \A f \in DOMAIN disk \ {Sums} : list[f] = disk[f]
    BY DEF Listing
  <2>2. Result \in DOMAIN list /\ list[Result] = result
    BY <1>1, <1>8, <2>1
  <2>3. \A k : Observation(result.config.kind, k) # Sums
    BY DEF Observation, Sums, Named
  <2> HIDE DEF list, result
  <2>4. Describes(result, disk)
    BY <1>1 DEF result
  <2>5. Describes(result, list)
    BY <2>1, <2>3, <2>4 DEF Describes
  <2>6. disk'[Sums] = list
    BY <1>3 DEF list
  <2> QED BY <2>2, <2>5, <2>6 DEF SealedSums
<1> QED BY <1>5, <1>6, <1>9, <1>10, <1>11 DEF IInv, Memory

\* Starting and dying keep it.
LEMMA StartKeeps ==
  ASSUME IInv, NEW config \in Configs, Start(config)
  PROVE  IInv'
<1>1. /\ run' = [pc |-> "plan", kind |-> config.kind, config |-> config, log |-> <<>>,
                 answers |-> <<>>, observed |-> {}, findings |-> {}, proofs |-> {},
                 artifacts |-> Empty]
      /\ config.kind \in {"generic", "juice"}
      /\ disk' = disk /\ sealed' = sealed
  BY DEF Start, ConfigOK
<1>2. IsSeq(<<>>)
  BY EmptySeq DEF IsSeq, Elements
<1>3. Shape(run')
  BY <1>1, <1>2 DEF Shape, IsMemory, Steps
<1>4. DOMAIN Empty = {}
  BY DEF Empty
<1>5. Backed(run', disk')
  <2>1. /\ run'.pc = "plan" /\ run'.artifacts = Empty
        /\ run'.log = <<>> /\ run'.answers = <<>>
    BY <1>1
  <2>2. \A k : k \notin DOMAIN <<>>
    OBVIOUS
  <2> QED BY <1>4, <2>1, <2>2 DEF Backed, Earlier
<1> QED BY <1>1, <1>3, <1>5 DEF IInv, Memory, AtTheEnd, SealedSums, Finished

\* A run that dies leaves digests as they were, or torn.
LEMMA DieKeeps ==
  ASSUME IInv, Die
  PROVE  IInv'
<1>1. run'.pc = "idle"
  BY DEF Die, NoRun
<1>2. SealedSums'
  <2>1. CASE disk' = disk
    BY <2>1 DEF Die, SealedSums, IInv
  <2>2. CASE disk' = Put(disk, Target(run), Torn)
    <3>1. sealed' = sealed
      BY DEF Die
    <3>2. CASE Target(run) = Sums
      <4>1. disk'[Sums] = Torn
        BY <2>2, <3>2 DEF Put
      <4> QED BY <4>1 DEF SealedSums
    <3>3. CASE Target(run) # Sums
      <4>1. Sums \in DOMAIN disk' => Sums \in DOMAIN disk /\ disk'[Sums] = disk[Sums]
        BY <2>2, <3>3 DEF Put
      <4> QED BY <3>1, <4>1 DEF SealedSums, IInv
    <3> QED BY <3>2, <3>3
  <2> QED BY <2>1, <2>2 DEF Die
<1> QED BY <1>1, <1>2 DEF IInv, Memory, AtTheEnd, Finished

-----------------------------------------------------------------------------

\* The empty directory.
LEMMA InitIInv ==
  Init => IInv
BY DEF Init, NoRun, IInv, Memory, AtTheEnd, SealedSums, Finished

\* Each step of a run keeps the invariant.
LEMMA NextIInv ==
  IInv /\ [Next]_vars => IInv'
<1> SUFFICES ASSUME IInv, [Next]_vars
             PROVE  IInv'
  OBVIOUS
<1>1. CASE \E config \in Configs : Start(config)
  BY <1>1, StartKeeps
<1>2. CASE \E response \in Responses : Fetch(response)
  BY <1>2, FetchKeeps
<1>3. CASE WritePlan
  <2>1. run.kind \in {"generic", "juice"}
    BY <1>3 DEF WritePlan, IInv, Memory, Shape
  <2> QED BY <1>3, <2>1, AdvancingWrites, WritePlanKeeps
<1>4. CASE WriteIndex
  <2>1. run.kind \in {"generic", "juice"}
    BY <1>4 DEF WriteIndex, IInv, Memory, Shape
  <2> QED BY <1>4, <2>1, AdvancingWrites, WriteIndexKeeps
<1>5. CASE WriteReport
  <2>1. run.kind \in {"generic", "juice"}
    BY <1>5 DEF WriteReport, IInv, Memory, Shape
  <2> QED BY <1>5, <2>1, AdvancingWrites, WriteReportKeeps
<1>6. CASE WriteQueue
  BY <1>6, WriteQueueKeeps
<1>7. CASE WriteSurface
  BY <1>7, WriteSurfaceKeeps
<1>8. CASE WriteFindings
  BY <1>8, WriteFindingsKeeps
<1>9. CASE WriteProofs
  BY <1>9, WriteProofsKeeps
<1>10. CASE WriteBenchmark \/ WriteState \/ WriteDecisions \/ WriteFinalState
  BY <1>10, AdvancingWrites
<1>11. CASE WriteFirstSums
  BY <1>11, WriteFirstSumsKeeps
<1>12. CASE WriteResult
  BY <1>12, WriteResultKeeps
<1>13. CASE WriteLastSums
  BY <1>13, WriteLastSumsKeeps
<1>14. CASE Die
  BY <1>14, DieKeeps
<1>15. CASE UNCHANGED vars
  BY <1>15 DEF vars, IInv, Memory, AtTheEnd, SealedSums, Finished, Shape, Backed,
               IsMemory, Earlier, Describes
<1> QED
  BY <1>1, <1>2, <1>3, <1>4, <1>5, <1>6, <1>7, <1>8, <1>9, <1>10, <1>11, <1>12, <1>13,
     <1>14, <1>15
  DEF Next

\* Sealed digests that verify carry their description over to the disk.
LEMMA IInvIsWhole ==
  IInv => VerifiedPackageIsWhole
<1> SUFFICES ASSUME IInv, Trusted
             PROVE  Describes(disk[Result], disk)
  BY DEF IInv, Finished, VerifiedPackageIsWhole
<1>1. /\ Result \in DOMAIN disk[Sums]
      /\ Describes(disk[Sums][Result], disk[Sums])
      /\ \A f \in DOMAIN disk[Sums] : f \in DOMAIN disk /\ disk[f] = disk[Sums][f]
  BY DEF IInv, SealedSums, Trusted, Verified
<1> DEFINE list == disk[Sums]
           result == disk[Result]
<1>2. /\ Describes(result, list)
      /\ \A f \in DOMAIN list : f \in DOMAIN disk /\ disk[f] = list[f]
  BY <1>1
<1> HIDE DEF list, result
<1>3. Describes(result, disk)
  BY <1>2 DEF Describes
<1> QED BY <1>3 DEF result

\* What a run remembers is on disk until it ends, and what is sealed is
\* described by its result (every write of the two runners).
THEOREM PackageInvariant ==
  Spec => []IInv
BY InitIInv, NextIInv, PTL DEF Spec

\* In a directory that several runs share and in which any of them may be
\* killed at any write, digests that were taken by the last step of a run and
\* still verify certify one whole run (write_sha256s at the end of
\* run_wstg_live_campaign and run_local_juice_shop_agentic_campaign).
THEOREM PackageCorrect ==
  Spec => []VerifiedPackageIsWhole
BY PackageInvariant, IInvIsWhole, PTL

-----------------------------------------------------------------------------
(* What the files say.                                                     *)
(*                                                                         *)
(* That a package is of one run leaves open what the run wrote.  Tells is  *)
(* the run's own account of it: each derived file was derived from the     *)
(* answers and tests the run has in memory, and every test it observed is  *)
(* named by one of its decisions.  The account is handed on to the result, *)
(* and by the digests to the package.                                      *)

Early == {"plan", "queue"}
BeforeSurface == Early \cup {"fetch", "surface"}
BeforeFindings == BeforeSurface \cup {"findings"}
BeforeProofs == BeforeFindings \cup {"proofs"}
BeforeBenchmark == BeforeProofs \cup {"benchmark"}
BeforeIndex(kind) ==
  BeforeBenchmark \cup {"state", "decisions", "index"}
    \cup (IF kind = "juice" THEN {"report"} ELSE {})

\* The run wrote content to f.
Has(r, f, content) == f \in DOMAIN r.artifacts /\ r.artifacts[f] = content

QueueOf(config) ==
  [actions |-> PlanActions(config.profile, config.paths, config.maxActions),
   blocked |-> Blocked(config.profile)]

ProofsOf(config, observed) ==
  ProofRequests(config.profile, observed, config.proofLimit)

\* Each derived file was derived from what the run has in memory.
Derived(r, pc) ==
  /\ r.config.kind = "generic" /\ pc \notin Early => Has(r, Queue, QueueOf(r.config))
  /\ pc \notin BeforeSurface => Has(r, Surface, ExtractSurface(r.answers))
  /\ pc \notin BeforeFindings =>
       Has(r, FindingsFile, CandidateFindings(r.config.kind, r.answers))
  /\ r.config.kind = "generic" /\ pc \notin BeforeProofs =>
       Has(r, ProofsFile, ProofsOf(r.config, r.observed))
  /\ pc \notin BeforeBenchmark => Has(r, Benchmark, Compare(r.observed))
  /\ pc \notin BeforeIndex(r.config.kind) => Has(r, Index, r.answers)

\* A decision of the log names the test.
NamedIn(log, id) == \E k \in DOMAIN log : id \in log[k].ids

\* Every test that was observed is named by a decision; those the surface
\* shows are about to be.
Claimed(r, pc) ==
  \A id \in r.observed :
    \/ NamedIn(r.log, id)
    \/ /\ r.config.kind = "juice" /\ pc = "findings"
       /\ id \in {"CLNT-01", "CLNT-04"}
       /\ ExtractSurface(r.answers)

\* What the answers of a run say of its requests: the harness has observed the
\* tests of every request, whether it was answered or failed.
Answered(r, pc) ==
  /\ pc = "fetch" => Requests(r.config) # <<>>
  /\ r.config.kind = "generic" => r.observed = AnsweredIds(r.answers) \cup FailedIds(r.answers)
  /\ r.config.kind = "juice" =>
       /\ "APIT-01" \in r.observed => ApiSeen(r.answers)
       /\ 1 \in DOMAIN r.answers /\ r.config.paths[1] = "/" => r.answers[1].path = "/"

Tells(r, pc) ==
  /\ r.config \in Configs
  /\ ConfigOK(r.config)
  /\ IsSeq(r.answers)
  /\ Derived(r, pc)
  /\ Claimed(r, pc)
  /\ Answered(r, pc)

EInv ==
  /\ run.pc # "idle" => Tells(run, run.pc)
  /\ run.pc = "resums" => Tells(disk[Result], "done")
  /\ sealed /\ Sums \in DOMAIN disk /\ disk[Sums] # Torn =>
       Tells(disk[Sums][Result], "done")

-----------------------------------------------------------------------------
(* Counting.                                                               *)

\* A set of numbers has a least one.
LEMMA LeastMember ==
  ASSUME NEW S, S \subseteq Nat, S # {}
  PROVE  \E x \in S : \A y \in S : x <= y
<1>1. PICK x \in S : \A y \in S : ~(<<y, x>> \in OpToRel(<, Nat))
  BY NatLessThanWellFounded, WFMin, Zenon
<1>2. ASSUME NEW y \in S PROVE x <= y
  <2>1. <<y, x>> \in Nat \X Nat
    OBVIOUS
  <2>2. ~(y < x)
    BY <2>1, <1>1 DEF OpToRel
  <2> QED BY <2>2
<1> QED BY <1>2

\* A bounded set of numbers has a greatest one.
LEMMA GreatestMember ==
  ASSUME NEW S, S \subseteq Nat, S # {}, NEW n \in Nat, \A y \in S : y <= n
  PROVE  \E x \in S : \A y \in S : y <= x
<1> DEFINE bounds == {m \in Nat : \A y \in S : y <= m}
<1>1. n \in bounds
  OBVIOUS
<1>2. PICK m \in bounds : \A b \in bounds : m <= b
  <2>1. bounds \subseteq Nat /\ bounds # {}
    BY <1>1
  <2> HIDE DEF bounds
  <2> QED BY <2>1, LeastMember
<1>3. m \in S
  <2> SUFFICES ASSUME m \notin S PROVE FALSE
    OBVIOUS
  <2>1. \A y \in S : y < m
    BY <1>2
  <2>2. m - 1 \in Nat /\ \A y \in S : y <= m - 1
    <3>1. PICK y \in S : TRUE
      OBVIOUS
    <3>2. y \in Nat /\ m \in Nat /\ y < m
      BY <2>1
    <3> QED BY <2>1, <3>2
  <2> QED BY <2>2, <1>2
<1> QED BY <1>2, <1>3

Below(S, i) == {j \in S : j < i}

\* If limit members of a set are chosen from below, one that is left out has
\* all of them before it.
LEMMA FirstOnes ==
  ASSUME NEW open, open \subseteq Nat, NEW n \in Nat, \A x \in open : x <= n,
         NEW limit \in Nat, limit # 0,
         NEW asked,
         \A x : x \in asked <=> x \in open /\ Cardinality(Below(open, x)) < limit,
         NEW i \in open, i \notin asked
  PROVE  Cardinality(asked) = limit /\ \A j \in asked : j < i
<1>1. IsFiniteSet(open)
  BY FS_BoundedSetOfNaturals
<1>2. \A x : \A y : y \in Below(open, x) <=> y \in open /\ y < x
  BY DEF Below
<1>3. \A x : IsFiniteSet(Below(open, x)) /\ Cardinality(Below(open, x)) \in Nat
  BY <1>1, <1>2, FS_Subset, FS_CardinalityType
<1>4. \A x : x \in asked <=> x \in open /\ Cardinality(Below(open, x)) < limit
  OBVIOUS
<1>5. ASSUME NEW x \in asked, NEW y \in open, y <= x
      PROVE  y \in asked
  <2>1. x \in Nat /\ y \in Nat
    BY <1>4
  <2>2. Below(open, y) \subseteq Below(open, x)
    <3> SUFFICES ASSUME NEW z \in Below(open, y) PROVE z \in Below(open, x)
      OBVIOUS
    <3>1. z \in open /\ z < y
      BY <1>2
    <3>2. z \in Nat /\ z < x
      BY <1>5, <2>1, <3>1
    <3> QED BY <1>2, <3>1, <3>2
  <2>3. Cardinality(Below(open, y)) <= Cardinality(Below(open, x))
    BY <1>3, <2>2, FS_Subset
  <2> QED BY <1>3, <1>4, <2>3
<1>6. asked \subseteq open /\ asked \subseteq Nat
  BY <1>4
<1>7. \A j \in asked : j < i
  BY <1>5, <1>6
<1>8. Cardinality(asked) \in Nat /\ IsFiniteSet(asked)
  BY <1>1, <1>6, FS_Subset, FS_CardinalityType
<1>9. limit <= Cardinality(asked)
  <2> DEFINE out == open \ asked
  <2>1. out \subseteq Nat /\ out # {}
    OBVIOUS
  <2>2. PICK e \in out : \A y \in out : e <= y
    <3> HIDE DEF out
    <3> QED BY <2>1, LeastMember
  <2>3. e \in open /\ e \notin asked /\ e \in Nat
    OBVIOUS
  <2>4. \A y \in asked : y \in Nat /\ y < e
    BY <1>5, <1>6, <2>3
  <2>5. \A y \in open : y < e => y \in asked
    BY <2>2, <2>3
  <2>6. asked = Below(open, e)
    BY <1>2, <1>6, <2>4, <2>5
  <2>7. ~(Cardinality(Below(open, e)) < limit)
    BY <1>4, <2>3
  <2> QED BY <1>3, <2>6, <2>7
<1>10. asked # {}
  BY <1>8, <1>9, FS_EmptySet
<1>11. PICK m \in asked : \A y \in asked : y <= m
  BY <1>6, <1>10, GreatestMember
<1>12. asked = Below(open, m) \cup {m} /\ m \notin Below(open, m)
  <2>1. m \in Nat /\ m \in open
    BY <1>6
  <2>2. \A y \in asked : y = m \/ y \in Below(open, m)
    BY <1>2, <1>6, <1>11, <2>1
  <2>3. \A y \in Below(open, m) : y \in asked /\ y # m
    <3> TAKE y \in Below(open, m)
    <3>1. y \in open /\ y < m
      BY <1>2
    <3>2. y \in Nat /\ y <= m /\ y # m
      BY <2>1, <3>1
    <3> QED BY <1>5, <3>1, <3>2
  <2> QED BY <2>2, <2>3
<1>13. Cardinality(asked) = Cardinality(Below(open, m)) + 1
  BY <1>3, <1>12, FS_AddElement
<1>14. Cardinality(Below(open, m)) < limit
  BY <1>4
<1> QED BY <1>3, <1>7, <1>8, <1>9, <1>13, <1>14

-----------------------------------------------------------------------------
(* Plans, requests and findings.                                           *)

\* A test that is not ready is blocked for a reason.
LEMMA BlockedForReasons ==
  ASSUME NEW profile, NEW i \in Tests, i \notin Ready(profile)
  PROVE  Reasons(profile, i) # {}
<1>1. Disposition(profile, i) # "ready"
  BY DEF Ready
<1>2. CASE Catalog[i].tier = "destructive_denied"
  <2>1. "destructive" \in Reasons(profile, i)
    BY <1>2 DEF Reasons, ReasonIf
  <2> QED BY <2>1
<1>3. CASE i \notin Runnable(profile)
  <2>1. PlanningReasons(profile, Catalog[i]) # {}
    BY <1>3 DEF Runnable
  <2>2. PlanningReasons(profile, Catalog[i]) \subseteq Reasons(profile, i)
    BY DEF Reasons
  <2> QED BY <2>1, <2>2
<1>4. CASE i \in Runnable(profile) /\ ~HasSlot(profile, i)
  <2>1. "limit" \in Reasons(profile, i)
    BY <1>4 DEF Reasons, ReasonIf
  <2> QED BY <2>1
<1> QED BY <1>1, <1>2, <1>3, <1>4 DEF Disposition

\* Queue and proof requests of one plan account for each test.
LEMMA PlanAccounts ==
  ASSUME NEW config, config.proofLimit \in 1 .. 100, NEW observed
  PROVE  LET blocked == DOMAIN QueueOf(config).blocked
             asked == ProofsOf(config, observed)
             seen == {i \in Tests : Catalog[i].id \in observed}
         IN  /\ asked \cap (blocked \cup seen) = {}
             /\ \A i \in blocked : QueueOf(config).blocked[i] # {}
             /\ \A k \in DOMAIN QueueOf(config).actions :
                  QueueOf(config).actions[k].objectives \cap blocked = {}
             /\ \A i \in Tests \ (blocked \cup seen \cup asked) :
                  /\ Cardinality(asked) = config.proofLimit
                  /\ \A j \in asked : j < i
<1> DEFINE profile == config.profile
           blocked == DOMAIN QueueOf(config).blocked
           asked == ProofsOf(config, observed)
           seen == {i \in Tests : Catalog[i].id \in observed}
           open == Unproved(profile, observed)
           limit == config.proofLimit
<1>1. blocked = Tests \ Ready(profile)
  BY DEF QueueOf, Blocked
<1>2. open = {i \in Ready(profile) : Catalog[i].id \notin observed}
  BY DEF Unproved
<1>3. asked = {i \in open : Cardinality(Below(open, i)) < limit}
  BY DEF ProofsOf, ProofRequests, Below
<1>4. Ready(profile) \subseteq Tests
  BY DEF Ready
<1>5. asked \cap (blocked \cup seen) = {}
  BY <1>1, <1>2, <1>3
<1>6. \A i \in blocked : QueueOf(config).blocked[i] # {}
  BY <1>1, BlockedForReasons DEF QueueOf, Blocked
<1>7. \A k \in DOMAIN QueueOf(config).actions :
        QueueOf(config).actions[k].objectives \cap blocked = {}
  BY <1>1 DEF QueueOf, PlanActions
<1>8. ASSUME NEW i \in Tests, i \notin blocked, i \notin seen, i \notin asked
      PROVE  Cardinality(asked) = limit /\ \A j \in asked : j < i
  <2>1. i \in open
    BY <1>1, <1>2, <1>8
  <2>2. Len(Catalog) \in Nat /\ Tests = 1 .. Len(Catalog)
    BY CatalogAssumption, LenProperties DEF CatalogOK, Tests
  <2>3. open \subseteq Nat /\ \A x \in open : x <= Len(Catalog)
    BY <1>2, <1>4, <2>2
  <2>4. limit \in Nat /\ limit # 0
    OBVIOUS
  <2>5. \A x : x \in asked <=> x \in open /\ Cardinality(Below(open, x)) < limit
    BY <1>3
  <2>6. i \notin asked
    BY <1>8
  <2>7. Len(Catalog) \in Nat
    BY <2>2
  <2> HIDE DEF open, asked, limit, blocked, seen
  <2> QED BY <2>1, <2>3, <2>4, <2>5, <2>6, <2>7, FirstOnes
<1> HIDE DEF asked, blocked, seen, limit
<1>9. \A i \in Tests \ (blocked \cup seen \cup asked) :
        Cardinality(asked) = limit /\ \A j \in asked : j < i
  BY <1>8
<1> QED BY <1>5, <1>6, <1>7, <1>9 DEF asked, blocked, seen, limit

\* The first member of a set of positions is the one with none below it.
LEMMA FirstPlace ==
  ASSUME NEW firsts, NEW len \in Nat, firsts \subseteq 1 .. len, 1 \in firsts
  PROVE  (CHOOSE i \in firsts : Cardinality(Below(firsts, i)) = 1 - 1) = 1
<1> DEFINE P(i) == Cardinality(Below(firsts, i)) = 1 - 1
<1>1. \A i : \A y : y \in Below(firsts, i) <=> y \in firsts /\ y < i
  BY DEF Below
<1>2. IsFiniteSet(firsts)
  <2>1. IsFiniteSet(1 .. len)
    BY FS_Interval
  <2> QED BY <2>1, FS_Subset
<1>3. P(1)
  <2>1. \A y \in firsts : y \in Nat /\ 1 <= y
    OBVIOUS
  <2>2. ASSUME NEW y \in Below(firsts, 1) PROVE FALSE
    <3>1. y \in firsts /\ y < 1
      BY <1>1
    <3> QED BY <2>1, <3>1
  <2>3. Below(firsts, 1) = {}
    BY <2>2
  <2> QED BY <2>3, FS_EmptySet
<1>4. ASSUME NEW i \in firsts, P(i)
      PROVE  i = 1
  <2>1. IsFiniteSet(Below(firsts, i))
    BY <1>2, FS_Subset DEF Below
  <2>2. Below(firsts, i) = {}
    BY <1>4, <2>1, FS_EmptySet
  <2>3. ~(1 < i)
    BY <1>1, <2>2
  <2>4. i \in Nat /\ 1 <= i
    OBVIOUS
  <2> QED BY <2>3, <2>4
<1> HIDE DEF P
<1>5. (CHOOSE i \in firsts : P(i)) = 1
  BY <1>3, <1>4
<1> QED BY <1>5 DEF P

\* The positions of the paths that are no repetitions.
LEMMA FirstSeenPlaces ==
  ASSUME NEW paths \in Seq(STRING)
  PROVE  /\ Len(paths) \in Nat
         /\ FirstSeen(paths) \subseteq 1 .. Len(paths)
         /\ Cardinality(FirstSeen(paths)) \in Nat
         /\ Cardinality(FirstSeen(paths)) # 0 => 1 \in FirstSeen(paths)
<1> DEFINE firsts == FirstSeen(paths)
<1>1. Len(paths) \in Nat /\ DOMAIN paths = 1 .. Len(paths)
  BY LenProperties
<1>2. firsts \subseteq 1 .. Len(paths)
  BY <1>1 DEF FirstSeen
<1>3. 1 \in DOMAIN paths => 1 \in firsts
  BY DEF FirstSeen
<1> HIDE DEF firsts
<1>4. IsFiniteSet(firsts)
  <2>1. IsFiniteSet(1 .. Len(paths))
    BY <1>1, FS_Interval
  <2> QED BY <1>2, <2>1, FS_Subset
<1>5. Cardinality(firsts) \in Nat
  BY <1>4, FS_CardinalityType
<1>6. Cardinality(firsts) # 0 => firsts # {}
  BY FS_EmptySet
<1>7. firsts # {} => 1 \in DOMAIN paths
  <2> SUFFICES ASSUME NEW i \in firsts PROVE 1 \in 1 .. Len(paths)
    BY <1>1
  <2>1. i \in 1 .. Len(paths)
    BY <1>2
  <2> QED BY <1>1, <2>1
<1> QED BY <1>1, <1>2, <1>3, <1>5, <1>6, <1>7 DEF firsts

\* The Juice Shop runner begins with the first path it is given.
LEMMA FirstPath ==
  ASSUME NEW paths \in Seq(STRING), NEW limit \in 1 .. 50, UniquePaths(paths, limit) # <<>>
  PROVE  UniquePaths(paths, limit)[1] = paths[1]
<1> DEFINE firsts == FirstSeen(paths)
           seen == Cardinality(firsts)
           n == Shorter(seen, limit)
           place(k) == CHOOSE i \in firsts : Cardinality(Below(firsts, i)) = k - 1
<1>1. UniquePaths(paths, limit) = [k \in 1 .. n |-> paths[place(k)]]
  BY DEF UniquePaths, Below
<1>2. /\ Len(paths) \in Nat /\ firsts \subseteq 1 .. Len(paths)
      /\ seen \in Nat
      /\ seen # 0 => 1 \in firsts
  BY FirstSeenPlaces
<1> HIDE DEF firsts, seen
<1>3. n \in Nat /\ n <= seen
  BY <1>2 DEF Shorter
<1> HIDE DEF n, place
<1>4. n # 0
  <2> SUFFICES ASSUME n = 0 PROVE FALSE
    OBVIOUS
  <2>1. 1 .. n = {}
    OBVIOUS
  <2> QED BY <1>1, <2>1
<1>5. 1 \in firsts
  BY <1>2, <1>3, <1>4
<1>6. place(1) = 1
  <2>1. (CHOOSE i \in firsts : Cardinality(Below(firsts, i)) = 1 - 1) = 1
    BY <1>2, <1>5, FirstPlace
  <2> QED BY <2>1 DEF place
<1>7. 1 \in 1 .. n
  BY <1>3, <1>4
<1> QED BY <1>1, <1>6, <1>7

\* The root's answer is the first of those from the root.
LEMMA RootIsFirst ==
  ASSUME NEW answers, IsSeq(answers), RootAnswers(answers) # {}
  PROVE  /\ Root(answers) \in RootAnswers(answers)
         /\ \A j \in RootAnswers(answers) : Root(answers) <= j
         /\ RootAnswers(answers) \subseteq DOMAIN answers
         /\ \A j \in RootAnswers(answers) : j \in Nat /\ 1 <= j
<1> DEFINE roots == RootAnswers(answers)
<1>1. roots \subseteq DOMAIN answers
  BY DEF RootAnswers
<1>2. Len(answers) \in Nat /\ DOMAIN answers = 1 .. Len(answers)
  BY LenProperties DEF IsSeq
<1>3. roots \subseteq Nat
  BY <1>1, <1>2
<1>4. Root(answers) = CHOOSE k \in roots : \A j \in roots : k <= j
  BY DEF Root
<1> HIDE DEF roots
<1>5. \E k \in roots : \A j \in roots : k <= j
  BY <1>3, LeastMember DEF roots
<1>6. Root(answers) \in roots /\ \A j \in roots : Root(answers) <= j
  BY <1>4, <1>5
<1> QED BY <1>1, <1>2, <1>6 DEF roots

\* The files a run leaves support the findings it makes, unless the first
\* request for the root failed; the Juice Shop runner may cite another file.
LEMMA FindingsAreSupported ==
  ASSUME NEW kind \in {"generic", "juice"}, NEW answers, IsSeq(answers), NEW files,
         NEW firsts,
         \A k \in DOMAIN answers : files[Observation(kind, k)] = answers[k],
         files[Index] = answers,
         files[Surface] = ExtractSurface(answers),
         kind = "juice" /\ 1 \in DOMAIN answers /\ firsts = "/" => answers[1].path = "/",
         NEW finding \in CandidateFindings(kind, answers)
  PROVE  \/ Supports(finding, files[finding.ref])
         \/ /\ finding.id = "header-gaps"
            /\ \/ RootFailed(answers)
               \/ /\ kind = "juice" /\ firsts # "/"
                  /\ \E k \in DOMAIN answers : Supports(finding, files[Observation("juice", k)])
<1>1. \/ /\ RootAnswers(answers) # {}
         /\ ~answers[Root(answers)].response.hardened
         /\ finding = Finding("header-gaps", {"CONF-01"}, HeaderRef(kind, answers))
      \/ /\ ApiSeen(answers)
         /\ finding = Finding("api-surface", {"INFO-06", "APIT-01"}, Index)
      \/ /\ ExtractSurface(answers)
         /\ finding = Finding("client-review", {"CLNT-01", "CLNT-04"}, Surface)
  BY DEF CandidateFindings, ReasonIf
<1>2. CASE /\ ApiSeen(answers)
           /\ finding = Finding("api-surface", {"INFO-06", "APIT-01"}, Index)
  <2>1. finding.id = "api-surface" /\ finding.ref = Index
    BY <1>2 DEF Finding
  <2> QED BY <1>2, <2>1 DEF Supports
<1>3. CASE /\ ExtractSurface(answers)
           /\ finding = Finding("client-review", {"CLNT-01", "CLNT-04"}, Surface)
  <2>1. finding.id = "client-review" /\ finding.ref = Surface
    BY <1>3 DEF Finding
  <2> QED BY <1>3, <2>1 DEF Supports
<1>4. CASE /\ RootAnswers(answers) # {}
           /\ ~answers[Root(answers)].response.hardened
           /\ finding = Finding("header-gaps", {"CONF-01"}, HeaderRef(kind, answers))
  <2> DEFINE root == Root(answers)
  <2>1. /\ root \in RootAnswers(answers) /\ root \in DOMAIN answers
        /\ \A j \in RootAnswers(answers) : root <= j
        /\ root \in Nat /\ 1 <= root
    BY <1>4, RootIsFirst
  <2>2. answers[root].path = "/"
    BY <2>1 DEF RootAnswers
  <2>3. finding.id = "header-gaps" /\ finding.ref = HeaderRef(kind, answers)
    BY <1>4 DEF Finding
  <2>4. CASE kind = "generic" /\ Responded(answers[root].response)
    <3>1. finding.ref = Observation(kind, root)
      BY <2>3, <2>4 DEF HeaderRef
    <3>2. files[finding.ref] = answers[root]
      BY <2>1, <3>1
    <3> QED BY <1>4, <2>2, <2>3, <2>4, <3>2 DEF Supports
  <2>5. CASE kind = "juice" /\ firsts = "/" /\ Responded(answers[root].response)
    <3>1. finding.ref = Observation(kind, 1)
      BY <2>3, <2>5 DEF HeaderRef
    <3>2. 1 \in DOMAIN answers
      <4>1. Len(answers) \in Nat /\ DOMAIN answers = 1 .. Len(answers)
        BY LenProperties DEF IsSeq
      <4> QED BY <2>1, <4>1
    <3>3. 1 \in RootAnswers(answers)
      BY <2>5, <3>2 DEF RootAnswers
    <3>4. root = 1
      BY <2>1, <3>3
    <3>5. files[finding.ref] = answers[root]
      BY <3>1, <3>2, <3>4
    <3> QED BY <1>4, <2>2, <2>3, <2>5, <3>5 DEF Supports
  <2>6. CASE kind = "juice" /\ firsts # "/" /\ Responded(answers[root].response)
    <3>1. files[Observation("juice", root)] = answers[root]
      BY <2>1, <2>6
    <3>2. Supports(finding, files[Observation("juice", root)])
      BY <1>4, <2>2, <2>3, <2>6, <3>1 DEF Supports
    <3> QED BY <2>1, <2>3, <2>6, <3>2
  <2>7. CASE ~Responded(answers[root].response)
    BY <1>4, <2>3, <2>7 DEF RootFailed
  <2> QED BY <2>4, <2>5, <2>6, <2>7
<1> QED BY <1>1, <1>2, <1>3, <1>4

-----------------------------------------------------------------------------
(* What a write does to the account.                                       *)

\* The memory after a write.
LEMMA AfterSave ==
  ASSUME NEW content, NEW r, IsMemory(r), Save(content, r), r.artifacts = run.artifacts
  PROVE  /\ run'.pc = r.pc /\ run'.kind = r.kind /\ run'.config = r.config
         /\ run'.log = r.log /\ run'.answers = r.answers /\ run'.observed = r.observed
         /\ Has(run', Target(run), content)
         /\ \A f, c : f # Target(run) /\ Has(run, f, c) => Has(run', f, c)
<1> DEFINE file == Target(run)
           kept == Put(run.artifacts, file, content)
<1>1. run' = [r EXCEPT !.artifacts = kept]
  BY DEF Save
<1>2. run' = [pc |-> r.pc, kind |-> r.kind, config |-> r.config, log |-> r.log,
              answers |-> r.answers, observed |-> r.observed, findings |-> r.findings,
              proofs |-> r.proofs, artifacts |-> kept]
  <2> HIDE DEF kept
  <2> QED BY <1>1 DEF IsMemory
<1> HIDE DEF kept
<1>3. /\ run'.pc = r.pc /\ run'.kind = r.kind /\ run'.config = r.config
      /\ run'.log = r.log /\ run'.answers = r.answers /\ run'.observed = r.observed
      /\ run'.artifacts = kept
  BY <1>2
<1> HIDE DEF file
<1>4. /\ DOMAIN kept = DOMAIN run.artifacts \cup {file}
      /\ kept[file] = content
      /\ \A f \in DOMAIN run.artifacts \ {file} : kept[f] = run.artifacts[f]
  BY DEF kept, Put
<1>5. Has(run', file, content)
  BY <1>3, <1>4 DEF Has
<1>6. \A f, c : f # file /\ Has(run, f, c) => Has(run', f, c)
  BY <1>3, <1>4 DEF Has
<1> QED BY <1>3, <1>5, <1>6 DEF file

\* Which write is about which derived file.
LEMMA DerivedTargets ==
  ASSUME Shape(run), run.pc \notin {"idle", "fetch", "done"}
  PROVE  /\ Target(run) = Queue <=> run.pc = "queue"
         /\ Target(run) = Surface <=> run.pc = "surface"
         /\ Target(run) = FindingsFile <=> run.pc = "findings"
         /\ Target(run) = ProofsFile <=> run.pc = "proofs"
         /\ Target(run) = Benchmark <=> run.pc = "benchmark"
         /\ Target(run) = Index <=> run.pc = "index"
BY DEF Shape, Steps, Target, FileAt, PlanFile, Observation, Named, Queue, Surface,
       FindingsFile, ProofsFile, Benchmark, StateFile, DecisionsFile, Index, Report,
       FinalState, Sums, Result

\* No derived file is passed without being written.
LEMMA NothingSkipped ==
  ASSUME Shape(run), run.pc \notin {"idle", "fetch", "done"}
  PROVE  LET next == Following(run)
         IN  /\ run.kind = "generic" /\ next \notin Early =>
                  run.pc = "queue" \/ run.pc \notin Early
             /\ next \notin BeforeSurface =>
                  run.pc = "surface" \/ run.pc \notin BeforeSurface
             /\ next \notin BeforeFindings =>
                  run.pc = "findings" \/ run.pc \notin BeforeFindings
             /\ run.kind = "generic" /\ next \notin BeforeProofs =>
                  run.pc = "proofs" \/ run.pc \notin BeforeProofs
             /\ next \notin BeforeBenchmark =>
                  run.pc = "benchmark" \/ run.pc \notin BeforeBenchmark
             /\ next \notin BeforeIndex(run.kind) =>
                  run.pc = "index" \/ run.pc \notin BeforeIndex(run.kind)
             /\ next = "fetch" => Requests(run.config) # <<>>
             /\ next = "findings" => run.pc = "surface"
BY DEF Shape, Steps, Following, JuiceNext, GenericNext, Early, BeforeSurface,
       BeforeFindings, BeforeProofs, BeforeBenchmark, BeforeIndex

\* What the write at hand derives.
Derives(content) ==
  /\ run.pc = "queue" => content = QueueOf(run.config)
  /\ run.pc = "surface" => content = ExtractSurface(run.answers)
  /\ run.pc = "findings" => content = CandidateFindings(run.kind, run.answers)
  /\ run.pc = "proofs" => content = ProofsOf(run.config, run.observed)
  /\ run.pc = "benchmark" => content = Compare(run.observed)
  /\ run.pc = "index" => content = run.answers

\* A run that goes on to its next write: only the surface and the findings of
\* the Juice Shop runner add to what was observed.
GoesOn(r) ==
  /\ IsMemory(r)
  /\ r.pc = Following(run) /\ r.kind = run.kind /\ r.config = run.config
  /\ r.answers = run.answers /\ r.artifacts = run.artifacts
  /\ \A id : NamedIn(run.log, id) => NamedIn(r.log, id)
  /\ \/ r.observed = run.observed
     \/ run.kind = "juice" /\ run.pc \in {"surface", "findings"}

\* The files derived so far stay, and the one that is written is derived.
LEMMA DerivedAfterWrite ==
  ASSUME Shape(run), Derived(run, run.pc), run.pc \notin {"idle", "fetch", "done"},
         NEW content, NEW r, Save(content, r), GoesOn(r), Derives(content)
  PROVE  Derived(run', run'.pc)
<1> DEFINE next == Following(run)
<1>1. /\ run'.pc = next /\ run'.config = run.config /\ run'.answers = run.answers
      /\ run'.observed = r.observed
      /\ Has(run', Target(run), content)
      /\ \A f, c : f # Target(run) /\ Has(run, f, c) => Has(run', f, c)
  BY AfterSave DEF GoesOn
<1>2. run.config.kind = run.kind
  BY DEF Shape
<1>3. \/ r.observed = run.observed
      \/ run.kind = "juice" /\ run.pc \in {"surface", "findings"}
  BY DEF GoesOn
<1> HIDE DEF next
<1>4. run.kind = "generic" /\ next \notin Early => Has(run', Queue, QueueOf(run.config))
  BY <1>1, <1>2, DerivedTargets, NothingSkipped DEF Derived, Derives, next
<1>5. next \notin BeforeSurface => Has(run', Surface, ExtractSurface(run.answers))
  BY <1>1, DerivedTargets, NothingSkipped DEF Derived, Derives, next
<1>6. next \notin BeforeFindings =>
        Has(run', FindingsFile, CandidateFindings(run.kind, run.answers))
  BY <1>1, <1>2, DerivedTargets, NothingSkipped DEF Derived, Derives, next
<1>7. run.kind = "generic" /\ next \notin BeforeProofs =>
        Has(run', ProofsFile, ProofsOf(run.config, r.observed))
  <2>1. run.kind = "generic" => r.observed = run.observed /\ run.kind # "juice"
    BY <1>3
  <2> QED BY <1>1, <1>2, <2>1, DerivedTargets, NothingSkipped DEF Derived, Derives, next
<1>8. next \notin BeforeBenchmark => Has(run', Benchmark, Compare(r.observed))
  <2>1. next \notin BeforeBenchmark => run.pc \notin {"surface", "findings"}
    BY NothingSkipped DEF next, BeforeBenchmark, BeforeProofs, BeforeFindings,
                          BeforeSurface
  <2> QED BY <1>1, <1>3, <2>1, DerivedTargets, NothingSkipped DEF Derived, Derives, next
<1>9. next \notin BeforeIndex(run.kind) => Has(run', Index, run.answers)
  BY <1>1, <1>2, DerivedTargets, NothingSkipped DEF Derived, Derives, next
<1> QED BY <1>1, <1>2, <1>4, <1>5, <1>6, <1>7, <1>8, <1>9 DEF Derived

\* A write that names what it observes keeps the account.
LEMMA WriteTells ==
  ASSUME Shape(run), Tells(run, run.pc), run.pc \notin {"idle", "fetch", "done"},
         NEW content, NEW r, Save(content, r), GoesOn(r), Derives(content),
         \A id \in r.observed :
           \/ NamedIn(r.log, id)
           \/ /\ run.kind = "juice" /\ run.pc = "surface"
              /\ id \in {"CLNT-01", "CLNT-04"}
              /\ ExtractSurface(run.answers),
         run.kind = "juice" /\ "APIT-01" \in r.observed => ApiSeen(run.answers),
         run.kind = "generic" => r.observed = run.observed
  PROVE  Tells(run', run'.pc)
<1>1. /\ run'.pc = Following(run) /\ run'.config = run.config
      /\ run'.answers = run.answers /\ run'.observed = r.observed /\ run'.log = r.log
  BY AfterSave DEF GoesOn
<1>2. run.config.kind = run.kind
  BY DEF Shape
<1>3. Derived(run', run'.pc)
  BY DerivedAfterWrite DEF Tells
<1>4. run.pc = "surface" /\ run.kind = "juice" => Following(run) = "findings"
  BY DEF Following, JuiceNext
<1>5. Claimed(run', run'.pc)
  BY <1>1, <1>2, <1>4 DEF Claimed
<1>6. Answered(run', run'.pc)
  BY <1>1, <1>2, NothingSkipped DEF Answered, Tells
<1> QED BY <1>1, <1>3, <1>5, <1>6 DEF Tells

\* A write before the last two keeps the invariant if it keeps the account.
LEMMA SaveKeepsEInv ==
  ASSUME EInv, NEW content, NEW r, Save(content, r), Target(run) # Sums,
         Tells(run', run'.pc), run'.pc # "resums"
  PROVE  EInv'
<1>1. sealed' = sealed /\ disk' = Put(disk, Target(run), content)
  BY DEF Save
<1>2. Sums \in DOMAIN disk' => Sums \in DOMAIN disk /\ disk'[Sums] = disk[Sums]
  BY <1>1 DEF Put
<1> QED BY <1>1, <1>2 DEF EInv

\* A write that observes nothing keeps it.
LEMMA QuietWrite ==
  ASSUME IInv, EInv,
         run.pc \notin {"idle", "fetch", "done", "sums", "result", "resums"},
         run.pc = "findings" => run.kind = "generic",
         NEW content, NEW r, Save(content, r), GoesOn(r), Derives(content),
         r.observed = run.observed
  PROVE  EInv'
<1>1. Shape(run) /\ Tells(run, run.pc)
  BY DEF IInv, Memory, EInv
<1>2. run.config.kind = run.kind
  BY <1>1 DEF Shape
<1>3. \A id \in r.observed : NamedIn(r.log, id)
  BY <1>1, <1>2 DEF Tells, Claimed, GoesOn
<1>4. run.kind = "juice" /\ "APIT-01" \in r.observed => ApiSeen(run.answers)
  BY <1>1, <1>2 DEF Tells, Answered
<1>5. Tells(run', run'.pc)
  BY <1>1, <1>3, <1>4, WriteTells
<1>6. run'.pc # "resums"
  BY <1>1, AfterSave, AdvancedShape DEF GoesOn
<1>7. Target(run) # Sums
  BY <1>1, TargetNotSums
<1> QED BY <1>5, <1>6, <1>7, SaveKeepsEInv

-----------------------------------------------------------------------------
(* Each step keeps the account.                                            *)

\* A run that only advances goes on.
LEMMA AdvancedGoesOn ==
  ASSUME Shape(run), run.pc \notin {"idle", "fetch", "done"}
  PROVE  GoesOn(Advanced(run)) /\ Advanced(run).observed = run.observed
<1>1. Advanced(run) = [pc |-> Following(run), kind |-> run.kind,
              config |-> run.config, log |-> run.log, answers |-> run.answers,
              observed |-> run.observed, findings |-> run.findings,
              proofs |-> run.proofs, artifacts |-> run.artifacts]
  BY AdvancedShape
<1> DEFINE r == Advanced(run)
<1> HIDE DEF r
<1>2. GoesOn(r) /\ r.observed = run.observed
  BY <1>1 DEF GoesOn, IsMemory, r
<1> QED BY <1>2 DEF r

\* A decision that is added names its tests, and all others stay named.
LEMMA GrownLogNames ==
  ASSUME NEW log, IsSeq(log), NEW decision
  PROVE  \A id : NamedIn(log, id) \/ id \in decision.ids
                 => NamedIn(Append(log, decision), id)
<1> DEFINE longer == Append(log, decision)
<1>1. /\ Len(log) \in Nat
      /\ DOMAIN log = 1 .. Len(log)
      /\ DOMAIN longer = 1 .. Len(log) + 1
      /\ \A k \in 1 .. Len(log) : longer[k] = log[k]
      /\ longer[Len(log) + 1] = decision
  BY AppendedSeq
<1> HIDE DEF longer
<1>2. \A k \in DOMAIN log : k \in DOMAIN longer /\ longer[k] = log[k]
  BY <1>1
<1>3. Len(log) + 1 \in DOMAIN longer
  BY <1>1
<1>4. \A id : NamedIn(log, id) => NamedIn(longer, id)
  BY <1>2 DEF NamedIn
<1>5. \A id : id \in decision.ids => NamedIn(longer, id)
  BY <1>1, <1>3 DEF NamedIn
<1> QED BY <1>4, <1>5 DEF longer

\* A run that records a decision names its tests.
LEMMA RecordingNames ==
  ASSUME Shape(run), run.pc \notin {"idle", "fetch", "done"},
         NEW action, NEW ids, NEW refs, NEW observed, NEW findings, NEW proofs
  PROVE  LET r == Recording(action, ids, refs, observed, findings, proofs)
         IN  /\ IsMemory(r)
             /\ r.pc = Following(run) /\ r.kind = run.kind /\ r.config = run.config
             /\ r.answers = run.answers /\ r.artifacts = run.artifacts
             /\ r.observed = observed
             /\ \A id : NamedIn(run.log, id) \/ id \in ids => NamedIn(r.log, id)
<1> DEFINE d == Decision(action, "completed", ids, refs)
           log == Append(run.log, d)
           r == Recording(action, ids, refs, observed, findings, proofs)
<1>1. Advanced(run) = [pc |-> Following(run), kind |-> run.kind,
              config |-> run.config, log |-> run.log, answers |-> run.answers,
              observed |-> run.observed, findings |-> run.findings,
              proofs |-> run.proofs, artifacts |-> run.artifacts]
  BY AdvancedShape
<1>2. Decided(Advanced(run), action, ids, refs).log = log
  BY <1>1 DEF Decided
<1>3. d.ids = ids
  BY DEF Decision
<1> HIDE DEF d
<1>4. \A id : NamedIn(run.log, id) \/ id \in ids => NamedIn(log, id)
  BY <1>3, GrownLogNames DEF Shape
<1> HIDE DEF log
<1>5. r = [pc |-> Following(run), kind |-> run.kind, config |-> run.config, log |-> log,
           answers |-> run.answers, observed |-> observed, findings |-> findings,
           proofs |-> proofs, artifacts |-> run.artifacts]
  BY <1>2 DEF Recording
<1> HIDE DEF r
<1>6. /\ IsMemory(r)
      /\ r.pc = Following(run) /\ r.kind = run.kind /\ r.config = run.config
      /\ r.answers = run.answers /\ r.artifacts = run.artifacts
      /\ r.observed = observed /\ r.log = log
  BY <1>5 DEF IsMemory
<1> QED BY <1>4, <1>6 DEF r

\* Writes that record no decision.
LEMMA AdvancingWritesTell ==
  ASSUME IInv, EInv,
         \/ WriteBenchmark \/ WriteState \/ WriteDecisions \/ WriteFinalState
         \/ WritePlan /\ run.kind = "generic"
         \/ WriteIndex /\ run.kind = "generic"
         \/ WriteReport /\ run.kind = "juice"
  PROVE  EInv'
<1>1. /\ run.pc \in {"benchmark", "state", "decisions", "final", "plan", "index", "report"}
      /\ \E content : Save(content, Advanced(run)) /\ Derives(content)
  BY DEF WriteBenchmark, WriteState, WriteDecisions, WriteFinalState, WritePlan,
         WriteIndex, WriteReport, Derives
<1>2. PICK content : Save(content, Advanced(run)) /\ Derives(content)
  BY <1>1
<1>3. Shape(run)
  BY <1>1 DEF IInv, Memory
<1>4. GoesOn(Advanced(run)) /\ Advanced(run).observed = run.observed
  BY <1>1, <1>3, AdvancedGoesOn
<1> QED BY <1>1, <1>2, <1>4, QuietWrite

\* Writes that record a decision and observe nothing.
LEMMA RecordingWritesTell ==
  ASSUME IInv, EInv, NEW content, NEW action, NEW ids, NEW refs, NEW findings, NEW proofs,
         Save(content, Recording(action, ids, refs, run.observed, findings, proofs)),
         run.pc \notin {"idle", "fetch", "done", "sums", "result", "resums"},
         run.pc = "findings" => run.kind = "generic",
         Derives(content)
  PROVE  EInv'
<1> DEFINE r == Recording(action, ids, refs, run.observed, findings, proofs)
<1>1. Shape(run)
  BY DEF IInv, Memory
<1>2. GoesOn(r) /\ r.observed = run.observed
  BY <1>1, RecordingNames DEF GoesOn
<1> HIDE DEF r
<1>3. Save(content, r)
  BY DEF r
<1> QED BY <1>2, <1>3, QuietWrite

\* The decisions that each runner records itself.
LEMMA DecidingWritesTell ==
  ASSUME IInv, EInv,
         \/ WritePlan /\ run.kind = "juice"
         \/ WriteQueue
         \/ WriteIndex /\ run.kind = "juice"
         \/ WriteReport /\ run.kind = "generic"
  PROVE  EInv'
<1>1. Shape(run)
  BY DEF IInv, Memory, WritePlan, WriteQueue, WriteIndex, WriteReport
<1>2. CASE WritePlan /\ run.kind = "juice"
  <2>1. Save(BuildPlan(run.config.profile),
             Recording("build_plan", {}, {PlanFile("juice")},
                       run.observed, run.findings, run.proofs))
    BY <1>1, <1>2, DecidedIsRecording DEF WritePlan
  <2>2. run.pc = "plan"
    BY <1>2 DEF WritePlan
  <2>3. Derives(BuildPlan(run.config.profile))
    BY <2>2 DEF Derives
  <2> QED BY <2>1, <2>2, <2>3, RecordingWritesTell
<1>3. CASE WriteQueue
  <2> DEFINE content == QueueOf(run.config)
  <2>1. Save(content,
             Recording("build_plan", {}, {PlanFile("generic"), Queue},
                       run.observed, run.findings, run.proofs))
    BY <1>1, <1>3, DecidedIsRecording DEF WriteQueue, QueueOf
  <2>2. run.pc = "queue"
    BY <1>3 DEF WriteQueue
  <2>3. Derives(content)
    BY <2>2 DEF Derives
  <2> HIDE DEF content
  <2> QED BY <2>1, <2>2, <2>3, RecordingWritesTell
<1>4. CASE WriteIndex /\ run.kind = "juice"
  <2>1. Save(run.answers,
             Recording("compare_benchmark", run.observed,
                       {Benchmark, Report, DecisionsFile, Index},
                       run.observed, run.findings, run.proofs))
    BY <1>1, <1>4, DecidedIsRecording DEF WriteIndex
  <2>2. run.pc = "index"
    BY <1>4 DEF WriteIndex
  <2>3. Derives(run.answers)
    BY <2>2 DEF Derives
  <2> QED BY <2>1, <2>2, <2>3, RecordingWritesTell
<1>5. CASE WriteReport /\ run.kind = "generic"
  <2>1. Save(ReportOf(run),
             Recording("write_package", run.observed,
                       {Benchmark, StateFile, DecisionsFile, Index, Report},
                       run.observed, run.findings, run.proofs))
    BY <1>1, <1>5, DecidedIsRecording DEF WriteReport
  <2>2. run.pc = "report"
    BY <1>5 DEF WriteReport
  <2>3. Derives(ReportOf(run))
    BY <2>2 DEF Derives
  <2> QED BY <2>1, <2>2, <2>3, RecordingWritesTell
<1> QED BY <1>2, <1>3, <1>4, <1>5

\* The surface keeps the account: the Juice Shop runner observes two tests
\* that its next decision names.
LEMMA WriteSurfaceTells ==
  ASSUME IInv, EInv, WriteSurface
  PROVE  EInv'
<1> DEFINE content == ExtractSurface(run.answers)
           ids == IF run.kind = "juice" THEN {"INFO-05", "INFO-06", "INFO-08"}
                  ELSE run.observed
           observed == IF run.kind = "juice" /\ content
                       THEN run.observed \cup {"CLNT-01", "CLNT-04"} ELSE run.observed
           r == Recording("derive_surface", ids, {Surface},
                          observed, run.findings, run.proofs)
<1>1. Shape(run) /\ Tells(run, run.pc) /\ run.pc = "surface"
  BY DEF IInv, Memory, EInv, WriteSurface
<1>2. Save(content, r)
  BY <1>1, SurfaceRecorded
<1>3. Derives(content)
  BY <1>1 DEF Derives
<1>4. /\ observed = run.observed \/ run.kind = "juice"
      /\ \A id \in observed :
           \/ id \in run.observed
           \/ run.kind = "juice" /\ id \in {"CLNT-01", "CLNT-04"} /\ content
      /\ "APIT-01" \in observed => "APIT-01" \in run.observed
  OBVIOUS
<1>5. run.config.kind = run.kind
  BY <1>1 DEF Shape
<1>6. \A id \in run.observed : NamedIn(run.log, id)
  BY <1>1 DEF Tells, Claimed
<1>7. run.kind = "juice" /\ "APIT-01" \in run.observed => ApiSeen(run.answers)
  BY <1>1, <1>5 DEF Tells, Answered
<1> HIDE DEF observed, ids
<1>8. /\ IsMemory(r)
      /\ r.pc = Following(run) /\ r.kind = run.kind /\ r.config = run.config
      /\ r.answers = run.answers /\ r.artifacts = run.artifacts
      /\ r.observed = observed
      /\ \A id : NamedIn(run.log, id) => NamedIn(r.log, id)
  BY <1>1, RecordingNames
<1> HIDE DEF r
<1>9. GoesOn(r)
  BY <1>1, <1>4, <1>8 DEF GoesOn
<1>10. Tells(run', run'.pc)
  <2>1. \A id \in r.observed :
           \/ NamedIn(r.log, id)
           \/ /\ run.kind = "juice" /\ run.pc = "surface"
              /\ id \in {"CLNT-01", "CLNT-04"}
              /\ ExtractSurface(run.answers)
    BY <1>1, <1>4, <1>6, <1>8
  <2>2. run.kind = "juice" /\ "APIT-01" \in r.observed => ApiSeen(run.answers)
    BY <1>4, <1>7, <1>8
  <2>3. run.kind = "generic" => r.observed = run.observed
    BY <1>4, <1>8
  <2> HIDE DEF content
  <2> QED BY <1>1, <1>2, <1>3, <1>9, <2>1, <2>2, <2>3, WriteTells
<1>11. run'.pc # "resums"
  <2> HIDE DEF content
  <2> QED BY <1>1, <1>2, <1>8, AfterSave, AdvancedShape
<1>12. Target(run) # Sums
  BY <1>1, TargetNotSums
<1> HIDE DEF content
<1> QED BY <1>2, <1>10, <1>11, <1>12, SaveKeepsEInv

\* The findings that are written name the tests the surface has shown, and
\* the test of the API only if an API answered.
LEMMA FindingIds ==
  ASSUME NEW kind, NEW answers
  PROVE  LET ids == IdsOf(CandidateFindings(kind, answers))
         IN  /\ ExtractSurface(answers) => {"CLNT-01", "CLNT-04"} \subseteq ids
             /\ "APIT-01" \in ids => ApiSeen(answers)
<1> DEFINE findings == CandidateFindings(kind, answers)
           client == Finding("client-review", {"CLNT-01", "CLNT-04"}, Surface)
<1>1. ExtractSurface(answers) => client \in findings
  BY DEF CandidateFindings, ReasonIf
<1>2. client.ids = {"CLNT-01", "CLNT-04"}
  BY DEF Finding
<1>3. ExtractSurface(answers) => {"CLNT-01", "CLNT-04"} \subseteq IdsOf(findings)
  <2> HIDE DEF client, findings
  <2> QED BY <1>1, <1>2 DEF IdsOf
<1>4. ASSUME NEW f \in findings, "APIT-01" \in f.ids
      PROVE  ApiSeen(answers)
  <2>1. \/ f = Finding("header-gaps", {"CONF-01"}, HeaderRef(kind, answers))
        \/ ApiSeen(answers)
        \/ f = client
    BY DEF CandidateFindings, ReasonIf
  <2>2. CASE f = Finding("header-gaps", {"CONF-01"}, HeaderRef(kind, answers))
    BY <1>4, <2>2 DEF Finding
  <2>3. CASE f = client
    BY <1>2, <1>4, <2>3
  <2> QED BY <2>1, <2>2, <2>3
<1> HIDE DEF findings
<1>5. "APIT-01" \in IdsOf(findings) => ApiSeen(answers)
  BY <1>4 DEF IdsOf
<1> QED BY <1>3, <1>5 DEF findings

\* The findings keep the account.
LEMMA WriteFindingsTells ==
  ASSUME IInv, EInv, WriteFindings
  PROVE  EInv'
<1> DEFINE content == CandidateFindings(run.kind, run.answers)
           ids == IdsOf(content)
           observed == IF run.kind = "juice" THEN run.observed \cup ids ELSE run.observed
           r == Recording("create_candidates", ids, {FindingsFile},
                          observed, content, run.proofs)
<1>1. Shape(run) /\ Tells(run, run.pc) /\ run.pc = "findings"
  BY DEF IInv, Memory, EInv, WriteFindings
<1>2. Save(content, r)
  BY <1>1, FindingsRecorded
<1>3. Derives(content)
  BY <1>1 DEF Derives
<1>4. /\ observed = run.observed \/ run.kind = "juice"
      /\ \A id \in observed : id \in run.observed \/ id \in ids
      /\ run.kind = "juice" /\ "APIT-01" \in observed =>
           "APIT-01" \in run.observed \/ "APIT-01" \in ids
  OBVIOUS
<1>5. run.config.kind = run.kind
  BY <1>1 DEF Shape
<1>6. /\ ExtractSurface(run.answers) => {"CLNT-01", "CLNT-04"} \subseteq ids
      /\ "APIT-01" \in ids => ApiSeen(run.answers)
  BY FindingIds
<1> HIDE DEF observed, ids, content
<1>7. \A id \in run.observed : NamedIn(run.log, id) \/ id \in ids
  BY <1>1, <1>6 DEF Tells, Claimed
<1>8. run.kind = "juice" /\ "APIT-01" \in run.observed => ApiSeen(run.answers)
  BY <1>1, <1>5 DEF Tells, Answered
<1>9. /\ IsMemory(r)
      /\ r.pc = Following(run) /\ r.kind = run.kind /\ r.config = run.config
      /\ r.answers = run.answers /\ r.artifacts = run.artifacts
      /\ r.observed = observed
      /\ \A id : NamedIn(run.log, id) \/ id \in ids => NamedIn(r.log, id)
  BY <1>1, RecordingNames
<1> HIDE DEF r
<1>10. GoesOn(r)
  BY <1>1, <1>4, <1>9 DEF GoesOn
<1>11. Tells(run', run'.pc)
  <2>1. \A id \in r.observed : NamedIn(r.log, id)
    BY <1>4, <1>7, <1>9
  <2>2. run.kind = "juice" /\ "APIT-01" \in r.observed => ApiSeen(run.answers)
    BY <1>4, <1>6, <1>8, <1>9
  <2>3. run.kind = "generic" => r.observed = run.observed
    BY <1>4, <1>9
  <2> QED BY <1>1, <1>2, <1>3, <1>10, <2>1, <2>2, <2>3, WriteTells
<1>12. run'.pc # "resums"
  BY <1>1, <1>2, <1>9, AfterSave, AdvancedShape
<1>13. Target(run) # Sums
  BY <1>1, TargetNotSums
<1> QED BY <1>2, <1>11, <1>12, <1>13, SaveKeepsEInv

\* The proof requests keep the account.
LEMMA WriteProofsTells ==
  ASSUME IInv, EInv, WriteProofs
  PROVE  EInv'
<1> DEFINE content == ProofsOf(run.config, run.observed)
<1>1. Shape(run) /\ run.pc = "proofs"
  BY DEF IInv, Memory, WriteProofs
<1>2. Derives(content)
  BY <1>1 DEF Derives
<1>3. PICK ids : Save(content, Recording("request_missing_proof", ids, {ProofsFile},
                                         run.observed, run.findings, content))
  BY <1>1, ProofsRecorded DEF ProofsOf
<1> HIDE DEF content
<1> QED BY <1>1, <1>2, <1>3, RecordingWritesTell

\* What an answer adds is named by the decision about it; the API test is
\* only added by an API, and the first answer is that of the first path.
LEMMA FetchedIds ==
  ASSUME Shape(run), run.pc = "fetch", Tells(run, "fetch"), run.kind = "juice",
         NEW response
  PROVE  /\ "APIT-01" \in FetchIds(response) => response.json
         /\ Len(run.answers) = 0 => FetchPath = run.config.paths[1]
<1>1. "APIT-01" \in FetchIds(response) => response.json
  BY DEF FetchIds, ObservedIds, IdsFromObservation, ReasonIf
<1>2. run.config.kind = "juice" /\ run.config \in Configs /\ ConfigOK(run.config)
  BY DEF Shape, Tells
<1>3. run.config.paths \in Seq(STRING)
  BY <1>2, ConfigsAssumption
<1>4. run.config.maxActions \in 1 .. 50
  BY <1>2 DEF ConfigOK, JuiceConfigOK
<1>5. /\ Requests(run.config) = UniquePaths(run.config.paths, run.config.maxActions)
      /\ Requests(run.config) # <<>>
  BY <1>2 DEF Requests, Tells, Answered
<1>6. Requests(run.config)[1] = run.config.paths[1]
  BY <1>3, <1>4, <1>5, FirstPath
<1>7. Len(run.answers) = 0 => Len(run.answers) + 1 = 1
  OBVIOUS
<1> QED BY <1>1, <1>6, <1>7 DEF FetchPath

\* Answered or failed, a request adds its tests to those of the others.
LEMMA ObservedByAnswers ==
  ASSUME NEW before, NEW after, NEW n \in Nat,
         DOMAIN before = 1 .. n, DOMAIN after = 1 .. n + 1,
         \A j \in 1 .. n : after[j] = before[j]
  PROVE  AnsweredIds(after) \cup FailedIds(after)
           = AnsweredIds(before) \cup FailedIds(before) \cup after[n + 1].ids
<1>1. ASSUME NEW answers
      PROVE  AnsweredIds(answers) \cup FailedIds(answers)
               = UNION {answers[j].ids : j \in DOMAIN answers}
  BY DEF AnsweredIds, FailedIds
<1>2. UNION {after[j].ids : j \in 1 .. n + 1}
        = (UNION {before[j].ids : j \in 1 .. n}) \cup after[n + 1].ids
  <2>1. 1 .. n + 1 = (1 .. n) \cup {n + 1}
    OBVIOUS
  <2>2. ASSUME NEW id
        PROVE  (\E j \in 1 .. n : id \in after[j].ids) <=> (\E j \in 1 .. n : id \in before[j].ids)
    OBVIOUS
  <2>3. ASSUME NEW id
        PROVE  (\E j \in 1 .. n + 1 : id \in after[j].ids)
                 <=> (\E j \in 1 .. n : id \in after[j].ids) \/ id \in after[n + 1].ids
    BY <2>1, Zenon
  <2>4. ASSUME NEW id
        PROVE  id \in UNION {after[j].ids : j \in 1 .. n + 1}
                 <=> id \in (UNION {before[j].ids : j \in 1 .. n}) \cup after[n + 1].ids
    BY <2>2, <2>3
  <2> QED BY <2>4
<1> QED BY <1>1, <1>2

\* A request keeps the account: its decision names what its answer shows.
LEMMA FetchTells ==
  ASSUME IInv, EInv, NEW response, Fetch(response)
  PROVE  EInv'
<1> DEFINE k == Len(run.answers) + 1
           answer == FetchAnswer(response)
           decision == FetchDecision(response)
           ids == FetchIds(response)
           r == Fetching(response)
           answers == Append(run.answers, answer)
           log == Append(run.log, decision)
<1>1. Shape(run) /\ Tells(run, "fetch") /\ run.pc = "fetch"
  BY DEF IInv, Memory, EInv, Fetch
<1>2. Save(answer, r)
  BY <1>1, FetchRecorded
<1>3. Target(run) = Observation(run.kind, k)
  BY <1>1 DEF Target
<1>4. FetchPc \in {"surface", "fetch"}
  BY <1>1 DEF FetchPc
<1>5. decision.ids = ids /\ answer.path = FetchPath /\ answer.response = response
  BY DEF FetchDecision, Decision, FetchAnswer
<1> HIDE DEF ids, answer, decision
<1>6. /\ IsSeq(answers)
      /\ Len(run.answers) \in Nat
      /\ DOMAIN run.answers = 1 .. Len(run.answers)
      /\ DOMAIN answers = 1 .. k
      /\ \A j \in 1 .. Len(run.answers) : answers[j] = run.answers[j]
      /\ answers[k] = answer
  BY <1>1, AppendedSeq DEF Shape
<1>7. \A id : NamedIn(run.log, id) \/ id \in ids => NamedIn(log, id)
  BY <1>1, <1>5, GrownLogNames DEF Shape
<1> HIDE DEF answers, log
<1>8. r = [pc |-> FetchPc, kind |-> run.kind, config |-> run.config, log |-> log,
           answers |-> answers, observed |-> run.observed \cup ids,
           findings |-> run.findings, proofs |-> run.proofs,
           artifacts |-> run.artifacts]
  BY DEF Fetching, answers, log, answer, decision, ids
<1> HIDE DEF r
<1>9. /\ IsMemory(r) /\ r.artifacts = run.artifacts
      /\ r.pc = FetchPc /\ r.kind = run.kind /\ r.config = run.config
      /\ r.log = log /\ r.answers = answers /\ r.observed = run.observed \cup ids
  BY <1>8 DEF IsMemory
<1>10. /\ run'.pc = FetchPc /\ run'.config = run.config /\ run'.log = log
       /\ run'.answers = answers /\ run'.observed = run.observed \cup ids
       /\ \A f, c : f # Target(run) /\ Has(run, f, c) => Has(run', f, c)
  BY <1>2, <1>9, AfterSave
<1>11. run.config.kind = run.kind
  BY <1>1 DEF Shape
<1>12. Derived(run', run'.pc)
  <2>1. Queue # Target(run) /\ "fetch" \notin Early
    BY <1>3 DEF Queue, Named, Observation, Early
  <2>2. run.config.kind = "generic" => Has(run, Queue, QueueOf(run.config))
    BY <1>1, <2>1 DEF Tells, Derived
  <2>3. run.config.kind = "generic" => Has(run', Queue, QueueOf(run.config))
    BY <1>10, <2>1, <2>2
  <2>4. run'.pc \in BeforeSurface
    BY <1>4, <1>10 DEF BeforeSurface
  <2> QED
    BY <1>10, <2>3, <2>4
    DEF Derived, BeforeSurface, BeforeFindings, BeforeProofs, BeforeBenchmark, BeforeIndex
<1>13. Claimed(run', run'.pc)
  <2>1. \A id \in run.observed : NamedIn(run.log, id)
    BY <1>1 DEF Tells, Claimed
  <2> QED BY <1>7, <1>10, <2>1 DEF Claimed
<1>14. Answered(run', run'.pc)
  <2>1. run'.pc = "fetch" => Requests(run.config) # <<>>
    BY <1>1 DEF Tells, Answered
  <2>2. ASSUME run.kind = "juice", "APIT-01" \in run'.observed
        PROVE  ApiSeen(answers)
    <3>1. CASE "APIT-01" \in run.observed
      <4>1. ApiSeen(run.answers)
        BY <1>1, <1>11, <2>2, <3>1 DEF Tells, Answered
      <4>2. PICK j \in DOMAIN run.answers : run.answers[j].response.json
        BY <4>1 DEF ApiSeen
      <4>3. j \in DOMAIN answers /\ answers[j] = run.answers[j]
        BY <1>6
      <4> QED BY <4>2, <4>3 DEF ApiSeen
    <3>2. CASE "APIT-01" \in ids
      <4>1. response.json
        BY <1>1, <2>2, <3>2, FetchedIds DEF ids
      <4>2. k \in DOMAIN answers /\ answers[k].response.json
        BY <1>5, <1>6, <4>1
      <4> QED BY <4>2 DEF ApiSeen
    <3> QED BY <1>10, <2>2, <3>1, <3>2
  <2>3. ASSUME run.kind = "juice", run.config.paths[1] = "/"
        PROVE  answers[1].path = "/"
    <3>1. CASE Len(run.answers) = 0
      <4>1. FetchPath = "/"
        BY <1>1, <2>3, <3>1, FetchedIds
      <4>2. k = 1
        BY <3>1
      <4> QED BY <1>5, <1>6, <4>1, <4>2
    <3>2. CASE Len(run.answers) # 0
      <4>1. 1 \in DOMAIN run.answers /\ answers[1] = run.answers[1]
        BY <1>6, <3>2
      <4> QED BY <1>1, <1>11, <2>3, <4>1 DEF Tells, Answered
    <3> QED BY <3>1, <3>2
  <2>4. run.kind = "generic" =>
          run.observed \cup ids = AnsweredIds(answers) \cup FailedIds(answers)
    <3>1. run.kind = "generic" =>
            run.observed = AnsweredIds(run.answers) \cup FailedIds(run.answers)
      BY <1>1, <1>11 DEF Tells, Answered
    <3>2. answers[k].ids = ids
      BY <1>6 DEF answer, ids, FetchAnswer
    <3>3. AnsweredIds(answers) \cup FailedIds(answers)
            = AnsweredIds(run.answers) \cup FailedIds(run.answers) \cup answers[k].ids
      BY <1>6, ObservedByAnswers
    <3> QED BY <3>1, <3>2, <3>3
  <2> QED BY <1>10, <1>11, <2>1, <2>2, <2>3, <2>4 DEF Answered
<1>15. Tells(run', run'.pc)
  BY <1>1, <1>6, <1>10, <1>12, <1>13, <1>14 DEF Tells
<1>16. run'.pc # "resums"
  BY <1>4, <1>10
<1>17. Target(run) # Sums
  BY <1>3 DEF Observation, Sums, Named
<1> QED BY <1>2, <1>15, <1>16, <1>17, SaveKeepsEInv

\* From the first digests on, nothing that was derived is touched.
LEMMA DerivedStays ==
  ASSUME NEW r, Derived(r, r.pc), r.pc \in {"sums", "result", "resums"},
         NEW s, NEW pc \in {"result", "resums", "done"},
         s.config = r.config, s.answers = r.answers, s.observed = r.observed,
         \A f, c : f \notin {Sums, Result} /\ Has(r, f, c) => Has(s, f, c)
  PROVE  Derived(s, pc)
<1>1. \A kind : {"sums", "result", "resums", "done"} \cap BeforeIndex(kind) = {}
  BY DEF BeforeIndex, BeforeBenchmark, BeforeProofs, BeforeFindings, BeforeSurface, Early
<1>2. \A p \in {"sums", "result", "resums", "done"} :
         p \notin Early /\ p \notin BeforeSurface /\ p \notin BeforeFindings
         /\ p \notin BeforeProofs /\ p \notin BeforeBenchmark
  BY DEF BeforeBenchmark, BeforeProofs, BeforeFindings, BeforeSurface, Early
<1>3. {Sums, Result} \cap {Queue, Surface, FindingsFile, ProofsFile, Benchmark, Index} = {}
  BY DEF Sums, Result, Queue, Surface, FindingsFile, ProofsFile, Benchmark, Index, Named
<1>4. \A f, c : f \in {Queue, Surface, FindingsFile, ProofsFile, Benchmark, Index}
                /\ Has(r, f, c) => Has(s, f, c)
  BY <1>3
<1>5. r.config.kind = "generic" =>
        /\ Has(r, Queue, QueueOf(r.config))
        /\ Has(r, ProofsFile, ProofsOf(r.config, r.observed))
  BY <1>2 DEF Derived
<1>6. /\ Has(r, Surface, ExtractSurface(r.answers))
      /\ Has(r, FindingsFile, CandidateFindings(r.config.kind, r.answers))
      /\ Has(r, Benchmark, Compare(r.observed))
      /\ Has(r, Index, r.answers)
  BY <1>1, <1>2 DEF Derived
<1> QED BY <1>4, <1>5, <1>6 DEF Derived

\* So the account stays what it was.
LEMMA TellsStays ==
  ASSUME NEW r, Tells(r, r.pc), r.pc \in {"sums", "result", "resums"},
         NEW s, NEW pc \in {"result", "resums", "done"},
         s.config = r.config, s.answers = r.answers, s.observed = r.observed,
         s.log = r.log,
         \A f, c : f \notin {Sums, Result} /\ Has(r, f, c) => Has(s, f, c)
  PROVE  Tells(s, pc)
<1>1. Derived(s, pc)
  BY DerivedStays DEF Tells
<1>2. Claimed(s, pc)
  BY DEF Claimed, Tells
<1>3. Answered(s, pc)
  BY DEF Answered, Tells
<1> QED BY <1>1, <1>2, <1>3 DEF Tells

\* The first digests break the seal and leave the account.
LEMMA WriteFirstSumsTells ==
  ASSUME IInv, EInv, WriteFirstSums
  PROVE  EInv'
<1>1. /\ Shape(run) /\ Backed(run, disk) /\ Tells(run, run.pc) /\ run.pc = "sums"
      /\ disk' = Put(disk, Sums, Listing(disk)) /\ sealed' = FALSE
      /\ run' = [pc |-> "result", kind |-> run.kind, config |-> run.config,
           log |-> run.log, answers |-> run.answers, observed |-> run.observed,
           findings |-> run.findings, proofs |-> run.proofs, artifacts |-> Hashed]
  BY FirstSumsRecorded DEF IInv, Memory, EInv, WriteFirstSums
<1> DEFINE kept == Hashed
<1>2. /\ DOMAIN kept = DOMAIN run.artifacts \cup DOMAIN disk \cup {Sums}
      /\ \A f \in DOMAIN disk : kept[f] = disk'[f]
  BY DEF Hashed
<1>3. \A f \in DOMAIN disk \ {Sums} : disk'[f] = disk[f]
  BY <1>1 DEF Put
<1> HIDE DEF kept
<1>4. /\ run'.pc = "result" /\ run'.config = run.config /\ run'.log = run.log
      /\ run'.answers = run.answers /\ run'.observed = run.observed
      /\ run'.artifacts = kept
  BY <1>1 DEF kept
<1>5. ASSUME NEW f, NEW c, f \notin {Sums, Result}, Has(run, f, c)
      PROVE  Has(run', f, c)
  <2>1. f \in DOMAIN run.artifacts /\ run.artifacts[f] = c
    BY <1>5 DEF Has
  <2>2. f \in DOMAIN disk /\ disk[f] = c
    BY <1>1, <1>5, <2>1 DEF Backed
  <2> QED BY <1>2, <1>3, <1>4, <1>5, <2>1, <2>2 DEF Has
<1>6. Tells(run', "result")
  BY <1>1, <1>4, <1>5, TellsStays
<1> QED BY <1>1, <1>4, <1>6 DEF EInv

\* The account is handed on to the result.
LEMMA WriteResultTells ==
  ASSUME IInv, EInv, WriteResult
  PROVE  EInv'
<1> DEFINE result == ResultOf(run)
<1>1. Shape(run) /\ Tells(run, run.pc) /\ run.pc = "result" /\ Save(result, Advanced(run))
  BY DEF IInv, Memory, EInv, WriteResult
<1>2. /\ result.config = run.config /\ result.log = run.log
      /\ result.answers = run.answers /\ result.observed = run.observed
      /\ result.artifacts = run.artifacts
  BY DEF ResultOf
<1> HIDE DEF result
<1>3. Tells(result, "done")
  <2>1. \A f, c : f \notin {Sums, Result} /\ Has(run, f, c) => Has(result, f, c)
    BY <1>2 DEF Has
  <2> QED BY <1>1, <1>2, <2>1, TellsStays
<1>4. Target(run) = Result /\ Result # Sums
  BY <1>1 DEF Target, FileAt, Result, Sums, Named
<1>5. /\ run'.pc = "resums" /\ run'.config = run.config /\ run'.log = run.log
      /\ run'.answers = run.answers /\ run'.observed = run.observed
      /\ \A f, c : f # Target(run) /\ Has(run, f, c) => Has(run', f, c)
  <2> DEFINE r == Advanced(run)
  <2>1. Following(run) = "resums"
    BY <1>1 DEF Following, GenericNext, JuiceNext
  <2>2. r = [pc |-> "resums", kind |-> run.kind, config |-> run.config,
             log |-> run.log, answers |-> run.answers, observed |-> run.observed,
             findings |-> run.findings, proofs |-> run.proofs,
             artifacts |-> run.artifacts]
    BY <1>1, <2>1, AdvancedShape
  <2> HIDE DEF r
  <2>3. /\ IsMemory(r) /\ r.pc = "resums" /\ r.config = run.config /\ r.log = run.log
        /\ r.answers = run.answers /\ r.observed = run.observed
        /\ r.artifacts = run.artifacts
    BY <2>2 DEF IsMemory
  <2>4. Save(result, r)
    BY <1>1 DEF r
  <2> QED BY <2>3, <2>4, AfterSave
<1>6. Tells(run', "resums")
  <2>1. \A f, c : f \notin {Sums, Result} /\ Has(run, f, c) => Has(run', f, c)
    BY <1>4, <1>5
  <2> QED BY <1>1, <1>5, <2>1, TellsStays
<1>7. disk' = Put(disk, Result, result) /\ sealed' = sealed
  BY <1>1, <1>4 DEF Save
<1>8. /\ disk'[Result] = result
      /\ Sums \in DOMAIN disk' => Sums \in DOMAIN disk /\ disk'[Sums] = disk[Sums]
  BY <1>4, <1>7 DEF Put
<1> QED BY <1>3, <1>5, <1>6, <1>7, <1>8 DEF EInv

\* The last digests certify the account of the result.
LEMMA WriteLastSumsTells ==
  ASSUME IInv, EInv, WriteLastSums
  PROVE  EInv'
<1>1. /\ Shape(run) /\ Tells(run, run.pc) /\ run.pc = "resums"
      /\ Result \in DOMAIN disk /\ Tells(disk[Result], "done")
  BY DEF IInv, Memory, AtTheEnd, EInv, WriteLastSums
<1>2. disk' = Put(disk, Sums, Listing(disk)) /\ run' = [run EXCEPT !.pc = "done"]
  BY DEF WriteLastSums
<1>3. run' = [pc |-> "done", kind |-> run.kind, config |-> run.config, log |-> run.log,
              answers |-> run.answers, observed |-> run.observed,
              findings |-> run.findings, proofs |-> run.proofs,
              artifacts |-> run.artifacts]
  BY <1>1, <1>2 DEF Shape, IsMemory
<1>4. /\ run'.pc = "done" /\ run'.config = run.config /\ run'.log = run.log
      /\ run'.answers = run.answers /\ run'.observed = run.observed
      /\ run'.artifacts = run.artifacts
  BY <1>3
<1>5. Tells(run', "done")
  <2>1. \A f, c : f \notin {Sums, Result} /\ Has(run, f, c) => Has(run', f, c)
    BY <1>4 DEF Has
  <2> QED BY <1>1, <1>4, <2>1, TellsStays
<1>6. disk'[Sums][Result] = disk[Result]
  <2> DEFINE list == Listing(disk)
  <2>1. Result # Sums
    BY DEF Result, Sums, Named
  <2>2. list[Result] = disk[Result]
    BY <1>1, <2>1 DEF Listing
  <2> HIDE DEF list
  <2>3. disk'[Sums] = list
    BY <1>2 DEF Put, list
  <2> QED BY <2>2, <2>3
<1> QED BY <1>1, <1>4, <1>5, <1>6 DEF EInv

\* A run that starts has nothing to account for.
LEMMA StartTells ==
  ASSUME EInv, NEW config \in Configs, Start(config)
  PROVE  EInv'
<1>1. /\ run' = [pc |-> "plan", kind |-> config.kind, config |-> config, log |-> <<>>,
                 answers |-> <<>>, observed |-> {}, findings |-> {}, proofs |-> {},
                 artifacts |-> Empty]
      /\ ConfigOK(config)
      /\ disk' = disk /\ sealed' = sealed
  BY DEF Start
<1>2. /\ run'.pc = "plan" /\ run'.config = config /\ run'.answers = <<>>
      /\ run'.observed = {}
  BY <1>1
<1>3. IsSeq(<<>>) /\ DOMAIN <<>> = {}
  BY EmptySeq DEF IsSeq, Elements
<1>4. Derived(run', "plan")
  BY DEF Derived, BeforeIndex, BeforeBenchmark, BeforeProofs, BeforeFindings,
         BeforeSurface, Early
<1>5. Claimed(run', "plan")
  BY <1>2 DEF Claimed
<1>6. Answered(run', "plan")
  BY <1>2, <1>3 DEF Answered, AnsweredIds, FailedIds
<1>7. Tells(run', "plan")
  BY <1>1, <1>2, <1>3, <1>4, <1>5, <1>6 DEF Tells
<1> QED BY <1>1, <1>2, <1>7 DEF EInv

\* A run that dies leaves the account that is sealed, or tears the digests.
LEMMA DieTells ==
  ASSUME EInv, Die
  PROVE  EInv'
<1>1. run'.pc = "idle" /\ sealed' = sealed
  BY DEF Die, NoRun
<1>2. Sums \in DOMAIN disk' /\ disk'[Sums] # Torn =>
        Sums \in DOMAIN disk /\ disk'[Sums] = disk[Sums]
  <2>1. CASE disk' = disk
    BY <2>1
  <2>2. CASE disk' = Put(disk, Target(run), Torn)
    BY <2>2 DEF Put
  <2> QED BY <2>1, <2>2 DEF Die
<1> QED BY <1>1, <1>2 DEF EInv

\* Nothing has been sealed in the empty directory.
LEMMA InitEInv ==
  Init => EInv
BY DEF Init, NoRun, EInv

\* Each step keeps the account.
LEMMA NextEInv ==
  IInv /\ EInv /\ [Next]_vars => EInv'
<1> SUFFICES ASSUME IInv, EInv, [Next]_vars
             PROVE  EInv'
  OBVIOUS
<1>1. CASE \E config \in Configs : Start(config)
  BY <1>1, StartTells
<1>2. CASE \E response \in Responses : Fetch(response)
  BY <1>2, FetchTells
<1>3. CASE WritePlan \/ WriteIndex \/ WriteReport
  <2>1. run.kind \in {"generic", "juice"}
    BY <1>3 DEF WritePlan, WriteIndex, WriteReport, IInv, Memory, Shape
  <2> QED BY <1>3, <2>1, AdvancingWritesTell, DecidingWritesTell
<1>4. CASE WriteQueue
  BY <1>4, DecidingWritesTell
<1>5. CASE WriteSurface
  BY <1>5, WriteSurfaceTells
<1>6. CASE WriteFindings
  BY <1>6, WriteFindingsTells
<1>7. CASE WriteProofs
  BY <1>7, WriteProofsTells
<1>8. CASE WriteBenchmark \/ WriteState \/ WriteDecisions \/ WriteFinalState
  BY <1>8, AdvancingWritesTell
<1>9. CASE WriteFirstSums
  BY <1>9, WriteFirstSumsTells
<1>10. CASE WriteResult
  BY <1>10, WriteResultTells
<1>11. CASE WriteLastSums
  BY <1>11, WriteLastSumsTells
<1>12. CASE Die
  BY <1>12, DieTells
<1>13. CASE UNCHANGED vars
  <2>1. run' = run /\ disk' = disk /\ sealed' = sealed
    BY <1>13 DEF vars
  <2> QED BY <2>1 DEF EInv
<1> QED
  BY <1>1, <1>2, <1>3, <1>4, <1>5, <1>6, <1>7, <1>8, <1>9, <1>10, <1>11, <1>12, <1>13
  DEF Next

-----------------------------------------------------------------------------
(* What the package says.                                                  *)

\* A trusted package bears out the account of its result.
LEMMA PackageTells ==
  ASSUME IInv, EInv, Trusted
  PROVE  /\ Tells(disk[Result], "done")
         /\ Describes(disk[Result], disk)
         /\ \A f, c : f \notin {Sums, Result} /\ Has(disk[Result], f, c) => disk[f] = c
<1>1. Describes(disk[Result], disk)
  BY IInvIsWhole DEF VerifiedPackageIsWhole
<1>2. /\ sealed /\ Sums \in DOMAIN disk /\ disk[Sums] # Torn
      /\ Result \in DOMAIN disk[Sums] /\ disk[Result] = disk[Sums][Result]
  BY DEF Trusted, Verified, IInv, SealedSums
<1>3. Tells(disk[Result], "done")
  BY <1>2 DEF EInv
<1> DEFINE result == disk[Result]
<1>4. Describes(result, disk)
  BY <1>1
<1> HIDE DEF result
<1>5. \A f, c : f \notin {Sums, Result} /\ Has(result, f, c) => disk[f] = c
  BY <1>4 DEF Describes, Has
<1> QED BY <1>1, <1>3, <1>5 DEF result

\* What a result that is done says was derived.
LEMMA DerivedAtTheEnd ==
  ASSUME NEW result, Tells(result, "done"), NEW files,
         \A f, c : f \notin {Sums, Result} /\ Has(result, f, c) => files[f] = c
  PROVE  /\ result.config.kind = "generic" =>
              /\ files[Queue] = QueueOf(result.config)
              /\ files[ProofsFile] = ProofsOf(result.config, result.observed)
         /\ files[Surface] = ExtractSurface(result.answers)
         /\ files[FindingsFile] = CandidateFindings(result.config.kind, result.answers)
         /\ files[Benchmark] = Compare(result.observed)
         /\ files[Index] = result.answers
<1>1. {Sums, Result} \cap {Queue, Surface, FindingsFile, ProofsFile, Benchmark, Index} = {}
  BY DEF Sums, Result, Queue, Surface, FindingsFile, ProofsFile, Benchmark, Index, Named
<1>2. \A f, c : f \in {Queue, Surface, FindingsFile, ProofsFile, Benchmark, Index}
                /\ Has(result, f, c) => files[f] = c
  BY <1>1
<1>3. \A kind : "done" \notin BeforeIndex(kind)
  BY DEF BeforeIndex, BeforeBenchmark, BeforeProofs, BeforeFindings, BeforeSurface, Early
<1>4. /\ "done" \notin Early /\ "done" \notin BeforeSurface
      /\ "done" \notin BeforeFindings /\ "done" \notin BeforeProofs
      /\ "done" \notin BeforeBenchmark
  BY DEF BeforeBenchmark, BeforeProofs, BeforeFindings, BeforeSurface, Early
<1>5. result.config.kind = "generic" =>
        /\ Has(result, Queue, QueueOf(result.config))
        /\ Has(result, ProofsFile, ProofsOf(result.config, result.observed))
  BY <1>4 DEF Tells, Derived
<1>6. /\ Has(result, Surface, ExtractSurface(result.answers))
      /\ Has(result, FindingsFile, CandidateFindings(result.config.kind, result.answers))
      /\ Has(result, Benchmark, Compare(result.observed))
      /\ Has(result, Index, result.answers)
  BY <1>3, <1>4 DEF Tells, Derived
<1> QED BY <1>2, <1>5, <1>6

\* The account covers each test of the catalogue.
LEMMA AccountsForTests ==
  IInv /\ EInv => EveryTestIsAccountedFor
<1> SUFFICES ASSUME IInv, EInv, Trusted, disk[Result].config.kind = "generic"
             PROVE  EveryTestIsAccountedFor
  BY DEF EveryTestIsAccountedFor
<1> DEFINE result == disk[Result]
<1>1. /\ Tells(result, "done")
      /\ \A f, c : f \notin {Sums, Result} /\ Has(result, f, c) => disk[f] = c
  BY PackageTells
<1>2. result.config.kind = "generic"
  OBVIOUS
<1> HIDE DEF result
<1>3. /\ disk[Queue] = QueueOf(result.config)
      /\ disk[ProofsFile] = ProofsOf(result.config, result.observed)
  BY <1>1, <1>2, DerivedAtTheEnd
<1>4. result.config.proofLimit \in 1 .. 100
  BY <1>1, <1>2 DEF Tells, ConfigOK, HarnessConfigOK
<1>5. LET blocked == DOMAIN disk[Queue].blocked
          asked == disk[ProofsFile]
          seen == {i \in Tests : Catalog[i].id \in result.observed}
      IN  /\ asked \cap (blocked \cup seen) = {}
          /\ \A i \in blocked : disk[Queue].blocked[i] # {}
          /\ \A k \in DOMAIN disk[Queue].actions :
               disk[Queue].actions[k].objectives \cap blocked = {}
          /\ \A i \in Tests \ (blocked \cup seen \cup asked) :
               /\ Cardinality(asked) = result.config.proofLimit
               /\ \A j \in asked : j < i
  BY <1>3, <1>4, PlanAccounts
<1>6. result.observed = AnsweredIds(result.answers) \cup FailedIds(result.answers)
  BY <1>1, <1>2 DEF Tells, Answered
<1> DEFINE shown == {i \in Tests : Catalog[i].id \in AnsweredIds(result.answers)}
           failed == {i \in Tests : Catalog[i].id \in FailedIds(result.answers)}
<1>7. {i \in Tests : Catalog[i].id \in result.observed} = shown \cup failed
  BY <1>6
<1> HIDE DEF shown, failed
<1>8. LET blocked == DOMAIN disk[Queue].blocked
          asked == disk[ProofsFile]
      IN  /\ asked \cap (blocked \cup shown) = {}
          /\ \A i \in blocked : disk[Queue].blocked[i] # {}
          /\ \A k \in DOMAIN disk[Queue].actions :
               disk[Queue].actions[k].objectives \cap blocked = {}
          /\ \A i \in Tests \ (blocked \cup shown \cup asked \cup failed) :
               CutOff(i, asked, result.config.proofLimit)
  BY <1>5, <1>7 DEF CutOff
<1> QED BY <1>8 DEF EveryTestIsAccountedFor, result, shown, failed

\* The account is what the claims rest on.
LEMMA ClaimsAreTold ==
  IInv /\ EInv => ClaimsRestOnEvidence
<1> SUFFICES ASSUME IInv, EInv, Trusted
             PROVE  ClaimsRestOnEvidence
  BY DEF ClaimsRestOnEvidence
<1> DEFINE result == disk[Result]
<1>1. /\ Tells(result, "done")
      /\ Describes(result, disk)
      /\ \A f, c : f \notin {Sums, Result} /\ Has(result, f, c) => disk[f] = c
  BY PackageTells
<1> HIDE DEF result
<1>2. /\ disk[Surface] = ExtractSurface(result.answers)
      /\ disk[FindingsFile] = CandidateFindings(result.config.kind, result.answers)
      /\ disk[Benchmark] = Compare(result.observed)
      /\ disk[Index] = result.answers
  BY <1>1, DerivedAtTheEnd
<1>3. ASSUME NEW finding \in disk[FindingsFile]
      PROVE  \/ Supports(finding, disk[finding.ref])
             \/ /\ finding.id = "header-gaps"
                /\ RootFailed(disk[Index]) \/ SupportedElsewhere(finding, result.config)
  <2> DEFINE kind == result.config.kind
             answers == result.answers
             first == result.config.paths[1]
  <2>1. kind \in {"generic", "juice"} /\ IsSeq(answers)
    BY <1>1 DEF Tells, ConfigOK
  <2>2. \A k \in DOMAIN answers : disk[Observation(kind, k)] = answers[k]
    BY <1>1 DEF Describes
  <2>3. kind = "juice" /\ 1 \in DOMAIN answers /\ first = "/" => answers[1].path = "/"
    BY <1>1 DEF Tells, Answered
  <2>4. /\ disk[Index] = answers /\ disk[Surface] = ExtractSurface(answers)
        /\ finding \in CandidateFindings(kind, answers)
    BY <1>2, <1>3
  <2> HIDE DEF kind, answers, first
  <2>5. \/ Supports(finding, disk[finding.ref])
        \/ /\ finding.id = "header-gaps"
           /\ \/ RootFailed(answers)
              \/ /\ kind = "juice" /\ first # "/"
                 /\ \E k \in DOMAIN answers : Supports(finding, disk[Observation("juice", k)])
    BY <2>1, <2>2, <2>3, <2>4, FindingsAreSupported
  <2> QED BY <2>4, <2>5 DEF kind, first, SupportedElsewhere
<1>4. /\ disk[Benchmark].detected \subseteq result.observed
      /\ disk[Benchmark].missed \cap result.observed = {}
  BY <1>2 DEF Compare
<1>5. \A id \in result.observed : \E k \in DOMAIN result.log : id \in result.log[k].ids
  BY <1>1 DEF Tells, Claimed, NamedIn
<1>6. result.config.kind = "juice" /\ "APIT-01" \in result.observed => ApiSeen(disk[Index])
  BY <1>1, <1>2 DEF Tells, Answered
<1> QED BY <1>3, <1>4, <1>5, <1>6 DEF ClaimsRestOnEvidence, result

\* The files that a run derives say what its memory says, through to the
\* package that the digests of its last step certify (the writes of
\* run_wstg_live_campaign and run_local_juice_shop_agentic_campaign).
THEOREM EvidenceInvariant ==
  Spec => []EInv
<1>1. Init => IInv /\ EInv
  BY InitIInv, InitEInv
<1>2. (IInv /\ EInv) /\ [Next]_vars => (IInv /\ EInv)'
  BY NextIInv, NextEInv
<1> QED BY <1>1, <1>2, PTL DEF Spec

\* In a trusted package of the harness each test of the catalogue is blocked
\* with a reason, shown by a response, asked for, cut off by a limit that was
\* spent on tests before it, or of a request that failed
\* (plan_campaign_actions, mark_observed, build_proof_requests).
THEOREM TestsAreAccountedFor ==
  Spec => []EveryTestIsAccountedFor
BY PackageInvariant, EvidenceInvariant, AccountsForTests, PTL

\* The findings, the benchmark and the observed tests of a trusted package
\* rest on the files of that package (_candidate_findings, _extract_surface,
\* _wstg_ids_from_observation and the comparison with the benchmark); only a
\* header finding has no response behind it when the request for the root
\* failed, and of the Juice Shop runner only it may cite another file.
THEOREM ClaimsAreBacked ==
  Spec => []ClaimsRestOnEvidence
BY PackageInvariant, EvidenceInvariant, ClaimsAreTold, PTL

=============================================================================
