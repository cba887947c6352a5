--------------------------- MODULE AgentWorkProofs ---------------------------
(* Theorems about the parts of agents' work that MCAgentWork puts side by     *)
(* side: each for its own specification and for every value of its constants. *)
EXTENDS KnowledgeTrust, LongHorizon, LoopTeardown, ConsensusNetwork, Approvals,
        AgentScheduler, Telemetry, AuditLedger, AgenticExecution, KnowledgeGovernance,
        ArtifactFactory, EvalHarness, ProofLemmas

-----------------------------------------------------------------------------
(* KnowledgeTrust                                                             *)

LEMMA Scores == FullTrust \in Nat /\ 0 \in TrustScore /\ \A s \in TrustScore : s \in Nat
BY DEF FullTrust, TrustScore

\* Half the way from a confidence to the average of the evidence.
LEMMA HalfTheWay ==
  ASSUME NEW c \in TrustScore, NEW a \in TrustScore
  PROVE  LET score == (c + a) \div 2 IN
         /\ score \in TrustScore
         /\ c <= a => c <= score /\ score <= a
         /\ a <= c => a <= score /\ score <= c
         /\ score >= 7500 => a >= 5000
BY DEF TrustScore, FullTrust

\* What is not there was not judged or replaced.
TrustInv == TrustEarned /\ (knowledge.status = "absent" => answer = "none" /\ moved = FALSE)

LEMMA TrustInitially == TrustInit => TrustInv
<1> SUFFICES ASSUME TrustInit PROVE TrustInv
  OBVIOUS
<1>1. /\ knowledge.status = "absent" /\ knowledge.confidence = 0 /\ knowledge.verified = FALSE
      /\ registered.confidence = 0 /\ answer = "none" /\ moved = FALSE
  BY DEF TrustInit
<1>2. TrustTypeOK
  BY Scores DEF TrustInit, TrustTypeOK, KnowledgeStatus
<1> QED
  BY <1>1, <1>2 DEF TrustInv, TrustEarned

\* A judgement moves the confidence half the way to the evidence.
LEMMA JudgementKept ==
  ASSUME TrustEarned, knowledge.verified, Judged, UNCHANGED registered
  PROVE  TrustEarned'
<1>0. TrustTypeOK
  BY DEF TrustEarned
<1> DEFINE score == (knowledge.confidence + knowledge.average) \div 2
           status == IF score >= 7500 THEN "trusted" ELSE "pending"
<1>1. knowledge.average \in TrustScore /\ registered.confidence \in TrustScore
      /\ knowledge.confidence \in TrustScore
  BY <1>0 DEF TrustTypeOK
<1>2. /\ score \in TrustScore
      /\ knowledge.confidence <= knowledge.average =>
           knowledge.confidence <= score /\ score <= knowledge.average
      /\ knowledge.average <= knowledge.confidence =>
           knowledge.average <= score /\ score <= knowledge.confidence
      /\ score >= 7500 => knowledge.average >= 5000
  BY <1>1, HalfTheWay
<1>3. /\ knowledge' = [knowledge EXCEPT !.confidence = score, !.status = status]
      /\ answer' = status /\ moved' = TRUE /\ registered' = registered
  BY DEF Judged
<1>4. status \in {"trusted", "pending"} /\ (status = "trusted" => score >= 7500)
  OBVIOUS
<1> HIDE DEF score, status
<1>5. /\ knowledge'.confidence = score /\ knowledge'.average = knowledge.average
      /\ knowledge'.verified = knowledge.verified /\ knowledge'.status = status
  BY <1>0, <1>3 DEF TrustTypeOK
<1>6. TrustTypeOK'
  <2>1. status \in KnowledgeStatus \cup {"absent"} /\ status \in {"none", "pending", "trusted", "quarantined"}
    BY <1>4 DEF KnowledgeStatus
  <2>2. knowledge' \in [status: KnowledgeStatus \cup {"absent"}, confidence: TrustScore,
                       verified: BOOLEAN, average: TrustScore]
    <3> DEFINE S == KnowledgeStatus \cup {"absent"}
    <3>1. knowledge \in [status: S, confidence: TrustScore, verified: BOOLEAN, average: TrustScore]
      BY <1>0 DEF TrustTypeOK
    <3>2. status \in S /\ score \in TrustScore
      BY <1>2, <2>1
    <3> HIDE DEF S
    <3>3. knowledge' \in [status: S, confidence: TrustScore, verified: BOOLEAN, average: TrustScore]
      BY <1>3, <3>1, <3>2
    <3> QED
      BY <3>3 DEF S
  <2> QED
    BY <1>0, <1>3, <2>1, <2>2 DEF TrustTypeOK
<1>7. \/ knowledge'.confidence \in registered'.confidence..knowledge'.average
      \/ knowledge'.confidence \in knowledge'.average..registered'.confidence
  BY <1>1, <1>2, <1>3, <1>5, Scores DEF TrustEarned
<1>8. status = "trusted" => Earned'
  BY <1>2, <1>4, <1>5 DEF Earned
<1> QED
  BY <1>3, <1>5, <1>6, <1>7, <1>8 DEF TrustEarned

LEMMA TrustKept == TrustInv /\ [TrustNext]_trustVars => TrustInv'
<1> SUFFICES ASSUME TrustInv, [TrustNext]_trustVars PROVE TrustInv'
  OBVIOUS
<1>0. TrustTypeOK /\ TrustEarned
  BY DEF TrustInv, TrustEarned
<1>5. knowledge'.status = "absent" => answer' = "none" /\ moved' = FALSE
  <2> SUFFICES ASSUME knowledge'.status = "absent"
               PROVE  /\ knowledge' = knowledge /\ knowledge.status = "absent"
                      /\ answer' = answer /\ moved' = moved
    BY DEF TrustInv
  <2>1. ASSUME knowledge.status # "absent", validate PROVE FALSE
    <3>1. (knowledge.verified /\ Judged) \/ (answer' = "quarantined" /\ UNCHANGED <<knowledge, moved>>)
      BY <2>1 DEF validate
    <3>2. CASE Judged
      BY <1>0, <3>2 DEF Judged, TrustTypeOK
    <3> QED
      BY <2>1, <3>1, <3>2
  <2>2. ASSUME NEW s \in {"quarantined", "expired"}, Replaced(s) PROVE FALSE
    BY <1>0, <2>2 DEF Replaced, TrustTypeOK
  <2>3. ASSUME NEW c, NEW s \in KnowledgeStatus, NEW v, NEW a, register(c, s, v, a) PROVE FALSE
    BY <2>3 DEF register, KnowledgeStatus
  <2>4. CASE UNCHANGED trustVars
    BY <2>4 DEF trustVars
  <2>5. validate => knowledge.status # "absent"
    BY DEF validate
  <2> QED
    BY <2>1, <2>2, <2>3, <2>4, <2>5 DEF TrustNext, quarantine, expire
<1> SUFFICES TrustEarned'
  BY <1>5 DEF TrustInv
<1>1. CASE validate
  <2>1. CASE knowledge.verified /\ Judged
    BY <1>0, <1>1, <2>1, JudgementKept DEF validate
  <2>2. CASE answer' = "quarantined" /\ UNCHANGED <<knowledge, moved>>
    BY <1>0, <1>1, <2>2 DEF validate, TrustEarned, TrustTypeOK, Earned
  <2> QED
    BY <1>1, <2>1, <2>2 DEF validate
<1>2. ASSUME NEW status \in {"quarantined", "expired"}, Replaced(status) PROVE TrustEarned'
  <2>1. /\ knowledge' = [knowledge EXCEPT !.status = status]
        /\ moved' = TRUE /\ answer' = answer /\ registered' = registered
    BY <1>2 DEF Replaced
  <2>2. /\ knowledge'.confidence = knowledge.confidence /\ knowledge'.average = knowledge.average
        /\ knowledge'.verified = knowledge.verified /\ knowledge'.status = status
    BY <1>0, <2>1 DEF TrustTypeOK
  <2>3. TrustTypeOK'
    BY <1>0, <2>1 DEF TrustTypeOK, KnowledgeStatus
  <2> QED
    BY <1>0, <2>1, <2>2, <2>3 DEF TrustEarned, Earned
<1>3. ASSUME NEW c \in TrustScore, NEW s \in KnowledgeStatus, NEW v \in BOOLEAN, NEW a \in TrustScore,
             register(c, s, v, a), ~v => a = 0
      PROVE  TrustEarned'
  <2>1. /\ knowledge' = [status |-> s, confidence |-> c, verified |-> v, average |-> a]
        /\ registered' = [confidence |-> c, status |-> s]
        /\ answer' = answer /\ moved' = moved /\ knowledge.status = "absent"
    BY <1>3 DEF register
  <2>2. TrustTypeOK'
    BY <1>0, <2>1 DEF TrustTypeOK
  <2>3. answer = "none" /\ moved = FALSE
    BY <2>1 DEF TrustInv
  <2>4. c \in c..a \/ c \in a..c
    BY Scores
  <2> QED
    BY <2>1, <2>2, <2>3, <2>4 DEF TrustEarned
<1>4. CASE UNCHANGED trustVars
  BY <1>0, <1>4 DEF trustVars, TrustEarned, TrustTypeOK, Earned
<1> QED
  BY <1>1, <1>2, <1>3, <1>4, Scores, TrustAssumption DEF TrustNext, quarantine, expire

\* However often knowledge is validated, quarantined and expired
\* (KnowledgeTrustManager), and whatever it was registered as, validate() answers
\* "trusted" on verified evidence only, no call makes trusted what has not such
\* evidence, and the confidence stays between that of register() and what the
\* evidence says.
THEOREM TrustIsEarned == TrustSpec => []TrustEarned
<1>1. TrustInv => TrustEarned
  BY DEF TrustInv
<1> QED
  BY <1>1, TrustInitially, TrustKept, PTL DEF TrustSpec

-----------------------------------------------------------------------------
(* LongHorizon                                                                *)

\* The inductive invariant: a checkpoint was taken at a multiple of the interval,
\* so that the task never gets as far as an interval ahead of it; and every
\* recovery takes back less than an interval.
HorizonInv ==
  /\ WorkBounded
  /\ \E k \in Nat : task.checkpoint = k * CheckpointEvery
  /\ advances <= task.current_step + task.recovery_attempts * (CheckpointEvery - 1)

\* A number leaves no remainder exactly when it is a multiple.
LEMMA Multiples ==
  ASSUME NEW d \in Nat \ {0}, NEW n \in Nat
  PROVE  n % d = 0 <=> \E k \in Nat : n = k * d
<1>1. ASSUME n % d = 0 PROVE \E k \in Nat : n = k * d
  <2>1. n = (n \div d) * d + (n % d) /\ n \div d \in Nat
    OBVIOUS
  <2> QED
    BY <1>1, <2>1
<1>2. ASSUME NEW k \in Nat, n = k * d PROVE n % d = 0
  BY <1>2
<1> QED
  BY <1>1, <1>2

\* The state of a task, field by field.
LEMMA TaskFields ==
  HorizonTypeOK => /\ task.current_step \in Nat /\ task.current_step <= MaxTaskSteps
                   /\ task.checkpoint \in Nat /\ task.recovery_attempts \in Nat
                   /\ task.recovery_attempts <= MaxRecoveries /\ advances \in Nat
BY HorizonAssumption DEF HorizonTypeOK

LEMMA HorizonInitially == HorizonInit => HorizonInv
<1> SUFFICES ASSUME HorizonInit PROVE HorizonInv
  OBVIOUS
<1>1. HorizonTypeOK
  BY HorizonAssumption DEF HorizonInit, HorizonTypeOK
<1>2. task.checkpoint = 0 /\ task.current_step = 0 /\ task.recovery_attempts = 0 /\ advances = 0
  BY DEF HorizonInit
<1>3. 0 = 0 * CheckpointEvery /\ CheckpointEvery - 1 \in Nat
  BY HorizonAssumption
<1> QED
  BY <1>1, <1>2, <1>3, HorizonAssumption DEF HorizonInv, WorkBounded

LEMMA HorizonKept == HorizonInv /\ [HorizonNext]_horizonVars => HorizonInv'
<1> SUFFICES ASSUME HorizonInv, [HorizonNext]_horizonVars PROVE HorizonInv'
  OBVIOUS
<1>1. /\ HorizonTypeOK /\ WorkBounded
      /\ CheckpointEvery \in Nat \ {0} /\ CheckpointEvery > 0
      /\ MaxTaskSteps \in Nat /\ MaxRecoveries \in Nat
  BY HorizonAssumption DEF HorizonInv, WorkBounded
<1>2. /\ task.current_step \in Nat /\ task.current_step <= MaxTaskSteps
      /\ task.checkpoint \in Nat /\ task.recovery_attempts \in Nat
      /\ task.recovery_attempts <= MaxRecoveries /\ advances \in Nat
  BY <1>1, TaskFields
<1>3. /\ task.current_step - task.checkpoint \in 0..CheckpointEvery - 1
      /\ advances >= task.current_step
      /\ advances <= task.current_step + task.recovery_attempts * (CheckpointEvery - 1)
  BY DEF HorizonInv, WorkBounded
<1>4. PICK k \in Nat : task.checkpoint = k * CheckpointEvery
  BY DEF HorizonInv
\* What the steps have to show, when the type is right.
<1>5. ASSUME HorizonTypeOK',
             task'.current_step - task'.checkpoint \in 0..CheckpointEvery - 1,
             advances' >= task'.current_step,
             advances' <= task'.current_step + task'.recovery_attempts * (CheckpointEvery - 1),
             \E n \in Nat : task'.checkpoint = n * CheckpointEvery
      PROVE  HorizonInv'
  <2>1. /\ task'.current_step <= MaxTaskSteps /\ task'.current_step \in Nat
        /\ task'.recovery_attempts \in Nat /\ advances' \in Nat
    BY <1>5, HorizonAssumption DEF HorizonTypeOK
  <2>2. task'.recovery_attempts * (CheckpointEvery - 1) \in Int
    BY <2>1, <1>1
  <2> QED
    BY <1>1, <1>5, <2>1, <2>2 DEF HorizonInv, WorkBounded
<1>6. ASSUME NEW s \in {"running", "completed", "failed"},
             task' = [task EXCEPT !.status = s], UNCHANGED advances
      PROVE  HorizonInv'
  <2>1. HorizonTypeOK'
    BY <1>1, <1>6 DEF HorizonTypeOK
  <2>2. /\ task'.current_step = task.current_step /\ task'.checkpoint = task.checkpoint
        /\ task'.recovery_attempts = task.recovery_attempts
    BY <1>1, <1>6 DEF HorizonTypeOK
  <2> QED
    BY <1>3, <1>4, <1>5, <1>6, <2>1, <2>2
<1>7. CASE start \/ complete
  BY <1>6, <1>7 DEF start, complete
<1>8. CASE advance
  <2> DEFINE next_step == task.current_step + 1
  <2>1. CASE next_step > MaxTaskSteps
    BY <1>1, <1>2, <1>6, <1>8, <2>1 DEF advance
  <2>2. CASE next_step <= MaxTaskSteps /\ next_step % CheckpointEvery = 0
    <3>1. /\ task' = [task EXCEPT !.current_step = next_step, !.checkpoint = next_step,
                                  !.status = "checkpointed"]
          /\ advances' = advances + 1
      <4>1. ~(next_step > MaxTaskSteps)
        BY <1>1, <1>2, <2>2
      <4> QED
        BY <1>8, <2>2, <4>1 DEF advance
    <3>2. next_step \in 0..MaxTaskSteps
      BY <1>2, <2>2
    <3>3. \E n \in Nat : next_step = n * CheckpointEvery
      <4>1. CheckpointEvery \in Nat \ {0} /\ next_step \in Nat
        BY <1>1, <1>2
      <4> HIDE DEF next_step
      <4> QED
        BY <2>2, <4>1, Multiples
    <3> HIDE DEF next_step
    <3>4. HorizonTypeOK'
      <4>1. advances' \in Nat
        BY <1>2, <3>1
      <4> QED
        BY <1>1, <3>1, <3>2, <4>1 DEF HorizonTypeOK
    <3>5. /\ task'.current_step = next_step /\ task'.checkpoint = next_step
          /\ task'.recovery_attempts = task.recovery_attempts
      BY <1>1, <3>1 DEF HorizonTypeOK
    <3>6. task.recovery_attempts * (CheckpointEvery - 1) \in Int
      BY <1>1, <1>2
    <3>7. next_step = task.current_step + 1
      BY DEF next_step
    <3> QED
      BY <1>1, <1>2, <1>3, <1>5, <3>1, <3>3, <3>4, <3>5, <3>6, <3>7
  <2>3. CASE next_step <= MaxTaskSteps /\ next_step % CheckpointEvery # 0
    <3>1. task' = [task EXCEPT !.current_step = next_step] /\ advances' = advances + 1
      <4>1. ~(next_step > MaxTaskSteps)
        BY <1>1, <1>2, <2>3
      <4> QED
        BY <1>8, <2>3, <4>1 DEF advance
    <3>2. next_step \in 0..MaxTaskSteps
      BY <1>2, <2>3
    <3>3. next_step # task.checkpoint + CheckpointEvery
      <4>1. ASSUME next_step = task.checkpoint + CheckpointEvery PROVE FALSE
        <5>1. next_step = (k + 1) * CheckpointEvery
          BY <1>1, <1>4, <4>1
        <5>2. CheckpointEvery \in Nat \ {0} /\ next_step \in Nat /\ k + 1 \in Nat
          BY <1>1, <1>2
        <5> HIDE DEF next_step
        <5> QED
          BY <2>3, <5>1, <5>2, Multiples
      <4> QED
        BY <4>1
    <3>4. next_step = task.current_step + 1
      OBVIOUS
    <3> HIDE DEF next_step
    <3>5. HorizonTypeOK'
      BY <1>1, <1>2, <3>1, <3>2 DEF HorizonTypeOK
    <3>6. /\ task'.current_step = next_step /\ task'.checkpoint = task.checkpoint
          /\ task'.recovery_attempts = task.recovery_attempts
      BY <1>1, <3>1 DEF HorizonTypeOK
    <3>7. task.recovery_attempts * (CheckpointEvery - 1) \in Int
      BY <1>1, <1>2
    <3>8. task'.current_step - task'.checkpoint \in 0..CheckpointEvery - 1
      <4>1. task.current_step >= task.checkpoint
            /\ task.current_step - task.checkpoint <= CheckpointEvery - 1
        BY <1>1, <1>2, <1>3
      <4>2. next_step \in Nat /\ next_step - task.checkpoint <= CheckpointEvery - 1
        BY <1>1, <1>2, <3>3, <3>4, <4>1
      <4> QED
        BY <1>1, <1>2, <3>4, <3>6, <4>1, <4>2
    <3>9. /\ advances' >= task'.current_step
          /\ advances' <= task'.current_step + task'.recovery_attempts * (CheckpointEvery - 1)
      BY <1>2, <1>3, <3>1, <3>4, <3>6, <3>7
    <3> QED
      BY <1>4, <1>5, <3>5, <3>6, <3>8, <3>9
  <2> QED
    BY <1>1, <1>2, <2>1, <2>2, <2>3
<1>9. CASE recover
  <2>1. CASE task.recovery_attempts >= MaxRecoveries \/ task.checkpoint = 0
    BY <1>6, <1>9, <2>1 DEF recover
  <2>2. CASE ~(task.recovery_attempts >= MaxRecoveries \/ task.checkpoint = 0)
    <3>1. /\ task' = [task EXCEPT !.status = "recovering", !.recovery_attempts = @ + 1,
                                  !.current_step = task.checkpoint]
          /\ UNCHANGED advances
      BY <1>9, <2>2 DEF recover
    <3>2. task.checkpoint \in 0..MaxTaskSteps /\ task.recovery_attempts + 1 \in 0..MaxRecoveries
      BY <1>1, <1>2, <1>3, <2>2
    <3>3. HorizonTypeOK'
      BY <1>1, <3>1, <3>2 DEF HorizonTypeOK
    <3>4. /\ task'.current_step = task.checkpoint /\ task'.checkpoint = task.checkpoint
          /\ task'.recovery_attempts = task.recovery_attempts + 1
      BY <1>1, <3>1 DEF HorizonTypeOK
    <3>5. /\ task.recovery_attempts * (CheckpointEvery - 1) \in Int
          /\ (task.recovery_attempts + 1) * (CheckpointEvery - 1)
               = task.recovery_attempts * (CheckpointEvery - 1) + (CheckpointEvery - 1)
      BY <1>1, <1>2
    <3> QED
      BY <1>1, <1>2, <1>3, <1>4, <1>5, <3>1, <3>3, <3>4, <3>5
  <2> QED
    BY <2>1, <2>2
<1>10. CASE UNCHANGED horizonVars
  BY <1>10 DEF horizonVars, HorizonInv, WorkBounded, HorizonTypeOK
<1> QED
  BY <1>7, <1>8, <1>9, <1>10 DEF HorizonNext

\* However often a task is recovered (LongHorizonTaskEngine), the steps made for it
\* are those of its horizon and less than an interval for each recovery, for every
\* horizon, interval and limit of recoveries.
THEOREM WorkIsBounded == HorizonSpec => []WorkBounded
<1>1. HorizonInv => WorkBounded
  BY DEF HorizonInv
<1> QED
  BY <1>1, HorizonInitially, HorizonKept, PTL DEF HorizonSpec

-----------------------------------------------------------------------------
(* LoopTeardown                                                               *)

ContextRecord == [phase: {"new", "set", "copying", "exported", "torn"}, dir: Dir,
                  todo: SUBSET File, open: SUBSET File, files: SUBSET (Dir \X File),
                  job: {"none", "running", "left", "ended"}]
ExportRecord == [of: Context \cup {NoContext}, dir: Dir, state: {"none", "part", "whole", "mixed"}]

\* The files of a context that are to be exported.
Wanted(r) == {p \in r.files : p[1] = "artifacts" \/ p[2] \in Exported}

\* How far the walk of a context c in state r has come, where done are the files
\* that were saved or lost: it has not done what it has still to do, nor the
\* artifacts before the directory around them; and what it will not come by any
\* more of a job that has come to its end is done.
Walks(c, r, done) ==
  /\ r.phase \in {"new", "set"} =>
       r.dir = "scratch" /\ \A dir \in Dir, f \in File : <<c, dir, f>> \notin done
  /\ r.phase # "copying" => r.open = {}
  /\ r.phase \in {"copying", "exported"} => r.job # "running"
  /\ r.phase = "copying" =>
       /\ \A f \in r.todo \cup r.open : <<c, r.dir, f>> \notin done
       /\ r.dir = "scratch" => \A f \in File : <<c, "artifacts", f>> \notin done
  /\ \A f, g \in r.open : f = g /\ f \notin r.todo
  /\ r.phase = "copying" /\ r.job = "none" =>
       \A p \in Wanted(r) : p[1] = r.dir \/ p[1] = "scratch" =>
         \/ <<c, p[1], p[2]>> \in done
         \/ p[1] = r.dir /\ p[2] \in r.todo \cup r.open
  /\ r.phase = "exported" /\ r.job = "none" =>
       \A p \in Wanted(r) : <<c, p[1], p[2]>> \in done

AllWalk == \A c \in Context : Walks(c, context[c], saved \cup warned)

\* What stands in the export directory: the parts of the property, and while a
\* context alone writes a name the beginning of its copy.
WholeIsSaved ==
  \A f \in File : exports[f].state = "whole" => <<exports[f].of, exports[f].dir, f>> \in saved

Stands(c, f) ==
  /\ f \in context[c].open => exports[f] = Export(c, context[c].dir, "part")
  /\ <<c, "artifacts", f>> \in saved => exports[f] = Export(c, "artifacts", "whole")
  /\ <<c, "scratch", f>> \in saved /\ ~Tried(c, "artifacts", f) =>
       exports[f] = Export(c, "scratch", "whole")

AllStand == \A c \in Context, f \in File : Alone(c, f) => Stands(c, f)

TeardownInv == TeardownTypeOK /\ AllWalk /\ WholeIsSaved /\ AllStand

LEMMA TeardownTypes ==
  TeardownTypeOK <=> /\ context \in [Context -> ContextRecord] /\ exports \in [File -> ExportRecord]
                     /\ saved \subseteq Context \X Dir \X File /\ warned \subseteq Context \X Dir \X File
BY DEF TeardownTypeOK, ContextRecord, ExportRecord

LEMMA Dirs == "scratch" \in Dir /\ "artifacts" \in Dir /\ \A d \in Dir : d = "scratch" \/ d = "artifacts"
BY DEF Dir

\* The walk of a context looks only at its own files.
LEMMA OwnFiles ==
  ASSUME NEW c, NEW r \in ContextRecord, NEW done, NEW more, Walks(c, r, done),
         \A dir \in Dir, f \in File : <<c, dir, f>> \in done <=> <<c, dir, f>> \in more
  PROVE  Walks(c, r, more)
<1>1. /\ r.dir \in Dir /\ r.todo \cup r.open \subseteq File
      /\ \A p \in Wanted(r) : p[1] \in Dir /\ p[2] \in File
  BY DEF ContextRecord, Wanted
<1>2. \A f \in r.todo \cup r.open : <<c, r.dir, f>> \in done <=> <<c, r.dir, f>> \in more
  BY <1>1
<1>3. \A f \in File : <<c, "artifacts", f>> \in done <=> <<c, "artifacts", f>> \in more
  BY Dirs
<1>4. \A p \in Wanted(r) : <<c, p[1], p[2]>> \in done <=> <<c, p[1], p[2]>> \in more
  BY <1>1
<1> QED
  BY <1>2, <1>3, <1>4 DEF Walks

\* One context goes on from one state to another.
LEMMA ContextBecomes ==
  ASSUME TeardownTypeOK, AllWalk, NEW c \in Context, NEW r \in ContextRecord,
         context' = [context EXCEPT ![c] = r],
         \A o \in Context \ {c}, dir \in Dir, f \in File :
           <<o, dir, f>> \in (saved \cup warned)' <=> <<o, dir, f>> \in saved \cup warned,
         Walks(c, r, (saved \cup warned)')
  PROVE  /\ context' \in [Context -> ContextRecord] /\ context'[c] = r
         /\ \A o \in Context \ {c} : context'[o] = context[o]
         /\ AllWalk'
<1>1. /\ context' \in [Context -> ContextRecord] /\ context'[c] = r
      /\ \A o \in Context \ {c} : context'[o] = context[o] /\ context[o] \in ContextRecord
  BY TeardownTypes
<1>2. ASSUME NEW o \in Context PROVE Walks(o, context'[o], (saved \cup warned)')
  <2>1. CASE o = c
    BY <1>1, <2>1
  <2>2. CASE o # c
    <3>1. context'[o] = context[o] /\ context[o] \in ContextRecord
      BY <1>1, <2>2
    <3>2. Walks(o, context[o], saved \cup warned)
      BY DEF AllWalk
    <3>3. \A dir \in Dir, f \in File : <<o, dir, f>> \in saved \cup warned <=> <<o, dir, f>> \in (saved \cup warned)'
      BY <2>2
    <3> HIDE DEF AllWalk
    <3>4. PICK done, more : done = saved \cup warned /\ more = (saved \cup warned)'
      OBVIOUS
    <3>5. Walks(o, context[o], more)
      BY <3>1, <3>2, <3>3, <3>4, OwnFiles
    <3> QED
      BY <3>1, <3>4, <3>5
  <2> QED
    BY <2>1, <2>2
<1> QED
  BY <1>1, <1>2 DEF AllWalk

\* What is exported stays as it is while no copy begins or ends well.
LEMMA ExportsStay ==
  ASSUME WholeIsSaved, AllStand, UNCHANGED <<exports, saved>>,
         \A c \in Context, dir \in Dir, f \in File : Tried(c, dir, f) => Tried(c, dir, f)',
         \A c \in Context, f \in File : f \in context'[c].open =>
           f \in context[c].open /\ context'[c].dir = context[c].dir
  PROVE  WholeIsSaved' /\ AllStand'
<1>1. WholeIsSaved'
  BY DEF WholeIsSaved
<1>2. ASSUME NEW c \in Context, NEW f \in File, Alone(c, f)' PROVE Stands(c, f)'
  <2>1. Alone(c, f)
    BY <1>2 DEF Alone
  <2>2. Stands(c, f)
    BY <2>1 DEF AllStand
  <2>3. Tried(c, "artifacts", f) => Tried(c, "artifacts", f)'
    BY Dirs
  <2> QED
    BY <2>2, <2>3 DEF Stands
<1> QED
  BY <1>1, <1>2 DEF AllStand

\* A step of one context by which nothing is saved: what it has given up is lost.
LEMMA NothingSaved ==
  ASSUME TeardownInv, NEW c \in Context, NEW r \in ContextRecord,
         context' = [context EXCEPT ![c] = r], UNCHANGED <<exports, saved>>,
         warned \subseteq warned', warned' \subseteq Context \X Dir \X File,
         \A p \in warned' \ warned : p[1] = c,
         r.open \subseteq context[c].open, r.open # {} => r.dir = context[c].dir,
         \A f \in context[c].open \ r.open : <<c, context[c].dir, f>> \in warned',
         context[c].open # {} => r.dir = context[c].dir,
         Walks(c, r, saved' \cup warned')
  PROVE  TeardownInv'
<1>0. TeardownTypeOK /\ AllWalk /\ WholeIsSaved /\ AllStand
  BY DEF TeardownInv
<1>1. \A o \in Context \ {c}, dir \in Dir, f \in File :
        <<o, dir, f>> \in (saved \cup warned)' <=> <<o, dir, f>> \in saved \cup warned
  <2> SUFFICES ASSUME NEW o \in Context \ {c}, NEW dir \in Dir, NEW f \in File
               PROVE  <<o, dir, f>> \in warned' <=> <<o, dir, f>> \in warned
    OBVIOUS
  <2>1. <<o, dir, f>>[1] # c
    OBVIOUS
  <2> QED
    BY <2>1
<1>2. /\ context' \in [Context -> ContextRecord] /\ context'[c] = r
      /\ \A o \in Context \ {c} : context'[o] = context[o]
      /\ AllWalk'
  BY <1>0, <1>1, ContextBecomes
<1>3. TeardownTypeOK'
  BY <1>0, <1>2, TeardownTypes DEF TeardownTypeOK, ContextRecord
<1>4. ASSUME NEW o \in Context, NEW dir \in Dir, NEW f \in File, Tried(o, dir, f)
      PROVE  Tried(o, dir, f)'
  <2>1. CASE o = c
    <3>1. CASE f \in context[c].open /\ dir = context[c].dir
      <4>1. f \in r.open \/ <<c, context[c].dir, f>> \in warned'
        BY <3>1
      <4> QED
        BY <1>2, <2>1, <3>1, <4>1 DEF Tried
    <3> QED
      BY <1>4, <2>1, <3>1 DEF Tried
  <2>2. CASE o # c
    <3>1. context'[o] = context[o]
      BY <1>2, <2>2
    <3> QED
      BY <1>4, <3>1 DEF Tried
  <2> QED
    BY <2>1, <2>2
<1>5. ASSUME NEW o \in Context, NEW f \in File, f \in context'[o].open
      PROVE  f \in context[o].open /\ context'[o].dir = context[o].dir
  <2>1. CASE o = c
    BY <1>2, <1>5, <2>1
  <2>2. CASE o # c
    BY <1>2, <1>5, <2>2
  <2> QED
    BY <2>1, <2>2
<1>6. WholeIsSaved' /\ AllStand'
  <2> HIDE DEF Walks
  <2> QED
    BY <1>0, <1>4, <1>5, ExportsStay
<1> QED
  BY <1>2, <1>3, <1>6 DEF TeardownInv

\* Steps after which everything is exported as before and nothing is being copied
\* that was not.
LEMMA QuietStep ==
  ASSUME TeardownInv, NEW c \in Context, NEW r \in ContextRecord,
         context' = [context EXCEPT ![c] = r], UNCHANGED <<exports, saved, warned>>,
         r.open = context[c].open, r.open # {} => r.dir = context[c].dir,
         Walks(c, r, saved \cup warned)
  PROVE  TeardownInv'
<1>1. TeardownTypeOK
  BY DEF TeardownInv
<1>2. /\ warned \subseteq warned' /\ warned' \subseteq Context \X Dir \X File
      /\ \A p \in warned' \ warned : p[1] = c
  BY <1>1, TeardownTypes
<1>3. Walks(c, r, saved' \cup warned')
  <2> HIDE DEF Walks
  <2>1. saved' \cup warned' = saved \cup warned
    OBVIOUS
  <2> QED
    BY <2>1
<1>4. r.open \subseteq context[c].open /\ context[c].open \ r.open = {}
  OBVIOUS
<1> QED
  BY <1>2, <1>3, <1>4, NothingSaved

\* The fields of a context, with one changed or more.
LEMMA ContextFields ==
  ASSUME TeardownTypeOK, NEW c \in Context
  PROVE  /\ context \in [Context -> ContextRecord] /\ context[c] \in ContextRecord
         /\ context[c].dir \in Dir /\ context[c].todo \subseteq File /\ context[c].open \subseteq File
         /\ context[c].files \subseteq Dir \X File
BY TeardownTypes DEF ContextRecord

LEMMA JobMoves ==
  ASSUME TeardownInv, NEW c \in Context, JobStarts(c) \/ JobEnds(c) PROVE TeardownInv'
<1>0. TeardownTypeOK /\ Walks(c, context[c], saved \cup warned)
  BY DEF TeardownInv, AllWalk
<1>1. PICK job \in {"none", "running", "ended"} :
        /\ context' = [context EXCEPT ![c].job = job] /\ UNCHANGED <<exports, saved, warned>>
        /\ \/ context[c].phase = "set"
           \/ context[c].job \in {"running", "left"} /\ job \in {"none", "ended"}
        /\ (context[c].phase \in {"copying", "exported"}) => job = "ended"
  <2>1. CASE JobStarts(c)
    BY <2>1 DEF JobStarts
  <2>2. CASE JobEnds(c)
    BY <1>0, <2>2 DEF JobEnds, Walks
  <2> QED
    BY <2>1, <2>2
<1> DEFINE r == [context[c] EXCEPT !.job = job]
<1>2. /\ r \in ContextRecord /\ context' = [context EXCEPT ![c] = r]
      /\ r.open = context[c].open /\ r.dir = context[c].dir /\ r.phase = context[c].phase
      /\ r.todo = context[c].todo /\ r.files = context[c].files /\ r.job = job
  BY <1>0, <1>1, ContextFields DEF ContextRecord
<1> HIDE DEF r
<1>3. Walks(c, r, saved \cup warned)
  BY <1>0, <1>1, <1>2 DEF Walks
<1> QED
  BY <1>1, <1>2, <1>3, QuietStep

LEMMA JobWritesKept ==
  ASSUME TeardownInv, NEW c \in Context, NEW dir \in Dir, NEW f \in File, JobWrites(c, dir, f)
  PROVE  TeardownInv'
<1>0. TeardownTypeOK /\ Walks(c, context[c], saved \cup warned)
  BY DEF TeardownInv, AllWalk
<1> DEFINE r == [context[c] EXCEPT !.files = @ \cup {<<dir, f>>}]
<1>1. /\ context' = [context EXCEPT ![c] = r] /\ UNCHANGED <<exports, saved, warned>>
      /\ context[c].job \in {"running", "left"}
  BY <1>0, ContextFields DEF JobWrites
<1>2. /\ r \in ContextRecord
      /\ r.open = context[c].open /\ r.dir = context[c].dir /\ r.phase = context[c].phase
      /\ r.todo = context[c].todo /\ r.job = context[c].job
  BY <1>0, ContextFields DEF ContextRecord
<1> HIDE DEF r
<1>3. Walks(c, r, saved \cup warned)
  BY <1>0, <1>1, <1>2 DEF Walks
<1> QED
  BY <1>1, <1>2, <1>3, QuietStep

LEMMA PhaseMoves ==
  ASSUME TeardownInv, NEW c \in Context, setup(c) \/ Cleans(c) PROVE TeardownInv'
<1>0. TeardownTypeOK /\ Walks(c, context[c], saved \cup warned)
  BY DEF TeardownInv, AllWalk
<1>1. CASE setup(c)
  <2> DEFINE r == [context[c] EXCEPT !.phase = "set"]
  <2>1. /\ context' = [context EXCEPT ![c] = r] /\ UNCHANGED <<exports, saved, warned>>
        /\ context[c].phase = "new"
    BY <1>0, <1>1, ContextFields DEF setup
  <2>2. /\ r \in ContextRecord /\ r.phase = "set"
        /\ r.open = context[c].open /\ r.dir = context[c].dir /\ r.todo = context[c].todo
    BY <1>0, ContextFields DEF ContextRecord
  <2> HIDE DEF r
  <2>3. Walks(c, r, saved \cup warned)
    BY <1>0, <2>1, <2>2 DEF Walks
  <2> QED
    BY <2>1, <2>2, <2>3, QuietStep
<1>2. CASE Cleans(c)
  <2> DEFINE r == [context[c] EXCEPT !.phase = "torn", !.files = {}]
  <2>1. /\ context' = [context EXCEPT ![c] = r] /\ UNCHANGED <<exports, saved, warned>>
        /\ context[c].phase = "exported"
    BY <1>0, <1>2, ContextFields DEF Cleans
  <2>2. /\ r \in ContextRecord /\ r.phase = "torn"
        /\ r.open = context[c].open /\ r.dir = context[c].dir /\ r.todo = context[c].todo
    BY <1>0, ContextFields DEF ContextRecord
  <2> HIDE DEF r
  <2>3. Walks(c, r, saved \cup warned)
    BY <1>0, <2>1, <2>2 DEF Walks
  <2> QED
    BY <2>1, <2>2, <2>3, QuietStep
<1> QED
  BY <1>1, <1>2

LEMMA WantedAreFound ==
  ASSUME TeardownTypeOK, NEW c \in Context
  PROVE  /\ \A dir \in Dir : Found(c, dir) \subseteq File
         /\ \A p \in Wanted(context[c]) : /\ p[1] \in Dir /\ p[2] \in File /\ p = <<p[1], p[2]>>
                                         /\ p[2] \in Found(c, p[1])
BY ContextFields DEF Found, Wanted

LEMMA ExportStartsKept ==
  ASSUME TeardownInv, NEW c \in Context, ExportStarts(c) PROVE TeardownInv'
<1>0. TeardownTypeOK /\ Walks(c, context[c], saved \cup warned)
  BY DEF TeardownInv, AllWalk
<1>1. PICK job \in {"none", "left", "ended"} :
        context' = [context EXCEPT ![c].phase = "copying", ![c].todo = Found(c, "scratch"), ![c].job = job]
  BY <1>0, ContextFields DEF ExportStarts, ContextRecord
<1> DEFINE r == [context[c] EXCEPT !.phase = "copying", !.todo = Found(c, "scratch"), !.job = job]
<1>2. /\ context' = [context EXCEPT ![c] = r] /\ UNCHANGED <<exports, saved, warned>>
      /\ context[c].phase = "set"
  BY <1>0, <1>1, ContextFields DEF ExportStarts
<1>3. /\ r \in ContextRecord /\ r.phase = "copying" /\ r.open = context[c].open
      /\ r.dir = context[c].dir /\ r.todo = Found(c, "scratch") /\ r.job = job
      /\ Wanted(r) = Wanted(context[c])
  BY <1>0, ContextFields, WantedAreFound, Dirs DEF ContextRecord, Wanted
<1> HIDE DEF r
<1>4. r.dir = "scratch" /\ r.open = {} /\ r.todo \subseteq File
      /\ \A dir \in Dir, f \in File : <<c, dir, f>> \notin saved \cup warned
  BY <1>0, <1>2, <1>3, WantedAreFound, Dirs DEF Walks
<1>5. \A p \in Wanted(r) : p[1] = "scratch" => p[2] \in r.todo
  BY <1>0, <1>3, WantedAreFound
<1>6. Walks(c, r, saved \cup warned)
  BY <1>3, <1>4, <1>5, Dirs DEF Walks
<1> QED
  BY <1>2, <1>3, <1>6, QuietStep

LEMMA WalkGoesOnKept ==
  ASSUME TeardownInv, NEW c \in Context, WalkGoesOn(c) PROVE TeardownInv'
<1>0. TeardownTypeOK /\ Walks(c, context[c], saved \cup warned)
  BY DEF TeardownInv, AllWalk
<1>1. /\ context[c].phase = "copying" /\ context[c].todo = {} /\ context[c].open = {}
      /\ context[c].job # "running" /\ UNCHANGED <<exports, saved, warned>>
  BY <1>0 DEF WalkGoesOn, Walks
<1>2. CASE /\ context[c].dir = "scratch"
           /\ context' = [context EXCEPT ![c].dir = "artifacts", ![c].todo = Found(c, "artifacts")]
  <2> DEFINE r == [context[c] EXCEPT !.dir = "artifacts", !.todo = Found(c, "artifacts")]
  <2>1. context' = [context EXCEPT ![c] = r]
    BY <1>0, <1>2, ContextFields
  <2>2. /\ r \in ContextRecord /\ r.phase = "copying" /\ r.open = {}
        /\ r.dir = "artifacts" /\ r.todo = Found(c, "artifacts") /\ r.job = context[c].job
        /\ Wanted(r) = Wanted(context[c])
    BY <1>0, <1>1, ContextFields, WantedAreFound, Dirs DEF ContextRecord, Wanted
  <2> HIDE DEF r
  <2>3. \A f \in r.todo : <<c, "artifacts", f>> \notin saved \cup warned
    BY <1>0, <1>1, <1>2, <2>2, WantedAreFound, Dirs DEF Walks
  <2>4. \A p \in Wanted(r) : p[1] = "artifacts" => p[2] \in r.todo
    BY <1>0, <2>2, WantedAreFound
  <2>5. r.job = "none" => \A p \in Wanted(r) : p[1] = "scratch" => <<c, p[1], p[2]>> \in saved \cup warned
    BY <1>0, <1>1, <1>2, <2>2 DEF Walks
  <2>6. Walks(c, r, saved \cup warned)
    BY <1>1, <2>2, <2>3, <2>4, <2>5 DEF Walks
  <2> QED
    BY <1>1, <2>1, <2>2, <2>6, QuietStep
<1>3. CASE context[c].dir = "artifacts" /\ context' = [context EXCEPT ![c].phase = "exported"]
  <2> DEFINE r == [context[c] EXCEPT !.phase = "exported"]
  <2>1. context' = [context EXCEPT ![c] = r]
    BY <1>0, <1>3, ContextFields
  <2>2. /\ r \in ContextRecord /\ r.phase = "exported" /\ r.open = {} /\ r.job = context[c].job
        /\ Wanted(r) = Wanted(context[c])
    BY <1>0, <1>1, ContextFields DEF ContextRecord, Wanted
  <2> HIDE DEF r
  <2>3. \A p \in Wanted(r) : p[1] = "artifacts" \/ p[1] = "scratch"
    BY <1>0, <2>2, WantedAreFound, Dirs
  <2>4. r.job = "none" => \A p \in Wanted(r) : <<c, p[1], p[2]>> \in saved \cup warned
    BY <1>0, <1>1, <1>3, <2>2, <2>3 DEF Walks
  <2>5. Walks(c, r, saved \cup warned)
    BY <1>1, <2>2, <2>4 DEF Walks
  <2> QED
    BY <1>1, <2>1, <2>2, <2>5, QuietStep
<1> QED
  BY <1>2, <1>3 DEF WalkGoesOn

\* Files that are lost are the context's own.
LEMMA ExportFailsKept ==
  ASSUME TeardownInv, NEW c \in Context, ExportFails(c) PROVE TeardownInv'
<1>0. TeardownTypeOK /\ Walks(c, context[c], saved \cup warned)
  BY DEF TeardownInv, AllWalk
<1>1. PICK job \in {"none", "left", "ended"} :
        context' = [context EXCEPT ![c].phase = "exported", ![c].job = job]
  BY <1>0, ContextFields DEF ExportFails, ContextRecord
<1> DEFINE r == [context[c] EXCEPT !.phase = "exported", !.job = job]
           own == {p \in {c} \X Dir \X File : p[3] \in Found(c, p[2])}
<1>2. /\ context' = [context EXCEPT ![c] = r] /\ UNCHANGED <<exports, saved>>
      /\ context[c].phase = "set" /\ warned' = warned \cup own
  BY <1>0, <1>1, ContextFields DEF ExportFails
<1>3. /\ r \in ContextRecord /\ r.phase = "exported" /\ r.open = context[c].open
      /\ r.dir = context[c].dir /\ r.job = job /\ Wanted(r) = Wanted(context[c])
  BY <1>0, ContextFields DEF ContextRecord, Wanted
<1> HIDE DEF r
<1>4. r.open = {}
  BY <1>0, <1>2, <1>3 DEF Walks
<1>5. \A p \in Wanted(r) : <<c, p[1], p[2]>> \in own
  <2> SUFFICES ASSUME NEW p \in Wanted(r) PROVE <<c, p[1], p[2]>> \in own
    OBVIOUS
  <2>1. p[1] \in Dir /\ p[2] \in File /\ p[2] \in Found(c, p[1])
    BY <1>0, <1>3, WantedAreFound
  <2> QED
    BY <2>1
<1>6. own \subseteq Context \X Dir \X File /\ \A p \in own : p[1] = c
  OBVIOUS
<1> HIDE DEF own
<1>7. Walks(c, r, saved' \cup warned')
  BY <1>2, <1>3, <1>4, <1>5 DEF Walks
<1>8. warned \subseteq warned' /\ warned' \subseteq Context \X Dir \X File /\ \A p \in warned' \ warned : p[1] = c
  BY <1>0, <1>2, <1>6, TeardownTypes
<1> QED
  BY <1>2, <1>3, <1>4, <1>7, <1>8, NothingSaved

LEMMA CopyFailsKept ==
  ASSUME TeardownInv, NEW c \in Context, NEW f \in File, CopyFails(c, f) PROVE TeardownInv'
<1>0. TeardownTypeOK /\ Walks(c, context[c], saved \cup warned)
  BY DEF TeardownInv, AllWalk
<1> DEFINE r == [context[c] EXCEPT !.todo = @ \ {f}, !.open = {}]
           it == <<c, context[c].dir, f>>
<1>1. /\ context' = [context EXCEPT ![c] = r] /\ UNCHANGED <<exports, saved>>
      /\ context[c].phase = "copying" /\ warned' = warned \cup {it}
      /\ f \in context[c].open \/ (context[c].open = {} /\ f \in context[c].todo)
  BY <1>0, ContextFields DEF CopyFails
<1>2. /\ r \in ContextRecord /\ r.phase = "copying" /\ r.open = {} /\ r.todo = context[c].todo \ {f}
      /\ r.dir = context[c].dir /\ r.job = context[c].job /\ Wanted(r) = Wanted(context[c])
  BY <1>0, <1>1, ContextFields DEF ContextRecord, Wanted
<1>3. it \in Context \X Dir \X File /\ it[1] = c /\ it = <<c, r.dir, f>>
  BY <1>0, <1>2, ContextFields
<1> HIDE DEF r
<1>4. \A g \in context[c].open : g = f
  BY <1>0, <1>1 DEF Walks
<1>5. \A g \in File, dir \in Dir : g # f \/ dir # r.dir => <<c, dir, g>> # it
  BY <1>3
<1> HIDE DEF it
<1>6. \A g \in r.todo : <<c, r.dir, g>> \notin saved \cup warned'
  BY <1>0, <1>1, <1>2, <1>5, ContextFields DEF Walks
<1>7. r.dir = "scratch" => \A g \in File : <<c, "artifacts", g>> \notin saved \cup warned'
  BY <1>0, <1>1, <1>2, <1>5, Dirs DEF Walks
<1>8. r.job = "none" => \A p \in Wanted(r) : p[1] = r.dir \/ p[1] = "scratch" =>
         <<c, p[1], p[2]>> \in saved \cup warned' \/ (p[1] = r.dir /\ p[2] \in r.todo)
  <2> SUFFICES ASSUME r.job = "none", NEW p \in Wanted(r), p[1] = r.dir \/ p[1] = "scratch"
               PROVE  <<c, p[1], p[2]>> \in saved \cup warned' \/ (p[1] = r.dir /\ p[2] \in r.todo)
    OBVIOUS
  <2>1. \/ <<c, p[1], p[2]>> \in saved \cup warned
        \/ p[1] = r.dir /\ p[2] \in context[c].todo \cup context[c].open
    BY <1>0, <1>1, <1>2 DEF Walks
  <2>2. CASE p[1] = r.dir /\ p[2] = f
    BY <1>1, <1>3, <2>2
  <2>3. CASE p[1] = r.dir /\ p[2] # f
    BY <1>1, <1>2, <1>4, <2>1, <2>3
  <2> QED
    BY <1>1, <2>1, <2>2, <2>3
<1>9. Walks(c, r, saved' \cup warned')
  BY <1>1, <1>2, <1>6, <1>7, <1>8, <1>0 DEF Walks
<1>10. warned \subseteq warned' /\ warned' \subseteq Context \X Dir \X File /\ \A p \in warned' \ warned : p[1] = c
  BY <1>0, <1>1, <1>3, TeardownTypes
<1>11. \A g \in context[c].open \ r.open : <<c, context[c].dir, g>> \in warned'
  BY <1>1, <1>2, <1>3, <1>4
<1> QED
  BY <1>1, <1>2, <1>9, <1>10, <1>11, NothingSaved

LEMMA CopyOpensKept ==
  ASSUME TeardownInv, NEW c \in Context, NEW f \in File, CopyOpens(c, f) PROVE TeardownInv'
<1>0. TeardownTypeOK /\ AllWalk /\ WholeIsSaved /\ AllStand /\ Walks(c, context[c], saved \cup warned)
  BY DEF TeardownInv, AllWalk
<1> DEFINE r == [context[c] EXCEPT !.todo = @ \ {f}, !.open = {f}]
           part == Export(c, context[c].dir, "part")
<1>1. /\ context' = [context EXCEPT ![c] = r] /\ exports' = [exports EXCEPT ![f] = part]
      /\ UNCHANGED <<saved, warned>> /\ context[c].phase = "copying"
      /\ context[c].open = {} /\ f \in context[c].todo
  BY <1>0, ContextFields DEF CopyOpens
<1>2. /\ r \in ContextRecord /\ r.phase = "copying" /\ r.open = {f} /\ r.todo = context[c].todo \ {f}
      /\ r.dir = context[c].dir /\ r.job = context[c].job /\ Wanted(r) = Wanted(context[c])
  BY <1>0, <1>1, ContextFields DEF ContextRecord, Wanted
<1>3. /\ part \in ExportRecord /\ part.state = "part" /\ part = Export(c, r.dir, "part")
  BY <1>0, <1>2, ContextFields DEF Export, ExportRecord
<1> HIDE DEF r, part
<1>4. r.todo \cup r.open = context[c].todo \cup context[c].open
  BY <1>1, <1>2
<1>5. Walks(c, r, saved' \cup warned')
  BY <1>0, <1>1, <1>2, <1>4 DEF Walks
<1>6. /\ context' \in [Context -> ContextRecord] /\ context'[c] = r
      /\ \A o \in Context \ {c} : context'[o] = context[o]
      /\ AllWalk'
  <2> HIDE DEF AllWalk, Walks
  <2> QED
    BY <1>0, <1>1, <1>2, <1>5, ContextBecomes
<1>7. /\ exports' \in [File -> ExportRecord] /\ exports'[f] = part
      /\ \A g \in File \ {f} : exports'[g] = exports[g]
  BY <1>0, <1>1, <1>3, TeardownTypes
<1>8. TeardownTypeOK'
  BY <1>0, <1>1, <1>6, <1>7, TeardownTypes DEF TeardownTypeOK, ContextRecord, ExportRecord
<1>9. WholeIsSaved'
  BY <1>0, <1>1, <1>3, <1>7 DEF WholeIsSaved
<1>10. \A o \in Context \ {c}, dir \in Dir, g \in File : Tried(o, dir, g)' <=> Tried(o, dir, g)
  BY <1>1, <1>6 DEF Tried
<1>14. PICK d \in Dir : d = r.dir
  BY <1>2 DEF ContextRecord
<1>11. Tried(c, d, f)'
  <2>1. f \in context'[c].open /\ d = context'[c].dir
    BY <1>2, <1>6, <1>14
  <2> QED
    BY <2>1 DEF Tried
<1>12. \A dir \in Dir, g \in File : Tried(c, dir, g) => Tried(c, dir, g)'
  BY <1>1, <1>2, <1>6 DEF Tried
<1>13. ASSUME NEW o \in Context, NEW g \in File, Alone(o, g)' PROVE Stands(o, g)'
  <2>0. Alone(o, g)
    <3> SUFFICES ASSUME NEW e \in Context \ {o}, NEW dir \in Dir PROVE ~Tried(e, dir, g)
      BY DEF Alone
    <3>1. ~Tried(e, dir, g)'
      BY <1>13 DEF Alone
    <3> QED
      BY <3>1, <1>10, <1>12
  <2>1. Stands(o, g)
    BY <1>0, <2>0 DEF AllStand
  <2>2. CASE g # f
    <3>1. exports'[g] = exports[g]
      BY <1>7, <2>2
    <3>2. Tried(o, "artifacts", g) => Tried(o, "artifacts", g)'
      BY <1>10, <1>12, Dirs
    <3>3. g \in context'[o].open => g \in context[o].open /\ context'[o].dir = context[o].dir
      BY <1>2, <1>6, <2>2
    <3> QED
      BY <1>1, <2>1, <3>1, <3>2, <3>3 DEF Stands
  <2>3. CASE g = f /\ o # c
    BY <1>11, <1>13, <2>3 DEF Alone
  <2>4. CASE g = f /\ o = c
    <3>1. <<c, r.dir, f>> \notin saved
      BY <1>0, <1>1, <1>2 DEF Walks
    <3>2. r.dir = "scratch" => <<c, "artifacts", f>> \notin saved
      BY <1>0, <1>1, <1>2 DEF Walks
    <3>3. <<c, "artifacts", f>> \notin saved'
      BY <1>1, <1>14, <3>1, <3>2, Dirs
    <3>4. <<c, "scratch", f>> \in saved' => Tried(c, "artifacts", f)'
      <4>1. CASE d = "artifacts"
        BY <1>11, <4>1
      <4>2. CASE d = "scratch"
        BY <1>1, <1>14, <3>1, <4>2
      <4> QED
        BY <4>1, <4>2, Dirs
    <3>5. exports'[f] = Export(c, context'[c].dir, "part")
      BY <1>3, <1>6, <1>7
    <3> QED
      BY <2>4, <3>3, <3>4, <3>5 DEF Stands
  <2> QED
    BY <2>2, <2>3, <2>4
<1> QED
  BY <1>6, <1>8, <1>9, <1>13 DEF TeardownInv, AllStand

LEMMA CopyEndsKept ==
  ASSUME TeardownInv, NEW c \in Context, NEW f \in File, CopyEnds(c, f) PROVE TeardownInv'
<1>0. TeardownTypeOK /\ AllWalk /\ WholeIsSaved /\ AllStand /\ Walks(c, context[c], saved \cup warned)
  BY DEF TeardownInv, AllWalk
<1> DEFINE r == [context[c] EXCEPT !.open = {}]
           it == <<c, context[c].dir, f>>
           whole == Export(c, context[c].dir, "whole")
<1>1. /\ context' = [context EXCEPT ![c] = r] /\ saved' = saved \cup {it}
      /\ UNCHANGED warned /\ context[c].phase = "copying" /\ f \in context[c].open
      /\ \/ exports' = [exports EXCEPT ![f] = whole]
         \/ /\ exports[f] # Export(c, context[c].dir, "part")
            /\ exports' = exports \/ exports' = [exports EXCEPT ![f].state = "mixed"]
  BY <1>0, ContextFields DEF CopyEnds
<1>2. /\ r \in ContextRecord /\ r.phase = "copying" /\ r.open = {} /\ r.todo = context[c].todo
      /\ r.dir = context[c].dir /\ r.job = context[c].job /\ Wanted(r) = Wanted(context[c])
  BY <1>0, <1>1, ContextFields DEF ContextRecord, Wanted
<1>3. it \in Context \X Dir \X File /\ it[1] = c /\ it = <<c, r.dir, f>> /\ r.dir \in Dir
      /\ whole \in ExportRecord /\ whole.of = c /\ whole.dir = r.dir /\ whole = Export(c, r.dir, "whole")
  BY <1>0, <1>2, ContextFields DEF Export, ExportRecord
<1>4. \A o \in Context, dir \in Dir, g \in File : <<o, dir, g>> = it => o = c /\ dir = r.dir /\ g = f
  BY <1>3
<1> HIDE DEF r, it, whole
<1>5. \A g \in context[c].open : g = f /\ f \notin context[c].todo
  BY <1>0, <1>1 DEF Walks
<1>6. Walks(c, r, saved' \cup warned')
  <2>1. \A g \in r.todo : <<c, r.dir, g>> \notin saved' \cup warned'
    BY <1>0, <1>1, <1>2, <1>4, <1>3, <1>5, ContextFields DEF Walks
  <2>2. r.dir = "scratch" => \A g \in File : <<c, "artifacts", g>> \notin saved' \cup warned'
    BY <1>0, <1>1, <1>2, <1>4, Dirs DEF Walks
  <2>3. r.job = "none" => \A p \in Wanted(r) : p[1] = r.dir \/ p[1] = "scratch" =>
           <<c, p[1], p[2]>> \in saved' \cup warned' \/ (p[1] = r.dir /\ p[2] \in r.todo)
    <3> SUFFICES ASSUME r.job = "none", NEW p \in Wanted(r), p[1] = r.dir \/ p[1] = "scratch"
                 PROVE  <<c, p[1], p[2]>> \in saved' \cup warned' \/ (p[1] = r.dir /\ p[2] \in r.todo)
      OBVIOUS
    <3>1. \/ <<c, p[1], p[2]>> \in saved \cup warned
          \/ p[1] = r.dir /\ p[2] \in context[c].todo \cup context[c].open
      BY <1>0, <1>1, <1>2 DEF Walks
    <3>2. CASE p[1] = r.dir /\ p[2] = f
      BY <1>1, <1>3, <3>2
    <3>3. CASE p[1] = r.dir /\ p[2] # f
      BY <1>1, <1>2, <1>5, <3>1, <3>3
    <3> QED
      BY <1>1, <3>1, <3>2, <3>3
  <2> QED
    BY <1>0, <1>1, <1>2, <2>1, <2>2, <2>3 DEF Walks
<1>7. \A o \in Context \ {c}, dir \in Dir, g \in File :
        <<o, dir, g>> \in (saved \cup warned)' <=> <<o, dir, g>> \in saved \cup warned
  BY <1>1, <1>4
<1>8. /\ context' \in [Context -> ContextRecord] /\ context'[c] = r
      /\ \A o \in Context \ {c} : context'[o] = context[o]
      /\ AllWalk'
  <2> HIDE DEF AllWalk, Walks
  <2> QED
    BY <1>0, <1>1, <1>2, <1>6, <1>7, ContextBecomes
<1>9. /\ exports \in [File -> ExportRecord] /\ exports' \in [File -> ExportRecord]
      /\ \A g \in File \ {f} : exports'[g] = exports[g]
      /\ exports'[f].state = "whole" => exports'[f] = whole \/ exports'[f] = exports[f]
  <2>1. exports \in [File -> ExportRecord] /\ exports[f] \in ExportRecord
    BY <1>0, TeardownTypes
  <2>2. [exports[f] EXCEPT !.state = "mixed"] \in ExportRecord
        /\ [exports[f] EXCEPT !.state = "mixed"].state = "mixed"
    BY <2>1 DEF ExportRecord
  <2>3. CASE exports' = [exports EXCEPT ![f] = whole]
    BY <1>3, <2>1, <2>3
  <2>4. CASE exports' = exports
    BY <2>1, <2>4
  <2>5. CASE exports' = [exports EXCEPT ![f].state = "mixed"]
    <3>1. exports'[f] = [exports[f] EXCEPT !.state = "mixed"] /\ exports' \in [File -> ExportRecord]
      BY <2>1, <2>2, <2>5
    <3> QED
      BY <2>1, <2>2, <2>5, <3>1
  <2> QED
    BY <1>1, <2>3, <2>4, <2>5
<1>10. TeardownTypeOK'
  <2>1. saved' \subseteq Context \X Dir \X File /\ warned' \subseteq Context \X Dir \X File
    BY <1>0, <1>1, <1>3, TeardownTypes
  <2> QED
    BY <1>8, <1>9, <2>1 DEF TeardownTypeOK, ContextRecord, ExportRecord
<1>11. WholeIsSaved'
  <2> SUFFICES ASSUME NEW g \in File, exports'[g].state = "whole"
               PROVE  <<exports'[g].of, exports'[g].dir, g>> \in saved'
    BY DEF WholeIsSaved
  <2>1. CASE exports'[g] = exports[g]
    BY <1>0, <1>1, <2>1 DEF WholeIsSaved
  <2>2. CASE g = f /\ exports'[f] = whole
    BY <1>1, <1>3, <2>2
  <2> QED
    BY <1>9, <2>1, <2>2
<1>12. \A o \in Context, dir \in Dir, g \in File : Tried(o, dir, g)' <=> Tried(o, dir, g)
  <2> SUFFICES ASSUME NEW o \in Context, NEW dir \in Dir, NEW g \in File
               PROVE  Tried(o, dir, g)' <=> Tried(o, dir, g)
    OBVIOUS
  <2>1. CASE o # c
    <3>1. context'[o] = context[o]
      BY <1>8, <2>1
    <3>2. <<o, dir, g>> \in (saved \cup warned)' <=> <<o, dir, g>> \in saved \cup warned
      BY <1>7, <2>1
    <3> QED
      BY <3>1, <3>2 DEF Tried
  <2>2. CASE o = c /\ dir = r.dir /\ g = f
    BY <1>1, <1>2, <1>3, <2>2 DEF Tried
  <2>3. CASE o = c /\ ~(dir = r.dir /\ g = f)
    <3>1. <<o, dir, g>> \in (saved \cup warned)' <=> <<o, dir, g>> \in saved \cup warned
      BY <1>1, <1>4, <2>3
    <3>2. ~(g \in context'[o].open /\ dir = context'[o].dir) /\ ~(g \in context[o].open /\ dir = context[o].dir)
      BY <1>2, <1>5, <1>8, <2>3
    <3> QED
      BY <3>1, <3>2 DEF Tried
  <2> QED
    BY <2>1, <2>2, <2>3
<1>13. ASSUME NEW o \in Context, NEW g \in File, Alone(o, g)' PROVE Stands(o, g)'
  <2>0. Alone(o, g)
    BY <1>12, <1>13 DEF Alone
  <2>1. Stands(o, g)
    BY <1>0, <2>0 DEF AllStand
  <2>2. Tried(o, "artifacts", g)' <=> Tried(o, "artifacts", g)
    BY <1>12, Dirs
  <2>3. CASE g # f
    <3>1. exports'[g] = exports[g]
      BY <1>9, <2>3
    <3>2. \A dir \in Dir : <<o, dir, g>> \in saved' => <<o, dir, g>> \in saved
      BY <1>1, <1>4, <2>3
    <3>3. g \in context'[o].open => g \in context[o].open /\ context'[o].dir = context[o].dir
      BY <1>2, <1>8
    <3> QED
      BY <2>1, <2>2, <3>1, <3>2, <3>3, Dirs DEF Stands
  <2>4. CASE g = f /\ o # c
    <3>1. Tried(c, r.dir, f)
      BY <1>1, <1>2 DEF Tried
    <3> QED
      BY <1>3, <2>0, <2>4, <3>1 DEF Alone
  <2>5. CASE g = f /\ o = c
    <3>1. exports[f] = Export(c, context[c].dir, "part")
      BY <1>1, <2>1, <2>5 DEF Stands
    <3>2. exports'[f] = whole
      <4>1. exports' = [exports EXCEPT ![f] = whole]
        BY <1>1, <3>1
      <4> QED
        BY <1>9, <4>1
    <3>3. f \notin context'[c].open
      BY <1>2, <1>8
    <3>4. CASE r.dir = "scratch"
      <4>1. <<c, "artifacts", f>> \notin saved'
        BY <1>0, <1>1, <1>2, <1>4, <3>4, Dirs DEF Walks
      <4> QED
        BY <1>3, <2>5, <3>2, <3>3, <3>4, <4>1 DEF Stands
    <3>5. CASE r.dir = "artifacts"
      <4>1. Tried(c, "artifacts", f)
        BY <1>1, <1>2, <3>5 DEF Tried
      <4> QED
        BY <1>3, <2>2, <2>5, <3>2, <3>3, <3>5, <4>1 DEF Stands
    <3> QED
      BY <1>3, <3>4, <3>5, Dirs
  <2> QED
    BY <2>3, <2>4, <2>5
<1> QED
  BY <1>8, <1>10, <1>11, <1>13 DEF TeardownInv, AllStand

LEMMA TeardownKept == TeardownInv /\ [TeardownNext]_teardownVars => TeardownInv'
<1> SUFFICES ASSUME TeardownInv, [TeardownNext]_teardownVars PROVE TeardownInv'
  OBVIOUS
<1>1. ASSUME NEW c \in Context,
             \/ setup(c) \/ JobStarts(c) \/ JobEnds(c) \/ ExportStarts(c) \/ ExportFails(c)
             \/ WalkGoesOn(c) \/ Cleans(c)
      PROVE  TeardownInv'
  BY <1>1, JobMoves, PhaseMoves, ExportStartsKept, ExportFailsKept, WalkGoesOnKept
<1>2. ASSUME NEW c \in Context, NEW f \in File,
             \/ \E dir \in Dir : JobWrites(c, dir, f)
             \/ CopyOpens(c, f) \/ CopyEnds(c, f) \/ CopyFails(c, f)
      PROVE  TeardownInv'
  BY <1>2, JobWritesKept, CopyOpensKept, CopyEndsKept, CopyFailsKept
<1>3. CASE UNCHANGED teardownVars
  BY <1>3 DEF teardownVars, TeardownInv, TeardownTypeOK, AllWalk, WholeIsSaved, AllStand, Alone, Stands, Tried
<1> QED
  BY <1>1, <1>2, <1>3 DEF TeardownNext

LEMMA TeardownInitially == TeardownInit => TeardownInv
<1> SUFFICES ASSUME TeardownInit PROVE TeardownInv
  OBVIOUS
<1>1. /\ \A c \in Context : /\ context[c].phase = "new" /\ context[c].dir = "scratch"
                           /\ context[c].open = {} /\ context[c].todo = {}
      /\ saved = {} /\ warned = {}
      /\ \A f \in File : exports[f].state = "none"
  BY DEF TeardownInit, NoExport, Export
<1>2. TeardownTypeOK
  BY Dirs DEF TeardownInit, TeardownTypeOK, NoExport, Export
<1>3. AllWalk
  BY <1>1 DEF AllWalk, Walks
<1>4. WholeIsSaved /\ AllStand
  BY <1>1 DEF WholeIsSaved, AllStand, Stands
<1> QED
  BY <1>2, <1>3, <1>4 DEF TeardownInv

\* For any number of contexts that export to one directory (IsolatedLoopTeardown),
\* whose copies interleave and fail: what a job wrote that ended in time is copied
\* or missed in a warning before its directory goes, and what was copied stands,
\* whole, where no other context wrote the same name.
THEOREM ArtifactsAreAccounted == TeardownSpec => []ArtifactsAccounted
<1>1. TeardownInv => ArtifactsAccounted
  <2> SUFFICES ASSUME TeardownInv PROVE ArtifactsAccounted
    OBVIOUS
  <2>1. \A c \in Context : context[c].phase = "exported" /\ context[c].job = "none" =>
          \A p \in context[c].files : p[1] = "artifacts" \/ p[2] \in Exported =>
            <<c, p[1], p[2]>> \in saved \cup warned
    BY DEF TeardownInv, AllWalk, Walks, Wanted
  <2> QED
    BY <2>1 DEF TeardownInv, WholeIsSaved, AllStand, Stands, ArtifactsAccounted
<1> QED
  BY <1>1, TeardownInitially, TeardownKept, PTL DEF TeardownSpec

-----------------------------------------------------------------------------
(* ConsensusNetwork                                                           *)

\* What was agreed on was stable.
ConsensusInv == AgreementKept /\ \A i \in DOMAIN checkpoints : checkpoints[i].agreed => checkpoints[i].stable

RoundCheckpoint == [state: Snapshot, stable: BOOLEAN, agreed: BOOLEAN]

\* A list that keeps its limit: the new element is the last, the others stand where
\* they stood, or one place before.
LEMMA KeptList ==
  ASSUME NEW S, NEW s \in Seq(S), NEW x \in S, NEW n \in Nat \ {0}, Len(s) <= n
  PROVE  /\ Kept(s, x, n) \in Seq(S) /\ Len(Kept(s, x, n)) \in 1..n
         /\ Kept(s, x, n)[Len(Kept(s, x, n))] = x
         /\ \A i \in 1..Len(Kept(s, x, n)) - 1 :
              \E j \in 1..Len(s) : Kept(s, x, n)[i] = s[j]
<1> DEFINE t == Append(s, x)
<1>1. /\ t \in Seq(S) /\ Len(t) = Len(s) + 1 /\ t[Len(s) + 1] = x /\ Len(s) \in Nat
      /\ \A i \in 1..Len(s) : t[i] = s[i]
  BY AppendProperties, LenProperties
<1>2. t # <<>>
  BY <1>1, EmptySeq
<1>3. CASE Len(t) > n
  <2>1. Kept(s, x, n) = Tail(t)
    BY <1>3 DEF Kept
  <2>2. /\ Tail(t) \in Seq(S) /\ Len(Tail(t)) = Len(s)
        /\ \A i \in 1..Len(s) : Tail(t)[i] = t[i + 1]
    BY <1>1, <1>2, HeadTailProperties
  <2>3. Len(s) = n
    BY <1>1, <1>3
  <2>4. \A i \in 1..Len(s) - 1 : i + 1 \in 1..Len(s) /\ Tail(t)[i] = s[i + 1]
    BY <1>1, <2>2
  <2>5. Len(s) \in 1..Len(s) /\ Tail(t)[Len(s)] = x
    BY <1>1, <2>2, <2>3
  <2> HIDE DEF t
  <2>6. \A i \in 1..Len(s) - 1 : \E j \in 1..Len(s) : Tail(t)[i] = s[j]
    BY <2>4
  <2> QED
    BY <2>1, <2>2, <2>3, <2>5, <2>6
<1>4. CASE ~(Len(t) > n)
  <2>1. Kept(s, x, n) = t
    BY <1>4 DEF Kept
  <2> HIDE DEF t
  <2> QED
    BY <1>1, <1>4, <2>1
<1> QED
  BY <1>3, <1>4

LEMMA SaveKeeps ==
  ASSUME ConsensusInv, NEW state \in Snapshot, NEW stable \in BOOLEAN, NEW agreed \in BOOLEAN,
         agreed => stable, save_checkpoint(state, stable, agreed)
  PROVE  /\ checkpoints' \in Seq(RoundCheckpoint) /\ Len(checkpoints') <= MaxCheckpoints
         /\ current_state' \in Snapshot \cup {Pristine}
         /\ \A i \in DOMAIN checkpoints' : checkpoints'[i].agreed =>
              /\ checkpoints'[i].stable
              /\ \E j \in i..Len(checkpoints') : checkpoints'[j].state = current_state'
<1> DEFINE x == [state |-> state, stable |-> stable, agreed |-> agreed]
<1>1. /\ checkpoints \in Seq(RoundCheckpoint) /\ Len(checkpoints) <= MaxCheckpoints
      /\ x \in RoundCheckpoint /\ MaxCheckpoints \in Nat \ {0}
  BY ConsensusAssumption DEF ConsensusInv, AgreementKept, ConsensusTypeOK, RoundCheckpoint
<1>2. x.state = state /\ (x.agreed => x.stable)
  OBVIOUS
<1>3. checkpoints' = Kept(checkpoints, x, MaxCheckpoints) /\ current_state' = state
  BY DEF save_checkpoint
<1> HIDE DEF x
<1>4. /\ checkpoints' \in Seq(RoundCheckpoint) /\ Len(checkpoints') \in 1..MaxCheckpoints
      /\ checkpoints'[Len(checkpoints')] = x
      /\ \A i \in 1..Len(checkpoints') - 1 :
           \E j \in 1..Len(checkpoints) : checkpoints'[i] = checkpoints[j]
  BY <1>1, <1>3, KeptList
<1>5. /\ DOMAIN checkpoints' = 1..Len(checkpoints') /\ DOMAIN checkpoints = 1..Len(checkpoints)
      /\ Len(checkpoints') \in Nat \ {0} /\ Len(checkpoints') <= MaxCheckpoints
  BY <1>1, <1>4
<1>6. ASSUME NEW i \in DOMAIN checkpoints', checkpoints'[i].agreed
      PROVE  /\ checkpoints'[i].stable
             /\ \E j \in i..Len(checkpoints') : checkpoints'[j].state = current_state'
  <2>1. Len(checkpoints') \in i..Len(checkpoints')
    BY <1>5, <1>6
  <2>2. checkpoints'[Len(checkpoints')].state = current_state'
    BY <1>2, <1>3, <1>4
  <2>3. checkpoints'[i].stable
    <3>1. CASE i = Len(checkpoints')
      BY <1>2, <1>4, <1>6, <3>1
    <3>2. CASE i # Len(checkpoints')
      <4>1. i \in 1..Len(checkpoints') - 1
        BY <1>5, <1>6, <3>2
      <4>2. PICK j \in 1..Len(checkpoints) : checkpoints'[i] = checkpoints[j]
        BY <1>4, <4>1
      <4> QED
        BY <1>5, <1>6, <4>2 DEF ConsensusInv
    <3> QED
      BY <3>1, <3>2
  <2> QED
    BY <2>1, <2>2, <2>3
<1> QED
  BY <1>3, <1>4, <1>5, <1>6

LEMMA RollbackKeeps ==
  ASSUME ConsensusInv, trigger_rollback
  PROVE  /\ checkpoints' \in Seq(RoundCheckpoint) /\ Len(checkpoints') <= MaxCheckpoints
         /\ current_state' \in Snapshot \cup {Pristine}
         /\ \A i \in DOMAIN checkpoints' : checkpoints'[i].agreed =>
              /\ checkpoints'[i].stable
              /\ \E j \in i..Len(checkpoints') : checkpoints'[j].state = current_state'
<1> DEFINE I == {i \in 1..Len(checkpoints) : checkpoints[i].stable}
<1>1. /\ checkpoints \in Seq(RoundCheckpoint) /\ Len(checkpoints) <= MaxCheckpoints
      /\ checkpoints' = checkpoints /\ DOMAIN checkpoints = 1..Len(checkpoints)
      /\ Len(checkpoints) \in Nat
  BY DEF ConsensusInv, AgreementKept, ConsensusTypeOK, RoundCheckpoint, trigger_rollback
<1>2. current_state' = LET i == IF I # {} THEN Max(I) ELSE 0
                       IN IF i = 0 THEN Pristine ELSE checkpoints[i].state
  BY DEF trigger_rollback, SelectLastInSeq
<1>3. \A i \in DOMAIN checkpoints : checkpoints[i].agreed => checkpoints[i].stable /\ i \in I
  BY <1>1 DEF ConsensusInv
<1>4. CASE I = {}
  BY <1>1, <1>2, <1>3, <1>4
<1>5. CASE I # {}
  <2>1. I \in SUBSET Nat /\ \A y \in I : y <= Len(checkpoints)
    BY <1>1
  <2>2. Max(I) \in I /\ \A y \in I : y <= Max(I)
    BY <1>1, <1>5, <2>1, MaxOfBoundedNaturals
  <2>3. Max(I) \in 1..Len(checkpoints)
    BY <2>2
  <2>4. current_state' = checkpoints[Max(I)].state
    BY <1>2, <1>5, <2>3
  <2>5. \A i \in I : Max(I) \in i..Len(checkpoints)
    BY <1>1, <2>1, <2>2, <2>3
  <2>6. checkpoints[Max(I)].state \in Snapshot
    <3>1. checkpoints[Max(I)] \in RoundCheckpoint
      BY <1>1, <2>3, ElementOfSeq
    <3> HIDE DEF I
    <3> QED
      BY <3>1 DEF RoundCheckpoint
  <2> HIDE DEF I
  <2> QED
    BY <1>1, <1>3, <2>4, <2>5, <2>6
<1> QED
  BY <1>4, <1>5

\* What a step that neither saves nor rolls back keeps of the same.
LEMMA StateStays ==
  ASSUME ConsensusInv, UNCHANGED <<checkpoints, current_state>>
  PROVE  /\ checkpoints' \in Seq(RoundCheckpoint) /\ Len(checkpoints') <= MaxCheckpoints
         /\ current_state' \in Snapshot \cup {Pristine}
         /\ \A i \in DOMAIN checkpoints' : checkpoints'[i].agreed =>
              /\ checkpoints'[i].stable
              /\ \E j \in i..Len(checkpoints') : checkpoints'[j].state = current_state'
BY DEF ConsensusInv, AgreementKept, ConsensusTypeOK, RoundCheckpoint

LEMMA ConsensusKept == ConsensusInv /\ [ConsensusNext]_consensusVars => ConsensusInv'
<1> SUFFICES ASSUME ConsensusInv, [ConsensusNext]_consensusVars PROVE ConsensusInv'
  OBVIOUS
<1> DEFINE Good == /\ checkpoints' \in Seq(RoundCheckpoint) /\ Len(checkpoints') <= MaxCheckpoints
                   /\ current_state' \in Snapshot \cup {Pristine}
                   /\ \A i \in DOMAIN checkpoints' : checkpoints'[i].agreed =>
                        /\ checkpoints'[i].stable
                        /\ \E j \in i..Len(checkpoints') : checkpoints'[j].state = current_state'
<1>1. /\ votes \in [Proposal -> Seq(Vote)] /\ samples \in Seq(Entropy) /\ Len(samples) <= WindowSize
      /\ outcome \in ConsensusStatus /\ resolves \in 0..MaxResolves
  BY DEF ConsensusInv, AgreementKept, ConsensusTypeOK
<1>2. ASSUME Good, votes' \in [Proposal -> Seq(Vote)], samples' \in Seq(Entropy),
             Len(samples') <= WindowSize, outcome' \in ConsensusStatus, resolves' \in 0..MaxResolves
      PROVE  ConsensusInv'
  BY <1>2 DEF ConsensusInv, AgreementKept, ConsensusTypeOK, RoundCheckpoint
<1>3. UNCHANGED <<checkpoints, current_state>> => Good
  BY StateStays
<1>4. trigger_rollback => Good
  BY RollbackKeeps
<1>5. \A state \in Snapshot, stable \in BOOLEAN, agreed \in BOOLEAN :
        (agreed => stable) /\ save_checkpoint(state, stable, agreed) => Good
  BY SaveKeeps
<1> HIDE DEF Good
<1>6. ASSUME NEW p \in Proposal, NEW v \in Vote, cast_vote(p, v) PROVE ConsensusInv'
  <2>1. Append(votes[p], v) \in Seq(Vote) /\ votes' = [votes EXCEPT ![p] = Append(votes[p], v)]
    BY <1>1, <1>6, AppendProperties DEF cast_vote
  <2>2. votes' \in [Proposal -> Seq(Vote)]
    BY <1>1, <2>1
  <2> QED
    BY <1>1, <1>2, <1>3, <1>6, <2>2 DEF cast_vote
<1>7. ASSUME NEW p \in Proposal, NEW h \in Entropy, resolve_consensus(p, h) PROVE ConsensusInv'
  <2>1. samples' \in Seq(Entropy) /\ Len(samples') <= WindowSize
    <3>1. samples' = Kept(samples, h, WindowSize) /\ WindowSize \in Nat \ {0}
      BY <1>7, ConsensusAssumption DEF resolve_consensus
    <3>2. samples' \in Seq(Entropy) /\ Len(samples') \in 1..WindowSize
      BY <1>1, <3>1, KeptList
    <3> QED
      BY <3>1, <3>2
  <2>2. resolves' \in 0..MaxResolves /\ votes' = votes
    BY <1>1, <1>7, ConsensusAssumption DEF resolve_consensus
  <2>3. outcome' \in ConsensusStatus
    BY <1>7 DEF resolve_consensus, ConsensusStatus
  <2>4. Good
    BY <1>3, <1>4, <1>5, <1>7 DEF resolve_consensus, Snapshot
  <2> QED
    BY <1>1, <1>2, <2>1, <2>2, <2>3, <2>4
<1>8. ASSUME NEW stable \in BOOLEAN, CallerSaves(stable) PROVE ConsensusInv'
  BY <1>1, <1>2, <1>5, <1>8 DEF CallerSaves, Snapshot
<1>9. CASE CallerRollsBack
  BY <1>1, <1>2, <1>4, <1>9 DEF CallerRollsBack
<1>10. CASE UNCHANGED consensusVars
  BY <1>1, <1>2, <1>3, <1>10 DEF consensusVars
<1> QED
  BY <1>6, <1>7, <1>8, <1>9, <1>10 DEF ConsensusNext

\* For windows and lists of checkpoints of any length (consensus_network.py): no
\* rollback goes back behind the last agreed checkpoint that is kept.
THEOREM AgreementIsKept == ConsensusSpec => []AgreementKept
<1>1. ConsensusInit => ConsensusInv
  <2> SUFFICES ASSUME ConsensusInit PROVE ConsensusInv
    OBVIOUS
  <2>1. /\ \A p \in Proposal : votes[p] = <<>> /\ samples = <<>> /\ checkpoints = <<>>
        /\ votes = [p \in Proposal |-> <<>>]
    BY DEF ConsensusInit
  <2>2. /\ votes \in [Proposal -> Seq(Vote)] /\ samples = <<>> /\ checkpoints = <<>>
        /\ resolves \in 0..MaxResolves
    BY <2>1, ConsensusAssumption, EmptySeq DEF ConsensusInit
  <2>3. DOMAIN checkpoints = {} /\ Len(samples) <= WindowSize /\ Len(checkpoints) <= MaxCheckpoints
    BY <2>2, ConsensusAssumption
  <2> QED
    BY <2>2, <2>3 DEF ConsensusInit, ConsensusInv, AgreementKept, ConsensusTypeOK, ConsensusStatus
<1>2. ConsensusInv => AgreementKept
  BY DEF ConsensusInv
<1> QED
  BY <1>1, <1>2, ConsensusKept, PTL DEF ConsensusSpec

-----------------------------------------------------------------------------
(* Approvals: what a call has been cleared for, and what an operator is about *)
(* to write of which requests.                                                *)
SafePc == {"new", "asking", "reading", "lapsing", "cleared", "running"} \cup SafeEnded
SafeRecord == [pc : SafePc, action : SafeAction \cup {"none"}, approval : ApprovalId \cup {NoApproval}]
OperatorRecord == [writes : ApprovalStatus \cup {"none"}, rows : SUBSET ApprovalId]

CallOk(r) ==
  /\ r.pc \in {"asking", "reading", "lapsing"} => r.action \notin Prohibited
  /\ r.pc \in {"reading", "lapsing"} => r.approval \in ApprovalId
  /\ r.pc = "lapsing" => r.approval \in late
  /\ r.action \in GatedAction /\ r.pc \in {"cleared", "running", "returned"} =>
       r.action \notin Prohibited /\ r.approval \in granted

OperatorOk(w) ==
  /\ w.writes = "APPROVED" => w.rows \subseteq granted
  /\ w.writes = "EXPIRED" => w.rows \subseteq late

RequestOk(r) == /\ hitl_approvals[r] = "APPROVED" => r \in granted
                /\ hitl_approvals[r] = "EXPIRED" => r \in late

ApprovalInv == /\ ApprovalTypeOK
               /\ \A c \in SafeCall : CallOk(safe[c])
               /\ \A o \in Operator : OperatorOk(operator[o])
               /\ \A r \in ApprovalId : RequestOk(r)

\* What one call of executeSafe() changes of it.
LEMMA CallStays ==
  ASSUME ApprovalInv, NEW c \in SafeCall, NEW r \in SafeRecord, CallOk(r),
         safe' = [safe EXCEPT ![c] = r], late' = late, granted' = granted
  PROVE  safe' \in [SafeCall -> SafeRecord] /\ \A d \in SafeCall : CallOk(safe[d])'
<1>1. safe \in [SafeCall -> SafeRecord]
  BY DEF ApprovalInv, ApprovalTypeOK, SafeRecord, SafePc
<1>2. safe' \in [SafeCall -> SafeRecord]
  BY <1>1
<1>3. ASSUME NEW d \in SafeCall PROVE CallOk(safe[d])'
  <2>1. CASE d = c
    <3>1. safe'[d] = r
      BY <1>1, <2>1
    <3> QED
      BY <3>1 DEF CallOk
  <2>2. CASE d # c
    <3>1. safe'[d] = safe[d] /\ CallOk(safe[d])
      BY <1>1, <2>2 DEF ApprovalInv
    <3> QED
      BY <3>1 DEF CallOk
  <2> QED
    BY <2>1, <2>2
<1> QED
  BY <1>2, <1>3

LEMMA CallMoves ==
  ASSUME ApprovalInv, NEW c \in SafeCall, NEW pc \in SafePc, CallGoes(c, pc),
         late' = late, granted' = granted,
         pc \notin {"asking", "reading"},
         pc = "lapsing" => safe[c].pc = "reading" /\ safe[c].approval \in late,
         pc = "cleared" => safe[c].pc = "reading" /\ safe[c].approval \in granted,
         pc \in {"running", "returned"} => safe[c].pc \in {"cleared", "running"}
  PROVE  safe' \in [SafeCall -> SafeRecord] /\ \A d \in SafeCall : CallOk(safe[d])'
<1>1. safe \in [SafeCall -> SafeRecord] /\ safe[c] \in SafeRecord /\ CallOk(safe[c])
  BY DEF ApprovalInv, ApprovalTypeOK, SafeRecord, SafePc
<1> DEFINE r == [safe[c] EXCEPT !.pc = pc]
<1>2. r \in SafeRecord /\ r.pc = pc /\ r.action = safe[c].action /\ r.approval = safe[c].approval
  BY <1>1 DEF SafeRecord
<1>3. safe' = [safe EXCEPT ![c] = r]
  BY <1>1 DEF CallGoes
<1> HIDE DEF r
<1>4. CallOk(r)
  BY <1>1, <1>2 DEF CallOk
<1> QED
  BY <1>2, <1>3, <1>4, CallStays

\* The rest of the state of a call's step: the requests, and what it logs.
LEMMA CallLogs ==
  ASSUME ApprovalInv, NEW c \in SafeCall, NEW decision \in {"ALLOW", "DENY", "HITL_PAUSE"},
         logSecurityEvent(c, decision)
  PROVE  security_audit_events' \in [SafeCall -> {"none", "ALLOW", "DENY", "HITL_PAUSE"}]
BY DEF ApprovalInv, ApprovalTypeOK, logSecurityEvent

LEMMA RequestBecomes ==
  ASSUME ApprovalInv, NEW r \in ApprovalId, NEW status \in ApprovalStatus \cup {"none"},
         hitl_approvals' = [hitl_approvals EXCEPT ![r] = status],
         late' = late, granted' = granted,
         status = "APPROVED" => r \in granted, status = "EXPIRED" => r \in late
  PROVE  /\ hitl_approvals' \in [ApprovalId -> ApprovalStatus \cup {"none"}]
         /\ \A q \in ApprovalId : RequestOk(q)'
<1>1. hitl_approvals \in [ApprovalId -> ApprovalStatus \cup {"none"}]
  BY DEF ApprovalInv, ApprovalTypeOK
<1>2. ASSUME NEW q \in ApprovalId PROVE RequestOk(q)'
  <2>1. CASE q = r
    BY <1>1, <2>1 DEF RequestOk
  <2>2. CASE q # r
    BY <1>1, <2>2 DEF ApprovalInv, RequestOk
  <2> QED
    BY <2>1, <2>2
<1> QED
  BY <1>1, <1>2

\* A step of a call leaves the operators alone, and time and decisions too.
LEMMA SafeStep ==
  ASSUME ApprovalInv, SafeKeeps,
         safe' \in [SafeCall -> SafeRecord], \A d \in SafeCall : CallOk(safe[d])',
         security_audit_events' \in [SafeCall -> {"none", "ALLOW", "DENY", "HITL_PAUSE"}],
         hitl_approvals' \in [ApprovalId -> ApprovalStatus \cup {"none"}],
         \A q \in ApprovalId : RequestOk(q)'
  PROVE  ApprovalInv'
<1>1. late' \subseteq ApprovalId /\ granted' \subseteq ApprovalId
      /\ operator' \in [Operator -> OperatorRecord]
  BY DEF ApprovalInv, ApprovalTypeOK, SafeKeeps, OperatorRecord
<1>2. \A o \in Operator : OperatorOk(operator[o])'
  BY DEF ApprovalInv, OperatorOk, SafeKeeps
<1>3. ApprovalTypeOK'
  BY <1>1 DEF ApprovalTypeOK, SafeRecord, SafePc, OperatorRecord
<1> QED
  BY <1>2, <1>3 DEF ApprovalInv

LEMMA RequestsStay ==
  ASSUME ApprovalInv, UNCHANGED hitl_approvals, late' = late, granted' = granted
  PROVE  /\ hitl_approvals' \in [ApprovalId -> ApprovalStatus \cup {"none"}]
         /\ \A q \in ApprovalId : RequestOk(q)'
BY DEF ApprovalInv, ApprovalTypeOK, RequestOk

LEMMA ExecuteSafeKeeps ==
  ASSUME ApprovalInv, NEW c \in SafeCall, NEW a \in SafeAction, NEW id \in ApprovalId \cup {NoApproval},
         executeSafe(c, a, id)
  PROVE  ApprovalInv'
<1>1. SafeKeeps /\ late' = late /\ granted' = granted
  BY DEF executeSafe, SafeKeeps
<1>2. security_audit_events \in [SafeCall -> {"none", "ALLOW", "DENY", "HITL_PAUSE"}]
  BY DEF ApprovalInv, ApprovalTypeOK
<1> DEFINE Begins(pc, h) == [pc |-> pc, action |-> a, approval |-> h]
           Begun(pc, h) == safe' = [safe EXCEPT ![c] = Begins(pc, h)]
           Calls == safe' \in [SafeCall -> SafeRecord] /\ \A d \in SafeCall : CallOk(safe[d])'
<1>3. ASSUME NEW pc \in SafePc, NEW h \in ApprovalId \cup {NoApproval}, Begun(pc, h),
             CallOk(Begins(pc, h))
      PROVE  Calls
  <2>1. Begins(pc, h) \in SafeRecord
    BY DEF SafeRecord
  <2> QED
    BY <1>1, <1>3, <2>1, CallStays
<1>4. CASE a \in Prohibited /\ Begun("raised", id) /\ logSecurityEvent(c, "DENY") /\ UNCHANGED hitl_approvals
  <2>1. Calls
    BY <1>3, <1>4 DEF CallOk, SafePc, SafeEnded
  <2> QED
    BY <1>1, <1>4, <2>1, CallLogs, RequestsStay, SafeStep
<1>5. CASE /\ a \notin Prohibited /\ a \notin GatedAction /\ Begun("cleared", id)
           /\ UNCHANGED <<hitl_approvals, security_audit_events>>
  <2>1. Calls
    BY <1>3, <1>5 DEF CallOk, SafePc
  <2> QED
    BY <1>1, <1>2, <1>5, <2>1, RequestsStay, SafeStep
<1>6. CASE /\ a \in GatedAction \ Prohibited /\ id # NoApproval /\ Begun("reading", id)
           /\ UNCHANGED <<hitl_approvals, security_audit_events>>
  <2>1. Calls
    BY <1>3, <1>6 DEF CallOk, SafePc
  <2> QED
    BY <1>1, <1>2, <1>6, <2>1, RequestsStay, SafeStep
<1>7. ASSUME NEW r \in ApprovalId, a \in GatedAction \ Prohibited, Begun("asking", r),
             hitl_approvals' = [hitl_approvals EXCEPT ![r] = "PENDING"], UNCHANGED security_audit_events
      PROVE  ApprovalInv'
  <2>1. Calls
    BY <1>3, <1>7 DEF CallOk, SafePc
  <2>2. /\ hitl_approvals' \in [ApprovalId -> ApprovalStatus \cup {"none"}]
        /\ \A q \in ApprovalId : RequestOk(q)'
    BY <1>1, <1>7, RequestBecomes DEF ApprovalStatus
  <2> QED
    BY <1>1, <1>2, <1>7, <2>1, <2>2, SafeStep
<1> QED
  BY <1>4, <1>5, <1>6, <1>7 DEF executeSafe

LEMMA StatusKeeps ==
  ASSUME ApprovalInv, NEW c \in SafeCall, getStatus(c) \/ ActionLapses(c)
  PROVE  ApprovalInv'
<1>1. SafeKeeps /\ late' = late /\ granted' = granted
  BY DEF getStatus, ActionLapses, SafeKeeps
<1>2. security_audit_events \in [SafeCall -> {"none", "ALLOW", "DENY", "HITL_PAUSE"}]
      /\ CallOk(safe[c])
  BY DEF ApprovalInv, ApprovalTypeOK
<1> DEFINE Calls == safe' \in [SafeCall -> SafeRecord] /\ \A d \in SafeCall : CallOk(safe[d])'
           r == safe[c].approval
<1>3. CASE ActionDenied(c) /\ getStatus(c)
  <2>1. Calls
    BY <1>1, <1>3, CallMoves DEF ActionDenied, SafePc, SafeEnded
  <2> QED
    BY <1>1, <1>3, <2>1, CallLogs, RequestsStay, SafeStep DEF ActionDenied, getStatus
<1>4. CASE /\ hitl_approvals[r] = "APPROVED" /\ CallGoes(c, "cleared") /\ UNCHANGED security_audit_events
           /\ getStatus(c)
  <2>1. safe[c].pc = "reading" /\ r \in granted
    BY <1>2, <1>4 DEF getStatus, CallOk, ApprovalInv, RequestOk
  <2>2. Calls
    BY <1>1, <1>4, <2>1, CallMoves DEF SafePc
  <2> QED
    BY <1>1, <1>2, <1>4, <2>2, RequestsStay, SafeStep DEF getStatus
<1>5. CASE r \in late /\ CallGoes(c, "lapsing") /\ UNCHANGED security_audit_events /\ getStatus(c)
  <2>1. Calls
    BY <1>1, <1>5, CallMoves DEF SafePc, getStatus
  <2> QED
    BY <1>1, <1>2, <1>5, <2>1, RequestsStay, SafeStep DEF getStatus
<1>6. CASE ActionLapses(c)
  <2>1. Calls
    BY <1>1, <1>6, CallMoves DEF ActionLapses, ActionDenied, SafePc, SafeEnded
  <2>2. r \in ApprovalId /\ r \in late /\ hitl_approvals' = [hitl_approvals EXCEPT ![r] = "EXPIRED"]
    BY <1>2, <1>6 DEF ActionLapses, CallOk
  <2>3. /\ hitl_approvals' \in [ApprovalId -> ApprovalStatus \cup {"none"}]
        /\ \A q \in ApprovalId : RequestOk(q)'
    BY <1>1, <2>2, RequestBecomes DEF ApprovalStatus
  <2> QED
    BY <1>1, <1>6, <2>1, <2>3, CallLogs, SafeStep DEF ActionLapses, ActionDenied
<1> QED
  BY <1>3, <1>4, <1>5, <1>6 DEF getStatus

LEMMA ActionKeeps ==
  ASSUME ApprovalInv, NEW c \in SafeCall, ActionPaused(c) \/ ActionAllowed(c) \/ ActionEnds(c)
  PROVE  ApprovalInv'
<1>1. SafeKeeps /\ late' = late /\ granted' = granted /\ UNCHANGED hitl_approvals
  BY DEF ActionPaused, ActionAllowed, ActionEnds, SafeKeeps
<1>2. security_audit_events \in [SafeCall -> {"none", "ALLOW", "DENY", "HITL_PAUSE"}]
  BY DEF ApprovalInv, ApprovalTypeOK
<1>3. CASE ActionPaused(c)
  <2>1. safe' \in [SafeCall -> SafeRecord] /\ \A d \in SafeCall : CallOk(safe[d])'
    BY <1>1, <1>3, CallMoves DEF ActionPaused, SafePc, SafeEnded
  <2> QED
    BY <1>1, <1>3, <2>1, CallLogs, RequestsStay, SafeStep DEF ActionPaused
<1>4. CASE ActionAllowed(c)
  <2>1. safe' \in [SafeCall -> SafeRecord] /\ \A d \in SafeCall : CallOk(safe[d])'
    BY <1>1, <1>4, CallMoves DEF ActionAllowed, SafePc
  <2> QED
    BY <1>1, <1>4, <2>1, CallLogs, RequestsStay, SafeStep DEF ActionAllowed
<1>5. CASE ActionEnds(c)
  <2>1. safe' \in [SafeCall -> SafeRecord] /\ \A d \in SafeCall : CallOk(safe[d])'
    BY <1>1, <1>5, CallMoves DEF ActionEnds, SafePc, SafeEnded
  <2> QED
    BY <1>1, <1>2, <1>5, <2>1, RequestsStay, SafeStep DEF ActionEnds
<1> QED
  BY <1>3, <1>4, <1>5

\* More is late and more is granted: what was true of calls and requests stays so.
LEMMA MoreIsKnown ==
  ASSUME ApprovalInv, UNCHANGED <<safe, hitl_approvals, security_audit_events>>,
         late \subseteq late', late' \subseteq ApprovalId,
         granted \subseteq granted', granted' \subseteq ApprovalId,
         operator' \in [Operator -> OperatorRecord],
         \A o \in Operator : OperatorOk(operator[o])'
  PROVE  ApprovalInv'
<1>1. ApprovalTypeOK'
  BY DEF ApprovalInv, ApprovalTypeOK, OperatorRecord
<1>2. \A c \in SafeCall : CallOk(safe[c])'
  BY DEF ApprovalInv, CallOk
<1>3. \A r \in ApprovalId : RequestOk(r)'
  BY DEF ApprovalInv, RequestOk
<1> QED
  BY <1>1, <1>2, <1>3 DEF ApprovalInv

LEMMA OperatorReads ==
  ASSUME ApprovalInv, NEW o \in Operator, NEW status \in ApprovalStatus, NEW rows \in SUBSET ApprovalId,
         WillWrite(o, status, rows), OperatorKeeps,
         granted \subseteq granted', granted' \subseteq ApprovalId,
         status = "APPROVED" => rows \subseteq granted', status = "EXPIRED" => rows \subseteq late
  PROVE  ApprovalInv'
<1> DEFINE w == [writes |-> status, rows |-> rows]
<1>1. operator \in [Operator -> OperatorRecord] /\ late \subseteq ApprovalId /\ late' = late
  BY DEF ApprovalInv, ApprovalTypeOK, OperatorRecord, OperatorKeeps
<1>2. w \in OperatorRecord /\ operator' = [operator EXCEPT ![o] = w]
  BY DEF OperatorRecord, WillWrite
<1>3. w.writes = status /\ w.rows = rows
  OBVIOUS
<1> HIDE DEF w
<1>4. operator' \in [Operator -> OperatorRecord]
  BY <1>1, <1>2
<1>5. ASSUME NEW p \in Operator PROVE OperatorOk(operator[p])'
  <2>1. CASE p = o
    <3>1. operator'[p] = w
      BY <1>1, <1>2, <2>1
    <3> QED
      BY <1>1, <1>3, <3>1 DEF OperatorOk
  <2>2. CASE p # o
    <3>1. operator'[p] = operator[p] /\ OperatorOk(operator[p])
      BY <1>1, <1>2, <2>2 DEF ApprovalInv
    <3> QED
      BY <1>1, <3>1 DEF OperatorOk
  <2> QED
    BY <2>1, <2>2
<1> QED
  BY <1>1, <1>4, <1>5, MoreIsKnown DEF OperatorKeeps

LEMMA OperatorKeepsInv ==
  ASSUME ApprovalInv, NEW o \in Operator, NEW r \in ApprovalId,
         approve(o, r) \/ reject(o, r) \/ listPending(o)
  PROVE  ApprovalInv'
<1>1. late \subseteq ApprovalId /\ granted \subseteq ApprovalId
  BY DEF ApprovalInv, ApprovalTypeOK
<1>2. CASE approve(o, r)
  <2>1. granted \subseteq granted' /\ granted' \subseteq ApprovalId
    BY <1>1, <1>2 DEF approve, NowGranted
  <2>2. CASE r \in late /\ WillWrite(o, "EXPIRED", {r})
    BY <1>2, <2>1, <2>2, OperatorReads DEF approve, ApprovalStatus
  <2>3. CASE r \notin late /\ hitl_approvals[r] = "PENDING" /\ WillWrite(o, "APPROVED", {r})
    <3>1. r \in granted'
      BY <1>2, <2>3 DEF approve, NowGranted
    <3> QED
      BY <1>2, <2>1, <2>3, <3>1, OperatorReads DEF approve, ApprovalStatus
  <2> QED
    BY <1>2, <2>2, <2>3 DEF approve
<1>3. CASE reject(o, r)
  BY <1>1, <1>3, OperatorReads DEF reject, ApprovalStatus
<1>4. CASE listPending(o)
  <2> DEFINE rows == {q \in late : hitl_approvals[q] = "PENDING"}
  <2>1. WillWrite(o, "EXPIRED", rows) /\ OperatorKeeps /\ granted' = granted
    BY <1>4 DEF listPending
  <2>2. rows \in SUBSET ApprovalId /\ rows \subseteq late
    BY <1>1
  <2> HIDE DEF rows
  <2> QED
    BY <1>1, <2>1, <2>2, OperatorReads DEF ApprovalStatus
<1> QED
  BY <1>2, <1>3, <1>4

LEMMA WritingKeeps ==
  ASSUME ApprovalInv, NEW o \in Operator, NEW r \in ApprovalId, DecisionWritten(o, r)
  PROVE  ApprovalInv'
<1>1. /\ operator \in [Operator -> OperatorRecord] /\ operator[o] \in OperatorRecord
      /\ OperatorOk(operator[o]) /\ r \in operator[o].rows
      /\ late' = late /\ granted' = granted
      /\ UNCHANGED <<safe, security_audit_events>>
      /\ hitl_approvals' = [hitl_approvals EXCEPT ![r] = operator[o].writes]
  BY DEF ApprovalInv, ApprovalTypeOK, OperatorRecord, DecisionWritten
<1>2. operator[o].writes \in ApprovalStatus \cup {"none"}
  BY <1>1 DEF OperatorRecord
<1>3. /\ hitl_approvals' \in [ApprovalId -> ApprovalStatus \cup {"none"}]
      /\ \A q \in ApprovalId : RequestOk(q)'
  BY <1>1, <1>2, RequestBecomes DEF OperatorOk
<1> DEFINE w == IF operator[o].rows = {r} THEN NotWriting
                ELSE [operator[o] EXCEPT !.rows = operator[o].rows \ {r}]
<1>4. operator' = [operator EXCEPT ![o] = w]
  BY <1>1 DEF DecisionWritten
<1>5. w \in OperatorRecord
  BY <1>1 DEF OperatorRecord, NotWriting
<1>6. OperatorOk(w)
  BY <1>1 DEF OperatorOk, OperatorRecord, NotWriting
<1> HIDE DEF w
<1>7. operator' \in [Operator -> OperatorRecord]
  BY <1>1, <1>4, <1>5
<1>8. ASSUME NEW p \in Operator PROVE OperatorOk(operator[p])'
  <2>1. operator'[p] = (IF p = o THEN w ELSE operator[p])
    BY <1>1, <1>4
  <2>2. OperatorOk(operator[p])
    BY DEF ApprovalInv
  <2> QED
    BY <1>1, <1>6, <2>1, <2>2 DEF OperatorOk
<1>9. ApprovalTypeOK'
  BY <1>1, <1>3, <1>7 DEF ApprovalInv, ApprovalTypeOK, OperatorRecord
<1>10. \A c \in SafeCall : CallOk(safe[c])'
  BY <1>1 DEF ApprovalInv, CallOk
<1> QED
  BY <1>3, <1>8, <1>9, <1>10 DEF ApprovalInv

LEMMA ApprovalKept == ApprovalInv /\ [ApprovalNext]_approvalVars => ApprovalInv'
<1> SUFFICES ASSUME ApprovalInv, [ApprovalNext]_approvalVars PROVE ApprovalInv'
  OBVIOUS
<1>1. ASSUME NEW r \in ApprovalId, TimePasses(r) PROVE ApprovalInv'
  <2>1. late' = late \cup {r} /\ UNCHANGED <<hitl_approvals, safe, operator, security_audit_events, granted>>
    BY <1>1 DEF TimePasses
  <2>2. operator' \in [Operator -> OperatorRecord] /\ late' \subseteq ApprovalId /\ granted' \subseteq ApprovalId
    BY <2>1 DEF ApprovalInv, ApprovalTypeOK, OperatorRecord
  <2>3. \A o \in Operator : OperatorOk(operator[o])'
    BY <2>1 DEF ApprovalInv, OperatorOk
  <2> QED
    BY <2>1, <2>2, <2>3, MoreIsKnown
<1>2. CASE UNCHANGED approvalVars
  BY <1>2 DEF approvalVars, ApprovalInv, ApprovalTypeOK, CallOk, OperatorOk, RequestOk
<1>3. ASSUME NEW o \in Operator, listPending(o) PROVE ApprovalInv'
  <2>1. PICK r \in ApprovalId : TRUE
    BY <1>3 DEF listPending, ApprovalInv, ApprovalTypeOK
  <2> QED
    BY <1>3, OperatorKeepsInv
<1> QED
  BY <1>1, <1>2, <1>3, ExecuteSafeKeeps, StatusKeeps, ActionKeeps, OperatorKeepsInv, WritingKeeps
     DEF ApprovalNext

\* For any number of calls, operators and requests that decide and read at the
\* same time (HITLTrigger.js, OpenShellSupervisor.js): what needs approval runs
\* only on a request that was approved while it was pending and in time.
THEOREM ApprovalsAreHeld == ApprovalSpec => []ApprovalsHold
<1>1. ApprovalInit => ApprovalInv
  <2> SUFFICES ASSUME ApprovalInit PROVE ApprovalInv
    OBVIOUS
  <2>1. ApprovalTypeOK
    BY DEF ApprovalInit, ApprovalTypeOK, NotWriting, SafeEnded
  <2>2. /\ \A c \in SafeCall : safe[c].pc = "new"
        /\ \A o \in Operator : operator[o].writes = "none"
        /\ \A r \in ApprovalId : hitl_approvals[r] = "none"
    BY DEF ApprovalInit, NotWriting
  <2> QED
    BY <2>1, <2>2 DEF ApprovalInv, CallOk, OperatorOk, RequestOk
<1>2. ApprovalInv => ApprovalsHold
  BY DEF ApprovalInv, ApprovalsHold, CallOk, RequestOk
<1> QED
  BY <1>1, <1>2, ApprovalKept, PTL DEF ApprovalSpec

-----------------------------------------------------------------------------
(* AgentScheduler: PayloadsInOrder is inductive as it stands.                 *)

LEMMA HeadToFirst ==
  ASSUME NEW S, NEW s \in Seq(S), NEW t \in Seq(S), t # <<>>
  PROVE  /\ Append(s, Head(t)) \in Seq(S) /\ Tail(t) \in Seq(S)
         /\ s \o t = Append(s, Head(t)) \o Tail(t)
<1>1. Head(t) \in S /\ Tail(t) \in Seq(S) /\ Len(t) > 0 /\ Head(t) = t[1]
  OBVIOUS
<1>2. Append(s, Head(t)) \in Seq(S) /\ s \o t \in Seq(S) /\ Append(s, Head(t)) \o Tail(t) \in Seq(S)
  BY <1>1
<1>3. Len(s \o t) = Len(Append(s, Head(t)) \o Tail(t))
  BY <1>1
<1>4. \A i \in 1..Len(s \o t) : (s \o t)[i] = (Append(s, Head(t)) \o Tail(t))[i]
  BY <1>1
<1> QED
  BY <1>1, <1>2, <1>3, <1>4, SeqEqual

LEMMA AssembledNext ==
  ASSUME SchedulerTypeOK',
         \A a \in SchedAgent : routed'[a] = delivered'[a] \o payload_queues'[a],
         \A a \in SchedAgent : agents'[a].status = "BUSY" => agents'[a].quantum \in 5..1000
  PROVE  PayloadsInOrder'
BY DEF PayloadsInOrder

\* The next envelope has a number within the bound.
LEMMA NextEnvelope ==
  ASSUME SchedulerTypeOK, Envelopes < MaxEnvelopes
  PROVE  Envelopes + 1 \in 1..MaxEnvelopes
<1> DEFINE numbers == UNION {ToSet(routed[a]) : a \in SchedAgent}
<1>1. MaxEnvelopes \in Nat
  BY SchedulerAssumption
<1>2. numbers \subseteq 1..MaxEnvelopes
  <2> SUFFICES ASSUME NEW a \in SchedAgent, NEW i \in DOMAIN routed[a]
               PROVE  routed[a][i] \in 1..MaxEnvelopes
    BY DEF ToSet
  <2>1. routed[a] \in Seq(1..MaxEnvelopes)
    BY DEF SchedulerTypeOK
  <2>2. i \in 1..Len(routed[a])
    BY <2>1
  <2> QED
    BY <2>1, <2>2, ElementOfSeq
<1>3. IsFiniteSet(1..MaxEnvelopes)
  BY <1>1, FS_Interval
<1>4. Cardinality(numbers) \in Nat
  BY <1>2, <1>3, FS_Subset, FS_CardinalityType
<1> QED
  BY <1>1, <1>4 DEF Envelopes

LEMMA SlicesBounded ==
  ASSUME SchedulerTypeOK, NEW a \in SchedAgent
  PROVE  Slices \in 0..MaxSlices
<1> DEFINE slices == {agents[b].slice : b \in SchedAgent}
<1>1. slices \subseteq 0..MaxSlices /\ MaxSlices \in Nat /\ slices # {}
  BY SchedulerAssumption DEF SchedulerTypeOK
<1>2. slices \in SUBSET Nat /\ \A y \in slices : y <= MaxSlices
  BY <1>1
<1> HIDE DEF slices
<1>3. Max(slices) \in slices
  BY <1>1, <1>2, MaxOfBoundedNaturals
<1> QED
  BY <1>1, <1>3 DEF Slices, slices

LEMMA SchedulerInitially == SchedulerInit => PayloadsInOrder
<1> SUFFICES ASSUME SchedulerInit PROVE PayloadsInOrder
  OBVIOUS
<1>1. SchedulerTypeOK
  BY SchedulerAssumption DEF SchedulerInit, SchedulerTypeOK
<1>2. \A a \in SchedAgent : routed[a] = <<>> /\ delivered[a] = <<>> /\ payload_queues[a] = <<>>
  BY DEF SchedulerInit
<1>3. <<>> \o <<>> = <<>>
  OBVIOUS
<1> QED
  BY <1>1, <1>2, <1>3 DEF PayloadsInOrder, SchedulerInit

Registration == [status : {"HALTED", "IDLE", "BUSY", "FROZEN"}, slice : 0..MaxSlices, quantum : 0..1000]

\* The queue of one agent changes; registrations stay.
LEMMA QueueStep ==
  ASSUME PayloadsInOrder, NEW a \in SchedAgent, agents' = agents,
         payload_queues' \in [SchedAgent -> Seq(1..MaxEnvelopes)],
         delivered' \in [SchedAgent -> Seq(1..MaxEnvelopes)],
         routed' \in [SchedAgent -> Seq(1..MaxEnvelopes)],
         routed'[a] = delivered'[a] \o payload_queues'[a],
         \A b \in SchedAgent \ {a} : /\ payload_queues'[b] = payload_queues[b]
                                     /\ delivered'[b] = delivered[b] /\ routed'[b] = routed[b]
  PROVE  PayloadsInOrder'
<1>1. \A b \in SchedAgent : routed[b] = delivered[b] \o payload_queues[b]
  BY DEF PayloadsInOrder
<1>2. SchedulerTypeOK'
  BY DEF PayloadsInOrder, SchedulerTypeOK
<1>3. ASSUME NEW b \in SchedAgent PROVE routed'[b] = delivered'[b] \o payload_queues'[b]
  <2>1. CASE b = a
    BY <2>1
  <2>2. CASE b # a
    BY <1>1, <2>2
  <2> QED
    BY <2>1, <2>2
<1>4. \A b \in SchedAgent : agents'[b].status = "BUSY" => agents'[b].quantum \in 5..1000
  BY DEF PayloadsInOrder
<1> QED
  BY <1>2, <1>3, <1>4, AssembledNext

\* A registration changes; the queues stay.
LEMMA RegistrationStep ==
  ASSUME PayloadsInOrder, UNCHANGED <<payload_queues, delivered, routed>>, NEW a \in SchedAgent,
         NEW r \in Registration, r.status = "BUSY" => r.quantum \in 5..1000,
         agents' = [b \in SchedAgent |-> IF b = a THEN r ELSE agents[b]]
  PROVE  PayloadsInOrder'
<1>1. agents \in [SchedAgent -> Registration]
  BY DEF PayloadsInOrder, SchedulerTypeOK, Registration
<1>2. \A b \in SchedAgent : agents[b].status = "BUSY" => agents[b].quantum \in 5..1000
  BY DEF PayloadsInOrder
<1>3. SchedulerTypeOK'
  <2>1. agents' \in [SchedAgent -> Registration]
    BY <1>1
  <2>2. /\ payload_queues' \in [SchedAgent -> Seq(1..MaxEnvelopes)]
        /\ delivered' \in [SchedAgent -> Seq(1..MaxEnvelopes)]
        /\ routed' \in [SchedAgent -> Seq(1..MaxEnvelopes)]
    BY DEF PayloadsInOrder, SchedulerTypeOK
  <2> QED
    BY <2>1, <2>2 DEF SchedulerTypeOK, Registration
<1>4. ASSUME NEW b \in SchedAgent
      PROVE  agents'[b].status = "BUSY" => agents'[b].quantum \in 5..1000
  <2>1. CASE b = a
    <3>1. agents'[b] = r
      BY <2>1
    <3> QED
      BY <3>1
  <2>2. CASE b # a
    <3>1. agents'[b] = agents[b]
      BY <2>2
    <3> QED
      BY <1>2, <3>1
  <2> QED
    BY <2>1, <2>2
<1>5. \A b \in SchedAgent : routed'[b] = delivered'[b] \o payload_queues'[b]
  BY DEF PayloadsInOrder
<1> QED
  BY <1>3, <1>4, <1>5, AssembledNext

LEMMA SchedulerKept == PayloadsInOrder /\ [SchedulerNext]_schedulerVars => PayloadsInOrder'
<1> SUFFICES ASSUME PayloadsInOrder, [SchedulerNext]_schedulerVars PROVE PayloadsInOrder'
  OBVIOUS
<1>0. SchedulerTypeOK
  BY DEF PayloadsInOrder
<1>a. agents \in [SchedAgent -> Registration]
  BY <1>0 DEF SchedulerTypeOK, Registration
<1>q. /\ payload_queues \in [SchedAgent -> Seq(1..MaxEnvelopes)]
      /\ delivered \in [SchedAgent -> Seq(1..MaxEnvelopes)]
      /\ routed \in [SchedAgent -> Seq(1..MaxEnvelopes)]
  BY <1>0 DEF SchedulerTypeOK
<1>o. \A a \in SchedAgent : routed[a] = delivered[a] \o payload_queues[a]
  BY DEF PayloadsInOrder
<1>1. ASSUME NEW a \in SchedAgent, register_agent(a) PROVE PayloadsInOrder'
  <2> DEFINE r == [status |-> "IDLE", slice |-> Slices + 1, quantum |-> 0]
  <2>1. Slices + 1 \in 0..MaxSlices
    <3>1. Slices \in 0..MaxSlices /\ MaxSlices \in Nat
      BY <1>0, SlicesBounded, SchedulerAssumption
    <3> QED
      BY <1>1, <3>1 DEF register_agent
  <2>2. r \in Registration /\ r.status # "BUSY"
    BY <2>1 DEF Registration
  <2>3. agents' = [agents EXCEPT ![a] = r] /\ UNCHANGED <<payload_queues, delivered, routed>>
    BY <1>1 DEF register_agent
  <2> HIDE DEF r
  <2>4. agents' = [b \in SchedAgent |-> IF b = a THEN r ELSE agents[b]]
    BY <1>a, <2>3
  <2> QED
    BY <2>2, <2>3, <2>4, RegistrationStep
<1>2. ASSUME NEW a \in SchedAgent, route_payload(a) PROVE PayloadsInOrder'
  <2> DEFINE n == Envelopes + 1
             numbers == 1..MaxEnvelopes
             queue == payload_queues[a]
             gone == delivered[a]
  <2>1. n \in numbers
    BY <1>0, <1>2, NextEnvelope DEF route_payload
  <2>2. queue \in Seq(numbers) /\ gone \in Seq(numbers)
    BY <1>q
  <2>9. routed[a] = gone \o queue
    BY <1>o
  <2>3. /\ payload_queues' = [payload_queues EXCEPT ![a] = Append(queue, n)]
        /\ routed' = [routed EXCEPT ![a] = Append(routed[a], n)]
        /\ agents' = agents /\ delivered' = delivered
    BY <1>2 DEF route_payload
  <2>4. /\ payload_queues \in [SchedAgent -> Seq(numbers)]
        /\ delivered \in [SchedAgent -> Seq(numbers)]
        /\ routed \in [SchedAgent -> Seq(numbers)] /\ delivered[a] = gone
    BY <1>q
  <2> HIDE DEF n, numbers, queue, gone
  <2>5. /\ Append(queue, n) \in Seq(numbers) /\ Append(gone \o queue, n) \in Seq(numbers)
        /\ Append(gone \o queue, n) = gone \o Append(queue, n)
    BY <2>1, <2>2
  <2>6. /\ payload_queues' \in [SchedAgent -> Seq(numbers)]
        /\ delivered' \in [SchedAgent -> Seq(numbers)]
        /\ routed' \in [SchedAgent -> Seq(numbers)]
    BY <2>9, <2>3, <2>4, <2>5
  <2>7. routed'[a] = delivered'[a] \o payload_queues'[a]
    <3>1. /\ routed'[a] = Append(gone \o queue, n) /\ delivered'[a] = gone
          /\ payload_queues'[a] = Append(queue, n)
      BY <2>9, <2>3, <2>4
    <3> QED
      BY <3>1, <2>5
  <2>8. \A b \in SchedAgent \ {a} : /\ payload_queues'[b] = payload_queues[b]
                                    /\ delivered'[b] = delivered[b] /\ routed'[b] = routed[b]
    BY <2>3, <2>4
  <2> QED
    BY <2>3, <2>6, <2>7, <2>8, QueueStep DEF numbers
<1>3. ASSUME NEW a \in SchedAgent, stream_payloads_for_agent(a) PROVE PayloadsInOrder'
  <2> DEFINE numbers == 1..MaxEnvelopes
             queue == payload_queues[a]
             gone == delivered[a]
  <2>1. /\ queue # <<>> /\ queue \in Seq(numbers) /\ gone \in Seq(numbers)
        /\ routed[a] = gone \o queue
    BY <1>3, <1>q, <1>o DEF stream_payloads_for_agent
  <2>2. /\ delivered' = [delivered EXCEPT ![a] = Append(gone, Head(queue))]
        /\ payload_queues' = [payload_queues EXCEPT ![a] = Tail(queue)]
        /\ agents' = agents /\ routed' = routed
    BY <1>3 DEF stream_payloads_for_agent
  <2>3. /\ payload_queues \in [SchedAgent -> Seq(numbers)]
        /\ delivered \in [SchedAgent -> Seq(numbers)]
        /\ routed \in [SchedAgent -> Seq(numbers)]
    BY <1>q
  <2> HIDE DEF numbers, queue, gone
  <2>4. /\ Append(gone, Head(queue)) \in Seq(numbers) /\ Tail(queue) \in Seq(numbers)
        /\ gone \o queue = Append(gone, Head(queue)) \o Tail(queue)
    BY <2>1, HeadToFirst
  <2>5. /\ payload_queues' \in [SchedAgent -> Seq(numbers)]
        /\ delivered' \in [SchedAgent -> Seq(numbers)]
        /\ routed' \in [SchedAgent -> Seq(numbers)]
    BY <2>2, <2>3, <2>4
  <2>6. routed'[a] = delivered'[a] \o payload_queues'[a]
    <3>1. /\ routed'[a] = gone \o queue /\ delivered'[a] = Append(gone, Head(queue))
          /\ payload_queues'[a] = Tail(queue)
      BY <2>1, <2>2, <2>3
    <3> QED
      BY <3>1, <2>4
  <2>7. \A b \in SchedAgent \ {a} : /\ payload_queues'[b] = payload_queues[b]
                                    /\ delivered'[b] = delivered[b] /\ routed'[b] = routed[b]
    BY <2>2, <2>3
  <2> QED
    BY <2>2, <2>5, <2>6, <2>7, QueueStep DEF numbers
<1>4. ASSUME NEW a \in SchedAgent, NEW priority \in {"REALTIME", "STANDARD", "BATCH"},
             NEW q \in Quantum, NEW entropy \in {25, 88}, schedule_slice(a, priority, q, entropy)
      PROVE  PayloadsInOrder'
  <2> DEFINE allotted == Granted(priority, q)
  <2>1. allotted \in 5..1000
    BY SchedulerAssumption DEF Granted, Clamp
  <2>2. /\ \/ agents' = [agents EXCEPT ![a].status = "FROZEN", ![a].quantum = 0]
           \/ agents' = [agents EXCEPT ![a].status = "BUSY", ![a].quantum = allotted]
        /\ UNCHANGED <<payload_queues, delivered, routed>>
    BY <1>4 DEF schedule_slice
  <2> HIDE DEF allotted
  <2> DEFINE with(status, quantum) == [status |-> status, slice |-> agents[a].slice, quantum |-> quantum]
             frozen == with("FROZEN", 0)
             busy == with("BUSY", allotted)
  <2>3. /\ frozen \in Registration /\ frozen.status # "BUSY"
        /\ busy \in Registration /\ busy.quantum \in 5..1000
    BY <1>a, <2>1 DEF Registration
  <2>4. \/ agents' = [b \in SchedAgent |-> IF b = a THEN frozen ELSE agents[b]]
        \/ agents' = [b \in SchedAgent |-> IF b = a THEN busy ELSE agents[b]]
    BY <1>a, <2>2 DEF Registration
  <2> HIDE DEF frozen, busy
  <2> QED
    BY <2>2, <2>3, <2>4, RegistrationStep
<1>5. CASE UNCHANGED schedulerVars
  BY <1>5 DEF schedulerVars, PayloadsInOrder, SchedulerTypeOK
<1> QED
  BY <1>1, <1>2, <1>3, <1>4, <1>5 DEF SchedulerNext

\* Every payload that was accepted for an agent is yielded once and in order, over any
\* number of registrations, grants and streams, and a BUSY agent has a quantum within
\* the limits of its priority (AutonomousAgentSchedulerService).
THEOREM PayloadsAreInOrder == SchedulerSpec => []PayloadsInOrder
BY SchedulerInitially, SchedulerKept, PTL DEF SchedulerSpec

-----------------------------------------------------------------------------
(* Telemetry: the blocks an agent is in are its own open spans, each made after  *)
(* the one around it, which is its parent if it has one; so what the collector   *)
(* received is over, and the block around it was not when it was sent.           *)

Span == [agent: TracedAgent, trace_id: 1..MaxSpans, parent: 0..MaxSpans, status: {"OK", "ERROR"}]

SpanTypes ==
  /\ spans \in Seq(Span) /\ Len(spans) <= MaxSpans
  /\ collector \in Seq(1..Len(spans))
  /\ blocks \in [TracedAgent -> Seq(1..Len(spans))]
  /\ left \in Seq(Leaving) /\ Len(left) = Len(spans)

BlocksNest == \A a \in TracedAgent : \A n \in 1..Len(blocks[a]) :
  /\ left[blocks[a][n]] = "open"
  /\ spans[blocks[a][n]].agent = a
  /\ \A m \in 1..n - 1 : blocks[a][m] < blocks[a][n]
  /\ \/ spans[blocks[a][n]].parent = 0
     \/ n > 1 /\ spans[blocks[a][n]].parent = blocks[a][n - 1]

ParentsAround == \A s \in 1..Len(spans) : spans[s].parent # 0 =>
  /\ spans[s].parent \in 1..Len(spans)
  /\ spans[spans[s].parent].trace_id = spans[s].trace_id
  /\ spans[spans[s].parent].agent = spans[s].agent

SentAreOver == \A i \in 1..Len(collector) :
  left[collector[i]] = IF spans[collector[i]].status = "OK" THEN "returned" ELSE "exception"

SentInOrder == \A i, j \in 1..Len(collector) :
  /\ i # j => collector[i] # collector[j]
  /\ i < j => spans[collector[j]].parent # collector[i]

SpanInv == SpanTypes /\ BlocksNest /\ ParentsAround /\ SentAreOver /\ SentInOrder

LEMMA SpanTypesSame == TelemetryTypeOK <=> SpanTypes
<1>1. spans \in Seq(Span) => DOMAIN spans = 1..Len(spans)
  OBVIOUS
<1>2. ASSUME spans \in Seq(Span)
      PROVE  left \in [1..Len(spans) -> Leaving] <=> left \in Seq(Leaving) /\ Len(left) = Len(spans)
  BY <1>2
<1> QED
  BY <1>1, <1>2 DEF TelemetryTypeOK, SpanTypes, Span

\* What the types say of each element.
LEMMA SpanElements ==
  ASSUME SpanTypes
  PROVE  /\ Len(spans) \in Nat /\ Len(collector) \in Nat
         /\ \A s \in 1..Len(spans) : spans[s] \in Span /\ left[s] \in Leaving
         /\ \A i \in 1..Len(collector) : collector[i] \in 1..Len(spans)
         /\ \A a \in TracedAgent : /\ blocks[a] \in Seq(1..Len(spans)) /\ Len(blocks[a]) \in Nat
                                   /\ \A n \in 1..Len(blocks[a]) : blocks[a][n] \in 1..Len(spans)
<1>1. Len(spans) \in Nat /\ \A s \in 1..Len(spans) : spans[s] \in Span
  BY DEF SpanTypes
<1>2. Len(collector) \in Nat /\ \A i \in 1..Len(collector) : collector[i] \in 1..Len(spans)
  BY DEF SpanTypes
<1>3. ASSUME NEW s \in 1..Len(spans) PROVE left[s] \in Leaving
  BY DEF SpanTypes
<1>4. ASSUME NEW a \in TracedAgent
      PROVE  /\ blocks[a] \in Seq(1..Len(spans)) /\ Len(blocks[a]) \in Nat
             /\ \A n \in 1..Len(blocks[a]) : blocks[a][n] \in 1..Len(spans)
  <2>1. blocks[a] \in Seq(1..Len(spans))
    BY DEF SpanTypes
  <2> QED
    BY <2>1
<1> QED
  BY <1>1, <1>2, <1>3, <1>4

LEMMA SpansInitially == TelemetryInit => SpanInv
<1> SUFFICES ASSUME TelemetryInit PROVE SpanInv
  OBVIOUS
<1>1. spans = <<>> /\ collector = <<>> /\ left = <<>> /\ \A a \in TracedAgent : blocks[a] = <<>>
  BY DEF TelemetryInit
<1>2. Len(spans) = 0 /\ Len(collector) = 0 /\ \A a \in TracedAgent : Len(blocks[a]) = 0
  BY <1>1
<1>3. SpanTypes
  <2>1. \A S : <<>> \in Seq(S)
    OBVIOUS
  <2>2. blocks \in [TracedAgent -> Seq(1..Len(spans))]
    BY <2>1 DEF TelemetryInit
  <2> QED
    BY <1>1, <1>2, <2>1, <2>2, TelemetryAssumption DEF SpanTypes
<1> QED
  BY <1>2, <1>3 DEF SpanInv, BlocksNest, ParentsAround, SentAreOver, SentInOrder

\* A span is made, and its block is the innermost of its agent: the one around it is
\* its parent, of the same trace, unless it has none.
LEMMA OpensKept ==
  ASSUME SpanInv, NEW a \in TracedAgent, NEW trace_id \in 1..MaxSpans, NEW parent \in 0..MaxSpans,
         Opens(a, trace_id, parent),
         \/ parent = 0
         \/ /\ Len(blocks[a]) > 0 /\ parent = blocks[a][Len(blocks[a])]
            /\ trace_id = spans[parent].trace_id
  PROVE  SpanInv'
<1> DEFINE n == Len(spans)
           span == [agent |-> a, trace_id |-> trace_id, parent |-> parent, status |-> "OK"]
           depth == Len(blocks[a])
<1>1. /\ n < MaxSpans /\ spans' = Append(spans, span) /\ left' = Append(left, "open")
      /\ blocks' = [blocks EXCEPT ![a] = Append(blocks[a], n + 1)] /\ collector' = collector
  BY DEF Opens
<1>2. SpanTypes
  BY DEF SpanInv
<1>3. /\ span \in Span /\ span.agent = a /\ span.trace_id = trace_id /\ span.parent = parent
  BY DEF Span
<1>4. /\ n \in Nat /\ depth \in Nat /\ Len(collector) \in Nat
      /\ \A i \in 1..Len(collector) : collector[i] \in 1..n
  BY <1>2, SpanElements
<1>s. \A b \in TracedAgent : blocks[b] \in Seq(1..n)
  BY <1>2, SpanElements
<1>b. \A b \in TracedAgent : /\ Len(blocks[b]) \in Nat
                             /\ \A k \in 1..Len(blocks[b]) : blocks[b][k] \in 1..n
  BY <1>2, SpanElements
<1>5. spans \in Seq(Span) /\ left \in Seq(Leaving) /\ Len(left) = n
  BY <1>2 DEF SpanTypes
<1>6. /\ spans' \in Seq(Span) /\ Len(spans') = n + 1 /\ spans'[n + 1] = span
      /\ \A s \in 1..n : spans'[s] = spans[s]
  <2> HIDE DEF span
  <2> QED
    BY <1>1, <1>3, <1>5
<1>7. /\ left' \in Seq(Leaving) /\ Len(left') = n + 1 /\ left'[n + 1] = "open"
      /\ \A s \in 1..n : left'[s] = left[s]
  BY <1>1, <1>5 DEF Leaving
<1>8. /\ Len(blocks'[a]) = depth + 1 /\ blocks'[a][depth + 1] = n + 1
      /\ \A k \in 1..depth : blocks'[a][k] = blocks[a][k]
  <2>1. blocks'[a] = Append(blocks[a], n + 1)
    BY <1>1, <1>2 DEF SpanTypes
  <2>2. blocks[a] \in Seq(1..n)
    BY <1>s
  <2> QED
    BY <2>1, <2>2, <1>4
<1>9. \A b \in TracedAgent \ {a} : blocks'[b] = blocks[b]
  BY <1>1, <1>2 DEF SpanTypes
<1> HIDE DEF n, span, depth
<1>10. SpanTypes'
  <2> DEFINE before == 1..n
             after == 1..(n + 1)
  <2>1. before \subseteq after /\ n + 1 \in after
    BY <1>4
  <2>2. collector \in Seq(before) /\ blocks \in [TracedAgent -> Seq(before)]
    BY <1>2 DEF SpanTypes, n
  <2> HIDE DEF before, after
  <2>3. \A s \in Seq(before) : s \in Seq(after)
    BY <2>1, SeqMonotonic
  <2>4. Append(blocks[a], n + 1) \in Seq(after)
    <3>1. blocks[a] \in Seq(after)
      BY <2>2, <2>3
    <3> QED
      BY <2>1, <3>1
  <2>5. collector' \in Seq(after) /\ blocks' \in [TracedAgent -> Seq(after)]
    BY <1>1, <2>2, <2>3, <2>4
  <2>6. n + 1 <= MaxSpans
    BY <1>1, <1>4, TelemetryAssumption
  <2> QED
    BY <1>6, <1>7, <2>5, <2>6 DEF SpanTypes, after
<1>11. BlocksNest'
  <2> SUFFICES ASSUME NEW b \in TracedAgent, NEW k \in 1..Len(blocks'[b])
               PROVE  /\ left'[blocks'[b][k]] = "open"
                      /\ spans'[blocks'[b][k]].agent = b
                      /\ \A m \in 1..k - 1 : blocks'[b][m] < blocks'[b][k]
                      /\ \/ spans'[blocks'[b][k]].parent = 0
                         \/ k > 1 /\ spans'[blocks'[b][k]].parent = blocks'[b][k - 1]
    BY DEF BlocksNest
  <2>0. depth = Len(blocks[a]) /\ k \in Nat /\ k >= 1 /\ Len(blocks[b]) \in Nat
    BY <1>8, <1>9, <1>4, <1>b DEF depth
  <2>1. CASE b = a /\ k = depth + 1
    <3>1. blocks'[b][k] = n + 1
      BY <1>8, <2>1
    <3>2. \A m \in 1..k - 1 : blocks'[b][m] = blocks[a][m] /\ blocks[a][m] \in 1..n
      BY <1>4, <1>8, <1>b, <2>0, <2>1
    <3>3. \A m \in 1..k - 1 : blocks'[b][m] < n + 1
      BY <3>2, <1>4
    <3>4. parent = 0 \/ (k > 1 /\ parent = blocks'[b][k - 1])
      <4>1. CASE parent # 0
        <5>1. depth > 0 /\ parent = blocks[a][depth]
          BY <2>0, <4>1
        <5>2. depth \in 1..depth /\ k - 1 = depth /\ k > 1
          BY <1>4, <2>1, <5>1
        <5> QED
          BY <1>8, <2>1, <5>1, <5>2
      <4> QED
        BY <4>1
    <3>5. left'[n + 1] = "open" /\ spans'[n + 1].agent = a /\ spans'[n + 1].parent = parent
      BY <1>3, <1>6, <1>7
    <3>6. left'[blocks'[b][k]] = "open" /\ spans'[blocks'[b][k]].agent = b
      BY <2>1, <3>1, <3>5
    <3>7. spans'[blocks'[b][k]].parent = parent
      BY <3>1, <3>5
    <3>8. \A m \in 1..k - 1 : blocks'[b][m] < blocks'[b][k]
      BY <3>1, <3>3
    <3> QED
      BY <3>4, <3>6, <3>7, <3>8
  <2>2. CASE ~ (b = a /\ k = depth + 1)
    <3>1. k \in 1..Len(blocks[b]) /\ \A m \in 1..k : blocks'[b][m] = blocks[b][m]
      <4>1. CASE b = a
        <5>1. k \in 1..(depth + 1) /\ k # depth + 1
          BY <1>8, <2>2, <4>1
        <5>2. k \in 1..depth
          BY <1>4, <5>1
        <5> QED
          BY <1>4, <1>8, <2>0, <4>1, <5>2
      <4>2. CASE b # a
        BY <1>9, <4>2
      <4> QED
        BY <4>1, <4>2
    <3>2. /\ left[blocks[b][k]] = "open"
          /\ spans[blocks[b][k]].agent = b
          /\ \A m \in 1..k - 1 : blocks[b][m] < blocks[b][k]
          /\ \/ spans[blocks[b][k]].parent = 0
             \/ k > 1 /\ spans[blocks[b][k]].parent = blocks[b][k - 1]
      BY <3>1 DEF SpanInv, BlocksNest
    <3>3. blocks[b][k] \in 1..n /\ blocks'[b][k] = blocks[b][k]
      BY <1>b, <2>0, <3>1
    <3>4. spans'[blocks[b][k]] = spans[blocks[b][k]] /\ left'[blocks[b][k]] = left[blocks[b][k]]
      BY <1>6, <1>7, <3>3
    <3>5. k > 1 => blocks'[b][k - 1] = blocks[b][k - 1]
      BY <2>0, <3>1
    <3>6. \A m \in 1..k - 1 : blocks'[b][m] = blocks[b][m]
      BY <2>0, <3>1
    <3> QED
      BY <3>2, <3>3, <3>4, <3>5, <3>6
  <2> QED
    BY <2>1, <2>2
<1>12. ParentsAround'
  <2> SUFFICES ASSUME NEW s \in 1..(n + 1), spans'[s].parent # 0
               PROVE  /\ spans'[s].parent \in 1..(n + 1)
                      /\ spans'[spans'[s].parent].trace_id = spans'[s].trace_id
                      /\ spans'[spans'[s].parent].agent = spans'[s].agent
    BY <1>6 DEF ParentsAround
  <2>1. CASE s = n + 1
    <3>1. /\ parent # 0 /\ parent = blocks[a][depth] /\ trace_id = spans[parent].trace_id
          /\ depth \in 1..Len(blocks[a])
      BY <1>3, <1>4, <1>6, <2>1 DEF depth
    <3>2. parent \in 1..n /\ spans[parent].agent = a
      BY <1>b, <3>1 DEF SpanInv, BlocksNest
    <3> QED
      BY <1>3, <1>4, <1>6, <2>1, <3>1, <3>2
  <2>2. CASE s # n + 1
    <3>1. s \in 1..n /\ spans'[s] = spans[s]
      BY <1>4, <1>6, <2>2
    <3>2. /\ spans[s].parent \in 1..n
          /\ spans[spans[s].parent].trace_id = spans[s].trace_id
          /\ spans[spans[s].parent].agent = spans[s].agent
      BY <3>1 DEF SpanInv, ParentsAround, n
    <3>3. spans'[spans[s].parent] = spans[spans[s].parent]
      BY <1>6, <3>2
    <3> QED
      BY <1>4, <3>1, <3>2, <3>3
  <2> QED
    BY <2>1, <2>2
<1>13. \A i \in 1..Len(collector) : /\ spans'[collector[i]] = spans[collector[i]]
                                    /\ left'[collector[i]] = left[collector[i]]
  BY <1>4, <1>6, <1>7
<1>14. SentAreOver'
  <2> SUFFICES ASSUME NEW i \in 1..Len(collector)
               PROVE  left'[collector[i]] = IF spans'[collector[i]].status = "OK"
                                            THEN "returned" ELSE "exception"
    BY <1>1 DEF SentAreOver
  <2>1. left[collector[i]] = IF spans[collector[i]].status = "OK" THEN "returned" ELSE "exception"
    BY DEF SpanInv, SentAreOver
  <2> QED
    BY <1>13, <2>1
<1>15. SentInOrder'
  <2> SUFFICES ASSUME NEW i \in 1..Len(collector), NEW j \in 1..Len(collector)
               PROVE  /\ i # j => collector[i] # collector[j]
                      /\ i < j => spans'[collector[j]].parent # collector[i]
    BY <1>1 DEF SentInOrder
  <2>1. /\ i # j => collector[i] # collector[j]
        /\ i < j => spans[collector[j]].parent # collector[i]
    BY DEF SpanInv, SentInOrder
  <2> QED
    BY <1>13, <2>1
<1> QED
  BY <1>10, <1>11, <1>12, <1>14, <1>15 DEF SpanInv

LEMMA FrontOfBlocks ==
  ASSUME NEW S, NEW s \in Seq(S), Len(s) > 0
  PROVE  /\ SubSeq(s, 1, Len(s) - 1) \in Seq(S) /\ Len(SubSeq(s, 1, Len(s) - 1)) = Len(s) - 1
         /\ \A k \in 1..Len(s) - 1 : SubSeq(s, 1, Len(s) - 1)[k] = s[k]
<1> DEFINE front == SubSeq(s, 1, Len(s) - 1)
<1>1. Len(s) \in Nat /\ \A k \in 1..Len(s) - 1 : s[k] \in S
  OBVIOUS
<1>2. /\ front \in Seq(S) /\ Len(front) = IF 1 <= Len(s) - 1 THEN Len(s) - 1 - 1 + 1 ELSE 0
      /\ \A k \in 1..Len(s) - 1 - 1 + 1 : front[k] = s[1 + k - 1]
  BY <1>1, SubSeqProperties
<1>3. Len(s) - 1 - 1 + 1 = Len(s) - 1 /\ \A k \in 1..Len(s) - 1 : 1 + k - 1 = k
  BY <1>1
<1> HIDE DEF front
<1>4. Len(front) = Len(s) - 1
  <2>1. CASE 1 <= Len(s) - 1
    BY <1>1, <1>2, <2>1
  <2>2. CASE ~(1 <= Len(s) - 1)
    <3>1. Len(s) = 1
      <4>1. \A l \in Nat : l > 0 /\ ~(1 <= l - 1) => l = 1
        OBVIOUS
      <4>2. Len(s) \in Nat /\ Len(s) > 0
        OBVIOUS
      <4> QED
        BY <2>2, <4>1, <4>2
    <3>2. Len(front) = 0
      BY <1>2, <2>2
    <3> QED
      BY <3>1, <3>2
  <2> QED
    BY <2>1, <2>2
<1>5. \A k \in 1..Len(s) - 1 : front[k] = s[k]
  BY <1>2, <1>3
<1> QED
  BY <1>2, <1>4, <1>5 DEF front

LEMMA LeftChanged ==
  ASSUME NEW over \in 1..Len(left), NEW how \in Leaving, left \in Seq(Leaving),
         left' = [left EXCEPT ![over] = how]
  PROVE  /\ left' \in Seq(Leaving) /\ Len(left') = Len(left) /\ left'[over] = how
         /\ \A s \in 1..Len(left) : s # over => left'[s] = left[s]
OBVIOUS

\* The innermost block of an agent is left, and its span finished.
LEMMA FinishKept ==
  ASSUME SpanInv, NEW a \in TracedAgent, Len(blocks[a]) > 0,
         NEW status \in {"OK", "ERROR"}, NEW how \in {"returned", "exception"},
         how = "returned" <=> status = "OK",
         finish(blocks[a][Len(blocks[a])], status),
         left' = [left EXCEPT ![blocks[a][Len(blocks[a])]] = how],
         blocks' = [blocks EXCEPT ![a] = SubSeq(blocks[a], 1, Len(blocks[a]) - 1)]
  PROVE  SpanInv'
<1> DEFINE n == Len(spans)
           depth == Len(blocks[a])
           over == blocks[a][depth]
<1>1. SpanTypes
  BY DEF SpanInv
<1>2. /\ n \in Nat /\ depth \in Nat /\ depth > 0 /\ over \in 1..n /\ Len(collector) \in Nat
      /\ \A i \in 1..Len(collector) : collector[i] \in 1..n
  BY <1>1, SpanElements
<1>s. \A b \in TracedAgent : blocks[b] \in Seq(1..n)
  BY <1>1, SpanElements
<1>b. \A b \in TracedAgent : /\ Len(blocks[b]) \in Nat
                             /\ \A k \in 1..Len(blocks[b]) : blocks[b][k] \in 1..n
  BY <1>1, SpanElements
<1>3. /\ spans' = [spans EXCEPT ![over].status = status]
      /\ collector' = collector \/ collector' = Append(collector, over)
  BY DEF finish
<1>4. /\ left[over] = "open" /\ spans[over].agent = a
      /\ \A m \in 1..depth - 1 : blocks[a][m] < over
      /\ \/ spans[over].parent = 0
         \/ depth > 1 /\ spans[over].parent = blocks[a][depth - 1]
  <2>1. depth \in 1..Len(blocks[a]) /\ BlocksNest
    BY <1>2 DEF SpanInv
  <2> HIDE DEF depth
  <2> QED
    BY <2>1 DEF BlocksNest
<1>5. spans \in Seq(Span) /\ left \in Seq(Leaving) /\ Len(left) = n
  BY <1>1 DEF SpanTypes
<1>6. /\ blocks' = [blocks EXCEPT ![a] = SubSeq(blocks[a], 1, depth - 1)]
      /\ left' = [left EXCEPT ![over] = how]
  OBVIOUS
<1> HIDE DEF over
<1>7. /\ left' \in Seq(Leaving) /\ Len(left') = n /\ left'[over] = how
      /\ \A s \in 1..n : s # over => left'[s] = left[s]
  <2>1. how \in Leaving /\ over \in 1..Len(left)
    BY <1>2, <1>5 DEF Leaving
  <2>2. left \in Seq(Leaving) /\ left' = [left EXCEPT ![over] = how]
    BY <1>5, <1>6
  <2>3. /\ left' \in Seq(Leaving) /\ Len(left') = Len(left) /\ left'[over] = how
        /\ \A s \in 1..Len(left) : s # over => left'[s] = left[s]
    BY <2>1, <2>2, LeftChanged
  <2> QED
    BY <1>5, <2>3
<1>8. /\ spans' \in Seq(Span) /\ Len(spans') = n
      /\ \A s \in 1..n : spans'[s] = IF s = over THEN [spans[s] EXCEPT !.status = status] ELSE spans[s]
  <2>1. [spans[over] EXCEPT !.status = status] \in Span
    <3>1. spans[over] \in Span
      BY <1>2, <1>5
    <3> QED
      BY <3>1 DEF Span
  <2>3. over \in 1..Len(spans)
    BY <1>2
  <2> DEFINE e == [spans[over] EXCEPT !.status = status]
  <2>2. e \in Span /\ spans' = [spans EXCEPT ![over] = e]
    BY <1>3, <2>1
  <2> HIDE DEF e
  <2>4. /\ spans' \in Seq(Span) /\ Len(spans') = Len(spans)
        /\ \A s \in 1..Len(spans) : spans'[s] = IF s = over THEN e ELSE spans[s]
    BY <1>5, <2>2, <2>3, ExceptSeq
  <2> QED
    BY <2>4 DEF e
<1>9. \A s \in 1..n : /\ spans'[s].agent = spans[s].agent /\ spans'[s].parent = spans[s].parent
                      /\ spans'[s].trace_id = spans[s].trace_id
                      /\ spans'[s].status = IF s = over THEN status ELSE spans[s].status
  <2> SUFFICES ASSUME NEW s \in 1..n
               PROVE  /\ spans'[s].agent = spans[s].agent /\ spans'[s].parent = spans[s].parent
                      /\ spans'[s].trace_id = spans[s].trace_id
                      /\ spans'[s].status = IF s = over THEN status ELSE spans[s].status
    OBVIOUS
  <2>1. spans[s] \in Span
    BY <1>5
  <2> QED
    BY <1>8, <2>1 DEF Span
<1>10. /\ blocks'[a] \in Seq(1..n) /\ Len(blocks'[a]) = depth - 1
       /\ \A k \in 1..depth - 1 : blocks'[a][k] = blocks[a][k]
  <2>1. blocks'[a] = SubSeq(blocks[a], 1, depth - 1)
    BY <1>1, <1>6 DEF SpanTypes
  <2>2. blocks[a] \in Seq(1..n)
    BY <1>s
  <2> QED
    BY <1>2, <2>1, <2>2, FrontOfBlocks
<1>11. \A b \in TracedAgent \ {a} : blocks'[b] = blocks[b]
  BY <1>1, <1>6 DEF SpanTypes
<1>12. /\ \A i \in 1..Len(collector) : collector[i] # over
  <2> SUFFICES ASSUME NEW i \in 1..Len(collector) PROVE collector[i] # over
    OBVIOUS
  <2>1. left[collector[i]] = IF spans[collector[i]].status = "OK" THEN "returned" ELSE "exception"
    BY DEF SpanInv, SentAreOver
  <2> QED
    BY <1>4, <2>1
<1> HIDE DEF n, depth
<1>13. SpanTypes'
  <2> DEFINE all == 1..n
  <2>1. collector \in Seq(all) /\ blocks \in [TracedAgent -> Seq(all)] /\ over \in all /\ n <= MaxSpans
    BY <1>1, <1>2 DEF SpanTypes, n
  <2>2. SubSeq(blocks[a], 1, depth - 1) \in Seq(all)
    BY <1>1, <1>6, <1>10 DEF SpanTypes
  <2> HIDE DEF all
  <2>3. collector' \in Seq(all)
    <3>1. Append(collector, over) \in Seq(all) /\ collector \in Seq(all)
      BY <2>1
    <3>2. collector' = collector \/ collector' = Append(collector, over)
      BY <1>3
    <3> QED
      BY <3>1, <3>2
  <2>4. blocks' \in [TracedAgent -> Seq(all)]
    BY <1>6, <2>1, <2>2
  <2> QED
    BY <1>7, <1>8, <2>1, <2>3, <2>4 DEF SpanTypes, all
<1>14. BlocksNest'
  <2> SUFFICES ASSUME NEW b \in TracedAgent, NEW k \in 1..Len(blocks'[b])
               PROVE  /\ left'[blocks'[b][k]] = "open"
                      /\ spans'[blocks'[b][k]].agent = b
                      /\ \A m \in 1..k - 1 : blocks'[b][m] < blocks'[b][k]
                      /\ \/ spans'[blocks'[b][k]].parent = 0
                         \/ k > 1 /\ spans'[blocks'[b][k]].parent = blocks'[b][k - 1]
    BY DEF BlocksNest
  <2>1. k \in 1..Len(blocks[b]) /\ \A m \in 1..k : blocks'[b][m] = blocks[b][m]
    <3>1. CASE b = a
      <4>1. k \in 1..depth - 1
        BY <1>10, <3>1
      <4>2. k \in 1..depth /\ \A m \in 1..k : m \in 1..depth - 1
        BY <1>2, <4>1
      <4> QED
        BY <1>10, <3>1, <4>2 DEF depth
    <3>2. CASE b # a
      BY <1>11, <3>2
    <3> QED
      BY <3>1, <3>2
  <2>2. /\ left[blocks[b][k]] = "open"
        /\ spans[blocks[b][k]].agent = b
        /\ \A m \in 1..k - 1 : blocks[b][m] < blocks[b][k]
        /\ \/ spans[blocks[b][k]].parent = 0
           \/ k > 1 /\ spans[blocks[b][k]].parent = blocks[b][k - 1]
    BY <2>1 DEF SpanInv, BlocksNest
  <2>3. blocks[b][k] \in 1..n /\ k \in Nat /\ k >= 1
    BY <1>b, <2>1
  <2>4. blocks[b][k] # over
    <3>1. CASE b = a
      <4>1. k \in 1..depth - 1
        BY <1>10, <3>1
      <4>2. blocks[b][k] < over
        BY <1>4, <3>1, <4>1
      <4> QED
        BY <2>3, <4>2
    <3>2. CASE b # a
      BY <1>4, <2>2, <3>2
    <3> QED
      BY <3>1, <3>2
  <2>5. /\ left'[blocks[b][k]] = left[blocks[b][k]]
        /\ spans'[blocks[b][k]] = spans[blocks[b][k]]
    BY <1>7, <1>8, <2>3, <2>4
  <2>6. blocks'[b][k] = blocks[b][k]
    BY <2>1, <2>3
  <2>7. k > 1 => blocks'[b][k - 1] = blocks[b][k - 1]
    BY <2>1, <2>3
  <2>8. \A m \in 1..k - 1 : blocks'[b][m] = blocks[b][m]
    BY <2>1, <2>3
  <2> QED
    BY <2>2, <2>5, <2>6, <2>7, <2>8
<1>15. ParentsAround'
  <2> SUFFICES ASSUME NEW s \in 1..n, spans'[s].parent # 0
               PROVE  /\ spans'[s].parent \in 1..n
                      /\ spans'[spans'[s].parent].trace_id = spans'[s].trace_id
                      /\ spans'[spans'[s].parent].agent = spans'[s].agent
    BY <1>8 DEF ParentsAround
  <2>1. spans'[s].parent = spans[s].parent
    BY <1>9
  <2>2. /\ spans[s].parent \in 1..n
        /\ spans[spans[s].parent].trace_id = spans[s].trace_id
        /\ spans[spans[s].parent].agent = spans[s].agent
    BY <2>1 DEF SpanInv, ParentsAround, n
  <2> QED
    BY <1>9, <2>1, <2>2
<1> DEFINE sent == Len(collector)
<1>16. /\ Len(collector') = sent \/ (Len(collector') = sent + 1 /\ collector'[sent + 1] = over)
       /\ \A i \in 1..sent : collector'[i] = collector[i]
  <2>1. collector \in Seq(1..n)
    BY <1>1 DEF SpanTypes, n
  <2> QED
    BY <1>2, <1>3, <2>1
<1>17. sent \in Nat
  BY <1>2
<1> HIDE DEF sent
<1>18. \A i \in 1..Len(collector') : (i \in 1..sent /\ collector'[i] = collector[i])
                                     \/ (i = sent + 1 /\ collector'[i] = over)
  BY <1>16, <1>17
<1>19. SentAreOver'
  <2> SUFFICES ASSUME NEW i \in 1..Len(collector')
               PROVE  left'[collector'[i]] = IF spans'[collector'[i]].status = "OK"
                                             THEN "returned" ELSE "exception"
    BY DEF SentAreOver
  <2>1. CASE i \in 1..sent /\ collector'[i] = collector[i]
    <3>1. left[collector[i]] = IF spans[collector[i]].status = "OK" THEN "returned" ELSE "exception"
      BY <2>1 DEF SpanInv, SentAreOver, sent
    <3>2. collector[i] \in 1..n /\ collector[i] # over
      BY <1>2, <1>12, <2>1 DEF sent
    <3> QED
      BY <1>7, <1>8, <2>1, <3>1, <3>2
  <2>2. CASE collector'[i] = over
    <3>1. left'[over] = how /\ spans'[over].status = status
      BY <1>2, <1>7, <1>9
    <3> QED
      BY <2>2, <3>1
  <2> QED
    BY <1>18, <2>1, <2>2
<1>20. \A i \in 1..sent : collector[i] # over /\ collector[i] # spans[over].parent
  <2> SUFFICES ASSUME NEW i \in 1..sent PROVE collector[i] # spans[over].parent
    BY <1>12 DEF sent
  <2>1. left[collector[i]] # "open" /\ collector[i] \in 1..n
    BY <1>2 DEF SpanInv, SentAreOver, sent
  <2>2. CASE spans[over].parent = 0
    BY <2>1, <2>2
  <2>3. CASE depth > 1 /\ spans[over].parent = blocks[a][depth - 1]
    <3>1. depth - 1 \in 1..Len(blocks[a])
      BY <1>2, <2>3 DEF depth
    <3>2. left[blocks[a][depth - 1]] = "open"
      BY <3>1 DEF SpanInv, BlocksNest
    <3> QED
      BY <2>1, <2>3, <3>2
  <2> QED
    BY <1>4, <2>2, <2>3
<1>21. SentInOrder'
  <2> SUFFICES ASSUME NEW i \in 1..Len(collector'), NEW j \in 1..Len(collector')
               PROVE  /\ i # j => collector'[i] # collector'[j]
                      /\ i < j => spans'[collector'[j]].parent # collector'[i]
    BY DEF SentInOrder
  <2>1. CASE i \in 1..sent /\ collector'[i] = collector[i] /\ j \in 1..sent /\ collector'[j] = collector[j]
    <3>1. /\ i # j => collector[i] # collector[j]
          /\ i < j => spans[collector[j]].parent # collector[i]
      BY <2>1 DEF SpanInv, SentInOrder, sent
    <3>2. spans'[collector[j]].parent = spans[collector[j]].parent
      BY <1>2, <1>9, <2>1 DEF sent
    <3> QED
      BY <2>1, <3>1, <3>2
  <2>2. CASE i \in 1..sent /\ collector'[i] = collector[i] /\ j = sent + 1 /\ collector'[j] = over
    <3>1. spans'[over].parent = spans[over].parent
      BY <1>2, <1>9
    <3> QED
      BY <1>20, <2>2, <3>1
  <2>3. CASE i = sent + 1 /\ collector'[i] = over /\ j \in 1..sent /\ collector'[j] = collector[j]
    <3>1. ~ i < j
      BY <1>17, <2>3
    <3> QED
      BY <1>20, <2>3, <3>1
  <2>4. CASE i = sent + 1 /\ j = sent + 1
    BY <1>17, <2>4
  <2> QED
    BY <1>18, <2>1, <2>2, <2>3, <2>4
<1> QED
  BY <1>13, <1>14, <1>15, <1>19, <1>21 DEF SpanInv

\* All blocks of an agent are left by what is no exception.
LEMMA CancelledKept ==
  ASSUME SpanInv, NEW a \in TracedAgent, BlocksCancelled(a)
  PROVE  SpanInv'
<1> DEFINE n == Len(spans)
           lost == ToSet(blocks[a])
<1>1. SpanTypes
  BY DEF SpanInv
<1>2. /\ n \in Nat /\ Len(collector) \in Nat
      /\ \A i \in 1..Len(collector) : collector[i] \in 1..n
  BY <1>1, SpanElements
<1>b. \A b \in TracedAgent : /\ Len(blocks[b]) \in Nat
                             /\ \A k \in 1..Len(blocks[b]) : blocks[b][k] \in 1..n
  BY <1>1, SpanElements
<1>3. /\ left' = [s \in DOMAIN left |-> IF s \in lost THEN "cancelled" ELSE left[s]]
      /\ blocks' = [blocks EXCEPT ![a] = <<>>] /\ spans' = spans /\ collector' = collector
  BY DEF BlocksCancelled
<1>4. \A s \in lost : s \in 1..n /\ left[s] = "open" /\ spans[s].agent = a
  <2> SUFFICES ASSUME NEW k \in DOMAIN blocks[a]
               PROVE  /\ blocks[a][k] \in 1..n /\ left[blocks[a][k]] = "open"
                      /\ spans[blocks[a][k]].agent = a
    BY DEF ToSet
  <2>1. k \in 1..Len(blocks[a])
    <3>1. blocks[a] \in Seq(1..n)
      BY <1>1, SpanElements
    <3> QED
      BY <3>1
  <2> QED
    BY <1>b, <2>1 DEF SpanInv, BlocksNest
<1> HIDE DEF lost
<1>5. DOMAIN left = 1..n /\ \A s \in 1..n : left[s] \in Leaving
  BY <1>1 DEF SpanTypes
<1>6. /\ left' \in Seq(Leaving) /\ Len(left') = n
      /\ \A s \in 1..n : s \notin lost => left'[s] = left[s]
  <2>1. left' \in [1..n -> Leaving]
    BY <1>3, <1>5 DEF Leaving
  <2>2. \A s \in 1..n : s \notin lost => left'[s] = left[s]
    BY <1>3, <1>5
  <2> QED
    BY <1>2, <2>1, <2>2
<1>7. Len(blocks'[a]) = 0 /\ \A b \in TracedAgent \ {a} : blocks'[b] = blocks[b]
  BY <1>1, <1>3 DEF SpanTypes
<1>8. SpanTypes'
  <2> DEFINE all == 1..n
  <2>1. collector \in Seq(all) /\ blocks \in [TracedAgent -> Seq(all)]
    BY <1>1 DEF SpanTypes
  <2>2. spans' \in Seq(Span) /\ Len(spans') <= MaxSpans
    BY <1>1, <1>3 DEF SpanTypes
  <2> HIDE DEF all
  <2>3. <<>> \in Seq(all)
    OBVIOUS
  <2>4. collector' \in Seq(all) /\ blocks' \in [TracedAgent -> Seq(all)]
    BY <1>3, <2>1, <2>3
  <2> QED
    BY <1>3, <1>6, <2>2, <2>4 DEF SpanTypes, all
<1>9. BlocksNest'
  <2> SUFFICES ASSUME NEW b \in TracedAgent, NEW k \in 1..Len(blocks'[b])
               PROVE  /\ left'[blocks'[b][k]] = "open"
                      /\ spans[blocks'[b][k]].agent = b
                      /\ \A m \in 1..k - 1 : blocks'[b][m] < blocks'[b][k]
                      /\ \/ spans[blocks'[b][k]].parent = 0
                         \/ k > 1 /\ spans[blocks'[b][k]].parent = blocks'[b][k - 1]
    BY <1>3 DEF BlocksNest
  <2>1. b # a /\ blocks'[b] = blocks[b]
    BY <1>7
  <2>2. /\ left[blocks[b][k]] = "open"
        /\ spans[blocks[b][k]].agent = b
        /\ \A m \in 1..k - 1 : blocks[b][m] < blocks[b][k]
        /\ \/ spans[blocks[b][k]].parent = 0
           \/ k > 1 /\ spans[blocks[b][k]].parent = blocks[b][k - 1]
    BY <2>1 DEF SpanInv, BlocksNest
  <2>3. blocks[b][k] \in 1..n /\ blocks[b][k] \notin lost
    BY <1>4, <1>b, <2>1, <2>2
  <2>4. left'[blocks[b][k]] = left[blocks[b][k]]
    BY <1>6, <2>3
  <2> QED
    BY <2>1, <2>2, <2>4
<1>10. ParentsAround' /\ SentInOrder'
  BY <1>3 DEF SpanInv, ParentsAround, SentInOrder
<1>11. SentAreOver'
  <2> SUFFICES ASSUME NEW i \in 1..Len(collector)
               PROVE  left'[collector[i]] = IF spans[collector[i]].status = "OK"
                                            THEN "returned" ELSE "exception"
    BY <1>3 DEF SentAreOver
  <2>1. left[collector[i]] = IF spans[collector[i]].status = "OK" THEN "returned" ELSE "exception"
    BY DEF SpanInv, SentAreOver
  <2>2. left[collector[i]] # "open"
    BY <2>1
  <2>3. collector[i] \in 1..n /\ collector[i] \notin lost
    BY <1>2, <1>4, <2>2
  <2> QED
    BY <1>6, <2>1, <2>3
<1> QED
  BY <1>8, <1>9, <1>10, <1>11 DEF SpanInv

LEMMA SpansKept == SpanInv /\ [TelemetryNext]_telemetryVars => SpanInv'
<1> SUFFICES ASSUME SpanInv, [TelemetryNext]_telemetryVars PROVE SpanInv'
  OBVIOUS
<1>0. SpanTypes
  BY DEF SpanInv
<1>1. Len(spans) \in Nat /\ \A s \in 1..Len(spans) : spans[s].trace_id \in 1..MaxSpans
  <2>1. Len(spans) \in Nat /\ \A s \in 1..Len(spans) : spans[s] \in Span
    BY <1>0, SpanElements
  <2> QED
    BY <2>1 DEF Span
<1>2. \A a \in TracedAgent : blocks[a] # <<>> =>
        /\ Len(blocks[a]) > 0 /\ Len(blocks[a]) \in Nat
        /\ blocks[a][Len(blocks[a])] \in 1..Len(spans)
  <2> SUFFICES ASSUME NEW a \in TracedAgent, blocks[a] # <<>>
               PROVE  /\ Len(blocks[a]) > 0 /\ Len(blocks[a]) \in Nat
                      /\ blocks[a][Len(blocks[a])] \in 1..Len(spans)
    OBVIOUS
  <2>1. blocks[a] \in Seq(1..Len(spans))
    BY <1>0, SpanElements
  <2> QED
    BY <2>1
<1>3. ASSUME NEW a \in TracedAgent, trace_agent_turn(a) PROVE SpanInv'
  <2>1. 0 \in 0..MaxSpans
    BY TelemetryAssumption
  <2>2. CASE Opens(a, Len(spans) + 1, 0)
    <3>1. Len(spans) + 1 \in 1..MaxSpans
      BY <1>1, <2>2, TelemetryAssumption DEF Opens
    <3> QED
      BY <2>1, <2>2, <3>1, OpensKept
  <2>3. ASSUME NEW s \in DOMAIN spans, Opens(a, spans[s].trace_id, 0) PROVE SpanInv'
    <3>1. DOMAIN spans = 1..Len(spans)
      BY <1>0 DEF SpanTypes
    <3>2. spans[s].trace_id \in 1..MaxSpans
      BY <1>1, <3>1
    <3> QED
      BY <2>1, <2>3, <3>2, OpensKept
  <2> QED
    BY <1>3, <2>2, <2>3 DEF trace_agent_turn
<1>4. ASSUME NEW a \in TracedAgent, trace_tool_invocation(a) PROVE SpanInv'
  <2> DEFINE around == blocks[a][Len(blocks[a])]
  <2>1. blocks[a] # <<>> /\ Opens(a, spans[around].trace_id, around)
    BY <1>4 DEF trace_tool_invocation, Last
  <2>2. Len(blocks[a]) > 0 /\ around \in 1..Len(spans)
    BY <1>2, <2>1
  <2>3. Len(spans) <= MaxSpans /\ MaxSpans \in Nat
    BY <1>0, TelemetryAssumption DEF SpanTypes
  <2>4. spans[around].trace_id \in 1..MaxSpans /\ around \in 0..MaxSpans
    BY <1>1, <2>2, <2>3
  <2> QED
    BY <2>1, <2>2, <2>4, OpensKept
<1>5. ASSUME NEW a \in TracedAgent, BlockReturns(a) PROVE SpanInv'
  <2>1. /\ blocks[a] # <<>> /\ finish(blocks[a][Len(blocks[a])], "OK")
        /\ left' = [left EXCEPT ![blocks[a][Len(blocks[a])]] = "returned"]
        /\ blocks' = [blocks EXCEPT ![a] = SubSeq(blocks[a], 1, Len(blocks[a]) - 1)]
    BY <1>5 DEF BlockReturns, Last, Front
  <2>2. Len(blocks[a]) > 0
    BY <1>2, <2>1
  <2> QED
    BY <2>1, <2>2, FinishKept
<1>6. ASSUME NEW a \in TracedAgent, BlockRaises(a) PROVE SpanInv'
  <2>1. /\ blocks[a] # <<>> /\ finish(blocks[a][Len(blocks[a])], "ERROR")
        /\ left' = [left EXCEPT ![blocks[a][Len(blocks[a])]] = "exception"]
        /\ blocks' = [blocks EXCEPT ![a] = SubSeq(blocks[a], 1, Len(blocks[a]) - 1)]
    BY <1>6 DEF BlockRaises, Last, Front
  <2>2. Len(blocks[a]) > 0
    BY <1>2, <2>1
  <2> QED
    BY <2>1, <2>2, FinishKept
<1>7. ASSUME NEW a \in TracedAgent, BlocksCancelled(a) PROVE SpanInv'
  BY <1>7, CancelledKept
<1>8. CASE UNCHANGED telemetryVars
  <2>1. spans' = spans /\ blocks' = blocks /\ collector' = collector /\ left' = left
    BY <1>8 DEF telemetryVars
  <2>2. SpanTypes' /\ ParentsAround' /\ SentInOrder'
    BY <2>1 DEF SpanInv, SpanTypes, ParentsAround, SentInOrder
  <2>3. BlocksNest'
    BY <2>1 DEF SpanInv, BlocksNest
  <2>4. SentAreOver'
    BY <2>1 DEF SpanInv, SentAreOver
  <2> QED
    BY <2>2, <2>3, <2>4 DEF SpanInv
<1> QED
  BY <1>3, <1>4, <1>5, <1>6, <1>7, <1>8 DEF TelemetryNext

\* Whatever the agents' blocks nest and however each is left: the collector is told
\* of a span once, when its block is over, with the status it was left by, and of a
\* tool's span before that of the turn around it, whose trace it is of (Telemetry).
THEOREM SpansAreTold == TelemetrySpec => []SpansTold
<1>1. SpanInv => SpansTold
  <2> SUFFICES ASSUME SpanInv PROVE SpansTold
    OBVIOUS
  <2>1. TelemetryTypeOK /\ SpanTypes
    BY SpanTypesSame DEF SpanInv
  <2>2. /\ DOMAIN collector = 1..Len(collector)
        /\ \A i \in 1..Len(collector) : collector[i] \in 1..Len(spans)
    BY <2>1 DEF SpanTypes
  <2>3. ASSUME NEW i \in 1..Len(collector), NEW j \in 1..Len(collector)
        PROVE  /\ i # j => collector[i] # collector[j]
               /\ i < j => spans[collector[j]].parent # collector[i]
    BY DEF SpanInv, SentInOrder
  <2>4. ASSUME NEW i \in 1..Len(collector)
        PROVE  left[collector[i]] = IF spans[collector[i]].status = "OK" THEN "returned" ELSE "exception"
    BY DEF SpanInv, SentAreOver
  <2>5. ASSUME NEW s \in 1..Len(spans), spans[s].parent # 0
        PROVE  /\ spans[spans[s].parent].trace_id = spans[s].trace_id
               /\ spans[spans[s].parent].agent = spans[s].agent
    BY <2>5 DEF SpanInv, ParentsAround
  <2> QED
    BY <2>1, <2>2, <2>3, <2>4, <2>5 DEF SpansTold
<1> QED
  BY <1>1, SpansInitially, SpansKept, PTL DEF TelemetrySpec

-----------------------------------------------------------------------------
(* AuditLedger: every committed block is one that its hash tells, made on the    *)
(* committed block before it unless damage had taken that one's hash; and the    *)
(* hash of a row is none, or that of the block committed there.                  *)

Row(i, ts, p, prev, hash, raw) ==
  [index |-> i, timestamp |-> ts, payload_hash |-> p, prev_hash |-> prev,
   block_hash |-> hash, raw_payload |-> raw]

IsRow(b) == b = Row(b.index, b.timestamp, b.payload_hash, b.prev_hash, b.block_hash, b.raw_payload)

HashOf(b) == BlockHash(b.index, b.timestamp, b.payload_hash, b.prev_hash)

\* A block without the hash of the one before it, though it is not the first.
Unlinked(b) == b.index > 0 /\ b.prev_hash = Genesis

HashLost == \E i \in DOMAIN chain : chain[i].block_hash = Genesis

MintedOk == \A b \in minted :
  /\ IsRow(b) /\ b.index \in Nat /\ b.block_hash = HashOf(b) /\ b.raw_payload = b.payload_hash
  /\ b.index > 0 => \/ b.prev_hash = Genesis
                    \/ \E c \in minted : c.index = b.index - 1 /\ b.prev_hash = c.block_hash

RowsOk == \A i \in DOMAIN chain :
  /\ IsRow(chain[i]) /\ chain[i].index = i
  /\ \/ chain[i].block_hash = Genesis
     \/ \E b \in minted : b.index = i /\ chain[i].block_hash = b.block_hash

RowsEnd == \E top \in Nat : \A i \in DOMAIN chain : i <= top

DamageSeen ==
  /\ HashLost => damages > 0
  /\ (\E b \in minted : Unlinked(b)) => damages > 1 \/ (damages = 1 /\ HashLost)

\* While nothing is damaged the rows are 0, 1, ... and each is made on the one before.
Undamaged == damages = 0 => \E n \in Nat :
  /\ DOMAIN chain = 0..n - 1
  /\ \A i \in 0..n - 1 :
       /\ chain[i].payload_hash = chain[i].raw_payload /\ chain[i].block_hash = HashOf(chain[i])
       /\ chain[i].prev_hash = IF i = 0 THEN Genesis ELSE chain[i - 1].block_hash
  /\ audit_report.pc # "idle" => audit_report.valid /\ audit_report.seen \in 0..n
  /\ audit_report.pc = "done" => audit_report.total \in Nat /\ audit_report.total >= audit_report.seen

IsReport == audit_report = [pc |-> audit_report.pc, valid |-> audit_report.valid,
  seen |-> audit_report.seen, total |-> audit_report.total, head |-> audit_report.head]

LedgerInv ==
  /\ LedgerTypeOK /\ IsReport /\ (\A r \in Recorder : recorder[r].pc = "called" => recorder[r].payload \in Payload)
  /\ MintedOk /\ RowsOk /\ RowsEnd /\ DamageSeen /\ Undamaged

\* A hash tells what was hashed, and is not that of no block.
LEMMA HashIdeal ==
  /\ \A i, t, p, h : BlockHash(i, t, p, h) # Genesis
  /\ \A i, t, p, h, j, u, q, g :
       BlockHash(i, t, p, h) = BlockHash(j, u, q, g) => i = j /\ t = u /\ p = q /\ h = g
BY DEF BlockHash, Genesis

LEMMA RowFields ==
  ASSUME NEW i, NEW t, NEW p, NEW h, NEW k, NEW x, NEW b, b = Row(i, t, p, h, k, x)
  PROVE  /\ IsRow(b) /\ b.index = i /\ b.timestamp = t /\ b.payload_hash = p
         /\ b.prev_hash = h /\ b.block_hash = k /\ b.raw_payload = x
<1>1. /\ b.index = i /\ b.timestamp = t /\ b.payload_hash = p
      /\ b.prev_hash = h /\ b.block_hash = k /\ b.raw_payload = x
  BY DEF Row
<1> QED
  BY <1>1 DEF IsRow

LEMMA LedgerInitially == LedgerInit => LedgerInv
<1> SUFFICES ASSUME LedgerInit PROVE LedgerInv
  OBVIOUS
<1>1. DOMAIN chain = {} /\ minted = {} /\ damages = 0 /\ clock = 0 /\ audit_report = NoReport
      /\ recorder = [r \in Recorder |-> Idle]
  BY DEF LedgerInit
<1>2. MintedOk /\ RowsOk /\ RowsEnd /\ DamageSeen
  BY <1>1 DEF MintedOk, RowsOk, RowsEnd, DamageSeen, HashLost
<1>3. audit_report.pc = "idle" /\ audit_report.valid = FALSE
  BY <1>1 DEF NoReport
<1>4. Undamaged
  <2>1. DOMAIN chain = 0..0 - 1 /\ 0 \in Nat /\ \A i : i \notin 0..0 - 1
    BY <1>1
  <2> QED
    BY <1>3, <2>1 DEF Undamaged
<1>5. LedgerTypeOK
  <2>1. Idle \in [pc: {"idle", "called"}, payload: Payload \cup {Damaged}, now: Nat]
    BY DEF Idle
  <2>2. recorder \in [Recorder -> [pc: {"idle", "called"}, payload: Payload \cup {Damaged}, now: Nat]]
    BY <1>1, <2>1
  <2>3. damages \in 0..MaxDamages
    BY <1>1, LedgerAssumption
  <2> QED
    BY <1>1, <1>3, <2>2, <2>3 DEF LedgerTypeOK
<1>6. \A r \in Recorder : recorder[r].pc # "called"
  BY <1>1 DEF Idle
<1>7. IsReport
  BY <1>1 DEF IsReport, NoReport
<1> QED
  BY <1>2, <1>4, <1>5, <1>6, <1>7 DEF LedgerInv

-----------------------------------------------------------------------------
\* The index of the next block, and the hash that it is made on.
NextIndex == IF DOMAIN chain = {} THEN 0 ELSE Max(DOMAIN chain) + 1
LastHash == IF NextIndex = 0 THEN Genesis ELSE chain[NextIndex - 1].block_hash

LEMMA NextIndexOk ==
  ASSUME LedgerInv
  PROVE  /\ NextIndex \in Nat /\ NextIndex \notin DOMAIN chain
         /\ \A i \in DOMAIN chain : i \in Nat /\ i < NextIndex
         /\ NextIndex # 0 => NextIndex - 1 \in DOMAIN chain
<1>1. \A i \in DOMAIN chain : i \in Nat
  BY DEF LedgerInv, LedgerTypeOK
<1>2. PICK top \in Nat : \A i \in DOMAIN chain : i <= top
  BY DEF LedgerInv, RowsEnd
<1>3. CASE DOMAIN chain = {}
  BY <1>3 DEF NextIndex
<1>4. CASE DOMAIN chain # {}
  <2> DEFINE rows == DOMAIN chain
  <2>1. rows \in SUBSET Nat /\ rows # {} /\ top \in Nat /\ \A i \in rows : i <= top
    BY <1>1, <1>2, <1>4
  <2> HIDE DEF rows
  <2>2. Max(rows) \in rows /\ \A i \in rows : i <= Max(rows)
    BY <2>1, MaxOfBoundedNaturals
  <2>3. NextIndex = Max(rows) + 1
    BY <1>4 DEF NextIndex, rows
  <2>4. Max(rows) \in Nat
    BY <2>1, <2>2
  <2>5. /\ NextIndex \in Nat /\ NextIndex - 1 = Max(rows)
        /\ \A i \in rows : i \in Nat /\ i < NextIndex
    BY <2>1, <2>2, <2>3, <2>4
  <2> QED
    BY <2>2, <2>5 DEF rows
<1> QED
  BY <1>3, <1>4

LEMMA RecordCommitsKept ==
  ASSUME LedgerInv, NEW r \in Recorder, RecordCommits(r)
  PROVE  LedgerInv'
<1> DEFINE x == recorder[r].payload
           b == NextBlock(x, recorder[r].now)
<1>1. /\ recorder[r].pc = "called" /\ recorder' = [recorder EXCEPT ![r] = Idle]
      /\ chain' = [i \in DOMAIN chain \cup {b.index} |-> IF i = b.index THEN b ELSE chain[i]]
      /\ minted' = minted \cup {b}
      /\ clock' = clock /\ audit_report' = audit_report /\ damages' = damages
  BY DEF RecordCommits
<1>2. b = Row(NextIndex, recorder[r].now, x, LastHash, BlockHash(NextIndex, recorder[r].now, x, LastHash), x)
  BY DEF NextBlock, Row, NextIndex, LastHash
<1>3. x \in Payload
  BY <1>1 DEF LedgerInv
<1> HIDE DEF x
<1>4. /\ IsRow(b) /\ b.index = NextIndex /\ b.payload_hash = x /\ b.raw_payload = x
      /\ b.prev_hash = LastHash /\ b.block_hash = HashOf(b)
  BY <1>2, RowFields DEF HashOf
<1> HIDE DEF b
<1>5. /\ NextIndex \in Nat /\ NextIndex \notin DOMAIN chain
      /\ \A i \in DOMAIN chain : i \in Nat /\ i < NextIndex
      /\ NextIndex # 0 => NextIndex - 1 \in DOMAIN chain
  BY NextIndexOk
<1>6. /\ DOMAIN chain' = DOMAIN chain \cup {NextIndex} /\ chain'[NextIndex] = b
      /\ \A i \in DOMAIN chain : chain'[i] = chain[i]
  BY <1>1, <1>4, <1>5
<1>7. b.block_hash # Genesis
  BY <1>4, HashIdeal DEF HashOf
<1>8. LedgerTypeOK' /\ \A q \in Recorder : recorder'[q].pc = "called" => recorder'[q].payload \in Payload
  <2>1. LedgerTypeOK
    BY DEF LedgerInv
  <2>2. recorder \in [Recorder -> [pc: {"idle", "called"}, payload: Payload \cup {Damaged}, now: Nat]]
    BY <2>1 DEF LedgerTypeOK
  <2>3. Idle \in [pc: {"idle", "called"}, payload: Payload \cup {Damaged}, now: Nat] /\ Idle.pc = "idle"
    BY DEF Idle
  <2>4. recorder' \in [Recorder -> [pc: {"idle", "called"}, payload: Payload \cup {Damaged}, now: Nat]]
    BY <1>1, <2>2, <2>3
  <2>5. \A q \in Recorder : recorder'[q].pc = "called" => recorder'[q].payload \in Payload
    BY <1>1, <2>2, <2>3 DEF LedgerInv
  <2>6. \A i \in DOMAIN chain' : i \in Nat /\ chain'[i].raw_payload \in Payload \cup {Damaged}
    <3>1. \A i \in DOMAIN chain : chain[i].raw_payload \in Payload \cup {Damaged}
      BY <2>1 DEF LedgerTypeOK
    <3> QED
      BY <1>3, <1>4, <1>5, <1>6, <3>1
  <2> QED
    BY <1>1, <2>1, <2>4, <2>5, <2>6 DEF LedgerTypeOK
<1>9. \/ LastHash = Genesis
      \/ NextIndex > 0 /\ \E c \in minted : c.index = NextIndex - 1 /\ LastHash = c.block_hash
  <2>1. CASE NextIndex = 0
    BY <2>1 DEF LastHash
  <2>2. CASE NextIndex # 0
    <3>1. NextIndex - 1 \in DOMAIN chain /\ LastHash = chain[NextIndex - 1].block_hash /\ NextIndex > 0
      BY <1>5, <2>2 DEF LastHash
    <3> QED
      BY <3>1 DEF LedgerInv, RowsOk
  <2> QED
    BY <2>1, <2>2
<1>10. MintedOk'
  <2> SUFFICES ASSUME NEW d \in minted'
               PROVE  /\ IsRow(d) /\ d.index \in Nat /\ d.block_hash = HashOf(d) /\ d.raw_payload = d.payload_hash
                      /\ d.index > 0 => \/ d.prev_hash = Genesis
                                        \/ \E c \in minted' : c.index = d.index - 1 /\ d.prev_hash = c.block_hash
    BY DEF MintedOk
  <2>1. CASE d = b
    BY <1>1, <1>4, <1>5, <1>9, <2>1
  <2>2. CASE d \in minted
    BY <1>1, <2>2 DEF LedgerInv, MintedOk
  <2> QED
    BY <1>1, <2>1, <2>2
<1>11. RowsOk'
  <2> SUFFICES ASSUME NEW i \in DOMAIN chain'
               PROVE  /\ IsRow(chain'[i]) /\ chain'[i].index = i
                      /\ \/ chain'[i].block_hash = Genesis
                         \/ \E c \in minted' : c.index = i /\ chain'[i].block_hash = c.block_hash
    BY DEF RowsOk
  <2>1. CASE i = NextIndex
    BY <1>1, <1>4, <1>6, <2>1
  <2>2. CASE i \in DOMAIN chain
    BY <1>1, <1>6, <2>2 DEF LedgerInv, RowsOk
  <2> QED
    BY <1>6, <2>1, <2>2
<1>12. RowsEnd'
  <2>1. \A i \in DOMAIN chain' : i <= NextIndex
    BY <1>5, <1>6
  <2> QED
    BY <1>5, <2>1 DEF RowsEnd
<1>13. HashLost' <=> HashLost
  BY <1>5, <1>6, <1>7 DEF HashLost
<1>14. DamageSeen'
  <2>1. ASSUME NEW d \in minted', Unlinked(d) PROVE damages > 1 \/ (damages = 1 /\ HashLost)
    <3>1. CASE d \in minted
      BY <2>1, <3>1 DEF LedgerInv, DamageSeen
    <3>2. CASE d = b
      <4>1. NextIndex > 0 /\ LastHash = Genesis
        BY <1>4, <2>1, <3>2 DEF Unlinked
      <4>2. NextIndex - 1 \in DOMAIN chain /\ chain[NextIndex - 1].block_hash = Genesis
        BY <1>5, <4>1 DEF LastHash
      <4>3. HashLost /\ damages > 0 /\ damages \in Nat
        BY <4>2 DEF HashLost, LedgerInv, DamageSeen, LedgerTypeOK
      <4> QED
        BY <4>3
    <3> QED
      BY <1>1, <3>1, <3>2
  <2>2. HashLost => damages > 0
    BY DEF LedgerInv, DamageSeen
  <2> QED
    BY <1>1, <1>13, <2>1, <2>2 DEF DamageSeen
<1>15. Undamaged'
  <2> SUFFICES ASSUME damages = 0
               PROVE  \E n \in Nat :
                        /\ DOMAIN chain' = 0..n - 1
                        /\ \A i \in 0..n - 1 :
                             /\ chain'[i].payload_hash = chain'[i].raw_payload
                             /\ chain'[i].block_hash = HashOf(chain'[i])
                             /\ chain'[i].prev_hash = IF i = 0 THEN Genesis ELSE chain'[i - 1].block_hash
                        /\ audit_report.pc # "idle" => audit_report.valid /\ audit_report.seen \in 0..n
                        /\ audit_report.pc = "done" =>
                             audit_report.total \in Nat /\ audit_report.total >= audit_report.seen
    BY <1>1 DEF Undamaged
  <2>1. PICK n \in Nat :
          /\ DOMAIN chain = 0..n - 1
          /\ \A i \in 0..n - 1 :
               /\ chain[i].payload_hash = chain[i].raw_payload /\ chain[i].block_hash = HashOf(chain[i])
               /\ chain[i].prev_hash = IF i = 0 THEN Genesis ELSE chain[i - 1].block_hash
          /\ audit_report.pc # "idle" => audit_report.valid /\ audit_report.seen \in 0..n
          /\ audit_report.pc = "done" => audit_report.total \in Nat /\ audit_report.total >= audit_report.seen
    BY DEF LedgerInv, Undamaged
  <2>2. NextIndex = n
    <3>1. CASE NextIndex = 0
      <4>1. 0 \notin 0..n - 1
        BY <1>5, <2>1, <3>1
      <4> QED
        BY <3>1, <4>1
    <3>2. CASE NextIndex # 0
      <4>1. NextIndex - 1 \in 0..n - 1 /\ NextIndex \notin 0..n - 1 /\ NextIndex \in Nat
        BY <1>5, <2>1, <3>2
      <4> QED
        BY <4>1
    <3> QED
      BY <3>1, <3>2
  <2>3. DOMAIN chain' = 0..(n + 1) - 1
    BY <1>6, <2>1, <2>2
  <2>4. ASSUME NEW i \in 0..(n + 1) - 1
        PROVE  /\ chain'[i].payload_hash = chain'[i].raw_payload
               /\ chain'[i].block_hash = HashOf(chain'[i])
               /\ chain'[i].prev_hash = IF i = 0 THEN Genesis ELSE chain'[i - 1].block_hash
    <3>1. CASE i = n
      <4>1. chain'[i] = b
        BY <1>6, <2>2, <3>1
      <4>2. i # 0 => chain'[i - 1] = chain[i - 1]
        BY <1>5, <1>6, <2>2, <3>1
      <4>3. LastHash = IF i = 0 THEN Genesis ELSE chain[i - 1].block_hash
        BY <2>2, <3>1 DEF LastHash
      <4> QED
        BY <1>4, <4>1, <4>2, <4>3
    <3>2. CASE i # n
      <4>1. i \in 0..n - 1 /\ (i # 0 => i - 1 \in 0..n - 1)
        BY <3>2
      <4>2. chain'[i] = chain[i] /\ (i # 0 => chain'[i - 1] = chain[i - 1])
        BY <1>6, <2>1, <4>1
      <4>3. /\ chain[i].payload_hash = chain[i].raw_payload /\ chain[i].block_hash = HashOf(chain[i])
            /\ chain[i].prev_hash = IF i = 0 THEN Genesis ELSE chain[i - 1].block_hash
        BY <2>1, <4>1
      <4> QED
        BY <4>2, <4>3
    <3> QED
      BY <3>1, <3>2
  <2>5. audit_report.seen \in 0..n => audit_report.seen \in 0..(n + 1)
    OBVIOUS
  <2> QED
    BY <2>1, <2>3, <2>4, <2>5
<1> QED
  BY <1>1, <1>8, <1>10, <1>11, <1>12, <1>14, <1>15 DEF LedgerInv, IsReport

-----------------------------------------------------------------------------
\* A changed row is a row still, of the same index; its hash is the old one or none.
LEMMA RowDamaged ==
  ASSUME NEW b, IsRow(b), b.raw_payload \in Payload \cup {Damaged}, NEW c,
         \/ c = [b EXCEPT !.raw_payload = Damaged]
         \/ c = [b EXCEPT !.payload_hash = Damaged]
         \/ c = [b EXCEPT !.timestamp = @ + 1]
         \/ c = [b EXCEPT !.prev_hash = Genesis]
         \/ c = [b EXCEPT !.block_hash = Genesis]
  PROVE  /\ IsRow(c) /\ c.index = b.index /\ c.raw_payload \in Payload \cup {Damaged}
         /\ c.block_hash \in {b.block_hash, Genesis}
<1> DEFINE i == b.index  t == b.timestamp  p == b.payload_hash
           h == b.prev_hash  k == b.block_hash  x == b.raw_payload
<1>1. b = Row(i, t, p, h, k, x)
  BY DEF IsRow
<1>2. x \in Payload \cup {Damaged}
  OBVIOUS
<1> HIDE DEF i, t, p, h, k, x
<1>3. \/ c = Row(i, t, p, h, k, Damaged)
      \/ c = Row(i, t, Damaged, h, k, x)
      \/ c = Row(i, t + 1, p, h, k, x)
      \/ c = Row(i, t, p, Genesis, k, x)
      \/ c = Row(i, t, p, h, Genesis, x)
  BY <1>1 DEF Row
<1>4. IsRow(c) /\ c.index = i /\ c.raw_payload \in {x, Damaged} /\ c.block_hash \in {k, Genesis}
  BY <1>3, RowFields
<1> QED
  BY <1>2, <1>4 DEF i, k

LEMMA DamageKept ==
  ASSUME LedgerInv, NEW i \in DOMAIN chain, Damage(i)
  PROVE  LedgerInv'
<1>1. /\ damages < MaxDamages /\ damages' = damages + 1 /\ damages \in 0..MaxDamages
      /\ clock' = clock /\ recorder' = recorder /\ audit_report' = audit_report /\ minted' = minted
  BY DEF Damage, LedgerInv, LedgerTypeOK
<1>2. damages' \in 0..MaxDamages /\ damages' > 0 /\ (damages > 0 => damages' > 1) /\ damages \in Nat
  BY <1>1, LedgerAssumption
<1>3. /\ LedgerTypeOK /\ MintedOk /\ RowsOk
      /\ \A r \in Recorder : recorder[r].pc = "called" => recorder[r].payload \in Payload
  BY DEF LedgerInv
<1>4. \A j \in DOMAIN chain : j \in Nat /\ chain[j].raw_payload \in Payload \cup {Damaged}
  BY <1>3 DEF LedgerTypeOK
<1>5. \A j \in DOMAIN chain' :
        /\ j \in DOMAIN chain /\ IsRow(chain'[j]) /\ chain'[j].index = j
        /\ chain'[j].raw_payload \in Payload \cup {Damaged}
        /\ chain'[j].block_hash \in {chain[j].block_hash, Genesis}
  <2>1. ASSUME NEW j \in DOMAIN chain
        PROVE  IsRow(chain[j]) /\ chain[j].index = j /\ chain[j].raw_payload \in Payload \cup {Damaged}
    BY <1>3, <1>4 DEF RowsOk
  <2>2. CASE chain' = [j \in DOMAIN chain \ {i} |-> chain[j]]
    BY <2>1, <2>2
  <2>3. ASSUME NEW c, chain' = [chain EXCEPT ![i] = c],
               \/ c = [chain[i] EXCEPT !.raw_payload = Damaged]
               \/ c = [chain[i] EXCEPT !.payload_hash = Damaged]
               \/ c = [chain[i] EXCEPT !.timestamp = @ + 1]
               \/ c = [chain[i] EXCEPT !.prev_hash = Genesis]
               \/ c = [chain[i] EXCEPT !.block_hash = Genesis]
        PROVE  \A j \in DOMAIN chain' :
                 /\ j \in DOMAIN chain /\ IsRow(chain'[j]) /\ chain'[j].index = j
                 /\ chain'[j].raw_payload \in Payload \cup {Damaged}
                 /\ chain'[j].block_hash \in {chain[j].block_hash, Genesis}
    <3>1. /\ IsRow(c) /\ c.index = i /\ c.raw_payload \in Payload \cup {Damaged}
          /\ c.block_hash \in {chain[i].block_hash, Genesis}
      BY <2>1, <2>3, RowDamaged
    <3>2. /\ DOMAIN chain' = DOMAIN chain
          /\ \A j \in DOMAIN chain : chain'[j] = IF j = i THEN c ELSE chain[j]
      BY <2>3
    <3> QED
      BY <2>1, <3>1, <3>2
  <2> QED
    BY <2>2, <2>3 DEF Damage
<1>6. LedgerTypeOK'
  BY <1>1, <1>2, <1>3, <1>4, <1>5 DEF LedgerTypeOK
<1>7. MintedOk'
  BY <1>1, <1>3 DEF MintedOk
<1>8. RowsOk'
  BY <1>1, <1>3, <1>5 DEF RowsOk
<1>9. RowsEnd'
  BY <1>5 DEF LedgerInv, RowsEnd
<1>10. DamageSeen'
  <2>1. ASSUME NEW b \in minted, Unlinked(b) PROVE damages' > 1
    BY <1>2, <2>1 DEF LedgerInv, DamageSeen
  <2> QED
    BY <1>1, <1>2, <2>1 DEF DamageSeen
<1>11. Undamaged'
  BY <1>2 DEF Undamaged
<1> QED
  BY <1>1, <1>3, <1>6, <1>7, <1>8, <1>9, <1>10, <1>11 DEF LedgerInv, IsReport

-----------------------------------------------------------------------------
\* While nothing is damaged, the chain verifies.
LEMMA UndamagedVerifies ==
  ASSUME LedgerInv, NEW n \in Nat, DOMAIN chain = 0..n - 1,
         \A i \in 0..n - 1 :
           /\ chain[i].payload_hash = chain[i].raw_payload /\ chain[i].block_hash = HashOf(chain[i])
           /\ chain[i].prev_hash = IF i = 0 THEN Genesis ELSE chain[i - 1].block_hash
  PROVE  verify_chain_integrity
<1> SUFFICES ASSUME NEW i \in 0..n - 1
             PROVE  /\ chain[i].prev_hash = Before(i) /\ chain[i].payload_hash = chain[i].raw_payload
                    /\ chain[i].block_hash
                         = BlockHash(i, chain[i].timestamp, chain[i].payload_hash, chain[i].prev_hash)
  BY DEF verify_chain_integrity
<1>1. chain[i].index = i
  BY DEF LedgerInv, RowsOk
<1> DEFINE lower == {j \in DOMAIN chain : j < i}
<1>2. Before(i) = IF i = 0 THEN Genesis ELSE chain[i - 1].block_hash
  <2>1. CASE i = 0
    <3>1. lower = {}
      BY <2>1
    <3> QED
      BY <2>1, <3>1 DEF Before
  <2>2. CASE i # 0
    <3>1. lower \in SUBSET Nat /\ i - 1 \in lower /\ i - 1 \in Nat /\ \A j \in lower : j <= i - 1
      BY <2>2
    <3>2. Before(i) = chain[Max(lower)].block_hash
      BY <3>1 DEF Before
    <3> HIDE DEF lower
    <3>3. Max(lower) \in lower /\ \A j \in lower : j <= Max(lower)
      BY <3>1, MaxOfBoundedNaturals
    <3>4. Max(lower) \in Nat /\ i - 1 <= Max(lower) /\ Max(lower) <= i - 1 /\ i - 1 \in Nat
      BY <3>1, <3>3
    <3>5. Max(lower) = i - 1
      BY <3>4
    <3> QED
      BY <2>2, <3>2, <3>5
  <2> QED
    BY <2>1, <2>2
<1> QED
  BY <1>1, <1>2 DEF HashOf

LEMMA ReportKept ==
  ASSUME LedgerInv, ReportVerifies \/ ReportCounts
  PROVE  LedgerInv'
<1>1. chain' = chain /\ clock' = clock /\ recorder' = recorder /\ minted' = minted /\ damages' = damages
  BY DEF ReportVerifies, ReportCounts
<1>2. /\ MintedOk' /\ RowsOk' /\ RowsEnd' /\ DamageSeen'
      /\ \A r \in Recorder : recorder'[r].pc = "called" => recorder'[r].payload \in Payload
  BY <1>1 DEF LedgerInv, MintedOk, RowsOk, RowsEnd, DamageSeen, HashLost
<1>3. ReportVerifies =>
        /\ audit_report'.pc = "verified" /\ audit_report'.valid = verify_chain_integrity
        /\ audit_report'.seen = Cardinality(DOMAIN chain) /\ IsReport'
  <2> SUFFICES ASSUME ReportVerifies
               PROVE  /\ audit_report'.pc = "verified" /\ audit_report'.valid = verify_chain_integrity
                      /\ audit_report'.seen = Cardinality(DOMAIN chain) /\ IsReport'
    OBVIOUS
  <2>1. audit_report' = [pc |-> "verified", valid |-> verify_chain_integrity,
                         seen |-> Cardinality(DOMAIN chain), total |-> 0, head |-> Genesis]
    BY DEF ReportVerifies, NoReport
  <2> QED
    BY <2>1 DEF IsReport
<1>4. ReportCounts =>
        /\ audit_report.pc = "verified" /\ audit_report'.pc = "done"
        /\ audit_report'.valid = audit_report.valid /\ audit_report'.seen = audit_report.seen
        /\ audit_report'.total = Cardinality(DOMAIN chain) /\ IsReport'
  <2> SUFFICES ASSUME ReportCounts
               PROVE  /\ audit_report.pc = "verified" /\ audit_report'.pc = "done"
                      /\ audit_report'.valid = audit_report.valid /\ audit_report'.seen = audit_report.seen
                      /\ audit_report'.total = Cardinality(DOMAIN chain) /\ IsReport'
    OBVIOUS
  <2> DEFINE head == IF DOMAIN chain = {} THEN Genesis ELSE chain[Max(DOMAIN chain)].block_hash
             total == Cardinality(DOMAIN chain)
  <2>1. /\ audit_report.pc = "verified"
        /\ audit_report' = [audit_report EXCEPT !.pc = "done", !.total = total, !.head = head]
    BY DEF ReportCounts
  <2> HIDE DEF head, total
  <2>2. audit_report' = [pc |-> "done", valid |-> audit_report.valid, seen |-> audit_report.seen,
                         total |-> total, head |-> head]
    BY <2>1 DEF LedgerInv, IsReport
  <2> QED
    BY <2>1, <2>2 DEF IsReport, total
<1>5. LedgerTypeOK' /\ IsReport'
  <2>1. audit_report'.pc \in {"idle", "verified", "done"} /\ audit_report'.valid \in BOOLEAN /\ IsReport'
    <3>1. verify_chain_integrity \in BOOLEAN
      BY DEF verify_chain_integrity
    <3>2. audit_report.valid \in BOOLEAN
      BY DEF LedgerInv, LedgerTypeOK
    <3> QED
      BY <1>3, <1>4, <3>1, <3>2
  <2> QED
    BY <1>1, <2>1 DEF LedgerInv, LedgerTypeOK
<1>6. Undamaged'
  <2> SUFFICES ASSUME damages = 0
               PROVE  \E n \in Nat :
                        /\ DOMAIN chain = 0..n - 1
                        /\ \A i \in 0..n - 1 :
                             /\ chain[i].payload_hash = chain[i].raw_payload
                             /\ chain[i].block_hash = HashOf(chain[i])
                             /\ chain[i].prev_hash = IF i = 0 THEN Genesis ELSE chain[i - 1].block_hash
                        /\ audit_report'.pc # "idle" => audit_report'.valid /\ audit_report'.seen \in 0..n
                        /\ audit_report'.pc = "done" =>
                             audit_report'.total \in Nat /\ audit_report'.total >= audit_report'.seen
    BY <1>1 DEF Undamaged
  <2>1. PICK n \in Nat :
          /\ DOMAIN chain = 0..n - 1
          /\ \A i \in 0..n - 1 :
               /\ chain[i].payload_hash = chain[i].raw_payload /\ chain[i].block_hash = HashOf(chain[i])
               /\ chain[i].prev_hash = IF i = 0 THEN Genesis ELSE chain[i - 1].block_hash
          /\ audit_report.pc # "idle" => audit_report.valid /\ audit_report.seen \in 0..n
          /\ audit_report.pc = "done" => audit_report.total \in Nat /\ audit_report.total >= audit_report.seen
    BY DEF LedgerInv, Undamaged
  <2>2. verify_chain_integrity
    BY <2>1, UndamagedVerifies
  <2>3. Cardinality(DOMAIN chain) = n
    <3>1. Cardinality(0..n - 1) = n
      <4>1. 0 \in Int /\ n - 1 \in Int
        OBVIOUS
      <4>2. Cardinality(0..n - 1) = IF 0 > n - 1 THEN 0 ELSE (n - 1) - 0 + 1
        BY <4>1, FS_Interval
      <4> QED
        BY <4>2
    <3> QED
      BY <2>1, <3>1
  <2>4. /\ audit_report'.pc # "idle" => audit_report'.valid /\ audit_report'.seen \in 0..n
        /\ audit_report'.pc = "done" =>
             audit_report'.total \in Nat /\ audit_report'.total >= audit_report'.seen
    <3>1. CASE ReportVerifies
      <4>1. audit_report'.valid = verify_chain_integrity /\ audit_report'.pc = "verified"
            /\ audit_report'.seen = n
        BY <1>3, <2>3, <3>1
      <4>2. audit_report'.valid
        BY <2>2, <4>1, Zenon
      <4>3. n \in 0..n
        OBVIOUS
      <4> QED
        BY <4>1, <4>2, <4>3
    <3>2. CASE ReportCounts
      <4>1. audit_report.valid /\ audit_report.seen \in 0..n
        BY <1>4, <2>1, <3>2
      <4>2. /\ audit_report'.valid = audit_report.valid /\ audit_report'.seen = audit_report.seen
            /\ audit_report'.total = n
        BY <1>4, <2>3, <3>2
      <4>3. audit_report'.valid
        BY <4>1, <4>2, Zenon
      <4>4. audit_report.seen \in 0..n => n >= audit_report.seen
        OBVIOUS
      <4> QED
        BY <4>1, <4>2, <4>3, <4>4
    <3> QED
      BY <3>1, <3>2
  <2> QED
    BY <2>1, <2>4
<1> QED
  BY <1>2, <1>5, <1>6 DEF LedgerInv

LEMMA LedgerKept == LedgerInv /\ [LedgerNext]_ledgerVars => LedgerInv'
<1> SUFFICES ASSUME LedgerInv, [LedgerNext]_ledgerVars PROVE LedgerInv'
  OBVIOUS
<1>1. ASSUME NEW r \in Recorder, NEW x \in Payload, RecordCalled(r, x) PROVE LedgerInv'
  <2>1. /\ clock' = clock + 1 /\ clock \in Nat
        /\ recorder' = [recorder EXCEPT ![r] = [pc |-> "called", payload |-> x, now |-> clock']]
        /\ chain' = chain /\ audit_report' = audit_report /\ minted' = minted /\ damages' = damages
    BY <1>1 DEF RecordCalled, LedgerInv, LedgerTypeOK
  <2> DEFINE call == [pc |-> "called", payload |-> x, now |-> clock']
             calls == [pc: {"idle", "called"}, payload: Payload \cup {Damaged}, now: Nat]
  <2>2. call \in calls /\ call.pc = "called" /\ call.payload = x
    BY <2>1
  <2>3. recorder \in [Recorder -> calls] /\ recorder' = [recorder EXCEPT ![r] = call]
    BY <2>1 DEF LedgerInv, LedgerTypeOK
  <2> HIDE DEF call, calls
  <2>4. recorder' \in [Recorder -> calls]
    BY <2>2, <2>3
  <2>5. \A q \in Recorder : recorder'[q].pc = "called" => recorder'[q].payload \in Payload
    BY <2>2, <2>3 DEF LedgerInv
  <2>6. LedgerTypeOK'
    <3>1. clock' \in Nat
      BY <2>1
    <3> QED
      BY <2>1, <2>4, <3>1 DEF LedgerInv, LedgerTypeOK, calls
  <2>7. /\ MintedOk' /\ RowsOk' /\ RowsEnd' /\ DamageSeen' /\ Undamaged' /\ IsReport'
    BY <2>1 DEF LedgerInv, MintedOk, RowsOk, RowsEnd, DamageSeen, HashLost, Undamaged, IsReport
  <2> QED
    BY <2>5, <2>6, <2>7 DEF LedgerInv
<1>2. ASSUME NEW r \in Recorder, RecordFails(r) PROVE LedgerInv'
  <2>1. /\ recorder' = [recorder EXCEPT ![r] = Idle] /\ clock' = clock
        /\ chain' = chain /\ audit_report' = audit_report /\ minted' = minted /\ damages' = damages
    BY <1>2 DEF RecordFails
  <2> DEFINE calls == [pc: {"idle", "called"}, payload: Payload \cup {Damaged}, now: Nat]
  <2>2. Idle \in calls /\ Idle.pc = "idle"
    BY DEF Idle
  <2>3. recorder \in [Recorder -> calls]
    BY DEF LedgerInv, LedgerTypeOK
  <2> HIDE DEF calls
  <2>4. recorder' \in [Recorder -> calls]
    BY <2>1, <2>2, <2>3
  <2>5. \A q \in Recorder : recorder'[q].pc = "called" => recorder'[q].payload \in Payload
    BY <2>1, <2>2, <2>3 DEF LedgerInv
  <2>6. LedgerTypeOK'
    BY <2>1, <2>4 DEF LedgerInv, LedgerTypeOK, calls
  <2>7. /\ MintedOk' /\ RowsOk' /\ RowsEnd' /\ DamageSeen' /\ Undamaged' /\ IsReport'
    BY <2>1 DEF LedgerInv, MintedOk, RowsOk, RowsEnd, DamageSeen, HashLost, Undamaged, IsReport
  <2> QED
    BY <2>5, <2>6, <2>7 DEF LedgerInv
<1>3. CASE UNCHANGED ledgerVars
  <2>1. /\ chain' = chain /\ clock' = clock /\ recorder' = recorder /\ audit_report' = audit_report
        /\ minted' = minted /\ damages' = damages
    BY <1>3 DEF ledgerVars
  <2>2. /\ MintedOk' /\ RowsOk' /\ RowsEnd' /\ DamageSeen' /\ Undamaged' /\ IsReport'
    BY <2>1 DEF LedgerInv, MintedOk, RowsOk, RowsEnd, DamageSeen, HashLost, Undamaged, IsReport
  <2>3. LedgerTypeOK' /\ \A r \in Recorder : recorder'[r].pc = "called" => recorder'[r].payload \in Payload
    BY <2>1 DEF LedgerInv, LedgerTypeOK
  <2> QED
    BY <2>2, <2>3 DEF LedgerInv
<1> QED
  BY <1>1, <1>2, <1>3, RecordCommitsKept, DamageKept, ReportKept DEF LedgerNext

\* However many recorders write and whatever damage is done: a chain that verifies is
\* of blocks that were committed as they are, each on the one before, unless damage
\* was done twice; and a report of an undamaged ledger says so (TamperEvidentAuditLedger).
THEOREM ChainTellsDamage == LedgerSpec => []ChainTells
<1>1. LedgerInv => ChainTells
  <2> SUFFICES ASSUME LedgerInv PROVE ChainTells
    OBVIOUS
  <2>1. audit_report.pc = "done" /\ damages = 0 =>
          audit_report.valid /\ audit_report.total >= audit_report.seen
    BY DEF LedgerInv, Undamaged
  <2>2. ASSUME verify_chain_integrity, NEW i \in DOMAIN chain
        PROVE  /\ chain[i] \in minted
               /\ i > 0 => i - 1 \in DOMAIN chain \/ (damages > 1 /\ chain[i].prev_hash = Genesis)
    <3>1. \A j \in DOMAIN chain :
            /\ chain[j].prev_hash = Before(j) /\ chain[j].payload_hash = chain[j].raw_payload
            /\ chain[j].block_hash = BlockHash(j, chain[j].timestamp, chain[j].payload_hash, chain[j].prev_hash)
      BY <2>2 DEF verify_chain_integrity
    <3>2. \A j \in DOMAIN chain : chain[j].block_hash # Genesis
      BY <3>1, HashIdeal
    <3>3. IsRow(chain[i]) /\ chain[i].index = i
      BY DEF LedgerInv, RowsOk
    <3>4. PICK b \in minted : b.index = i /\ chain[i].block_hash = b.block_hash
      BY <3>2 DEF LedgerInv, RowsOk
    <3>5. /\ IsRow(b) /\ b.index \in Nat /\ b.block_hash = HashOf(b) /\ b.raw_payload = b.payload_hash
          /\ b.index > 0 => \/ b.prev_hash = Genesis
                            \/ \E c \in minted : c.index = b.index - 1 /\ b.prev_hash = c.block_hash
      BY DEF LedgerInv, MintedOk
    <3>6. /\ chain[i].timestamp = b.timestamp /\ chain[i].payload_hash = b.payload_hash
          /\ chain[i].prev_hash = b.prev_hash
      BY <3>1, <3>4, <3>5, HashIdeal DEF HashOf
    <3>7. chain[i] = b
      BY <3>1, <3>3, <3>4, <3>5, <3>6 DEF IsRow
    <3>8. ASSUME i > 0, i - 1 \notin DOMAIN chain PROVE damages > 1 /\ chain[i].prev_hash = Genesis
      <4>1. b.prev_hash = Genesis
        <5> SUFFICES ASSUME NEW c \in minted, c.index = i - 1, b.prev_hash = c.block_hash PROVE FALSE
          BY <3>4, <3>5, <3>8
        <5>1. c.block_hash = HashOf(c)
          BY DEF LedgerInv, MintedOk
        <5>2. Before(i) = c.block_hash /\ c.block_hash # Genesis
          BY <3>1, <3>6, <5>1, HashIdeal DEF HashOf
        <5> DEFINE lower == {j \in DOMAIN chain : j < i}
        <5>3. lower # {} /\ Before(i) = chain[Max(lower)].block_hash
          BY <5>2 DEF Before
        <5>4. lower \in SUBSET Nat /\ i \in Nat /\ \A j \in lower : j <= i
          BY DEF LedgerInv, LedgerTypeOK
        <5>5. \A j \in lower : j \in DOMAIN chain
          OBVIOUS
        <5> HIDE DEF lower
        <5>6. Max(lower) \in lower
          BY <5>3, <5>4, MaxOfBoundedNaturals
        <5>7. Max(lower) \in DOMAIN chain
          BY <5>5, <5>6
        <5> DEFINE m == Max(lower)
        <5>8. BlockHash(m, chain[m].timestamp, chain[m].payload_hash, chain[m].prev_hash) = HashOf(c)
          BY <3>1, <5>1, <5>2, <5>3, <5>7
        <5>9. m = i - 1
          BY <5>8, HashIdeal DEF HashOf
        <5> QED
          BY <3>8, <5>7, <5>9
      <4>2. Unlinked(b)
        BY <3>4, <3>8, <4>1 DEF Unlinked
      <4>3. ~ HashLost
        BY <3>2 DEF HashLost
      <4>4. damages > 1
        BY <4>2, <4>3 DEF LedgerInv, DamageSeen
      <4> QED
        BY <3>6, <4>1, <4>4
    <3> QED
      BY <3>7, <3>8
  <2>3. LedgerTypeOK
    BY DEF LedgerInv
  <2> QED
    BY <2>1, <2>2, <2>3 DEF ChainTells
<1> QED
  BY <1>1, LedgerInitially, LedgerKept, PTL DEF LedgerSpec

-----------------------------------------------------------------------------
(* AgenticExecution: no checkpoint is of a later step or result than the record, *)
(* and while a step executes all are of earlier ones; the memory's last id is of *)
(* a row before it.                                                              *)

EngineState == Ended \cup {"QUEUED", "PLANNING", "EXECUTING", "VALIDATING", "RECOVERY"}
EngineRecord ==
  [execution_id: Execution \cup {NoExecution}, actions: 0..MaxActions, state: EngineState,
   step: 0..MaxActions, retries: 0..MaxRetries + 1, result: 0..MaxActions, checkpoints: Seq(Checkpoint)]

\* Checkpoints that were taken up to a step and a result.
TakenOk(s, step, result) ==
  /\ \A i \in 1..Len(s) :
       /\ s[i].step <= step /\ s[i].result <= result
       /\ s[i].reason = "interval" => s[i].result = s[i].step
       /\ s[i].reason = "recovery" => s[i].result < s[i].step
       /\ i > 1 => s[i - 1].result <= s[i].result
  /\ \A i, j \in 1..Len(s) :
       s[i].reason = "recovery" /\ s[j].reason = "recovery" /\ i # j => s[i].step # s[j].step

AllBefore(s, step) == \A i \in 1..Len(s) : s[i].step < step

EngineOk ==
  /\ TakenOk(record.checkpoints, record.step, record.result) /\ record.result <= record.step
  /\ record.state = "EXECUTING" =>
       record.result < record.step /\ AllBefore(record.checkpoints, record.step)
  /\ record.retries > MaxRetries <=> record.state = "FAILED"
  /\ Running => record.state # "FAILED"

Keys == Execution \cup {"last_execution_id"}
RowsTrue ==
  /\ memories \in Seq(Keys \X (Ended \cup Execution))
  /\ \A i \in 1..Len(memories) :
       /\ memories[i][1] # "last_execution_id" => memories[i][2] \in Ended
       /\ memories[i][1] = "last_execution_id" =>
            /\ memories[i][2] \in Execution
            /\ \E j \in 1..Len(memories) : memories[j][1] = memories[i][2]

CallerOk ==
  /\ caller \in {"handle_event", "returned"} => Len(memories) + 2 <= MaxRemembered
  /\ caller = "persisting" => Len(memories) + 1 <= MaxRemembered
  /\ caller # "idle" => record.execution_id \in Execution
  /\ caller \in {"returned", "persisting"} => record.state \in Ended
  /\ caller = "persisting" => \E j \in 1..Len(memories) : memories[j][1] = record.execution_id

ExecutionInv == ExecutionTypeOK /\ EngineOk /\ RowsTrue /\ CallerOk

LEMMA EngineTypes ==
  ExecutionTypeOK <=> /\ record \in EngineRecord /\ record.state # "RECOVERY"
                      /\ caller \in {"idle", "run", "handle_event", "returned", "persisting"}
                      /\ Len(memories) <= MaxRemembered
<1>1. ExecutionTypeOK => record \in EngineRecord /\ record.state # "RECOVERY"
  BY DEF ExecutionTypeOK, EngineRecord, EngineState, Ended
<1>2. record \in EngineRecord /\ record.state # "RECOVERY" =>
        record \in [execution_id: Execution \cup {NoExecution}, actions: 0..MaxActions,
                    state: Ended \cup {"QUEUED", "PLANNING", "EXECUTING", "VALIDATING"},
                    step: 0..MaxActions, retries: 0..MaxRetries + 1,
                    result: 0..MaxActions, checkpoints: Seq(Checkpoint)]
  BY DEF EngineRecord, EngineState, Ended
<1> QED
  BY <1>1, <1>2 DEF ExecutionTypeOK

LEMMA RecordFields ==
  ASSUME NEW r \in EngineRecord
  PROVE  /\ r.execution_id \in Execution \cup {NoExecution} /\ r.state \in EngineState
         /\ r.actions \in Nat /\ r.step \in Nat /\ r.retries \in Nat /\ r.result \in Nat
         /\ r.actions <= MaxActions /\ r.step <= MaxActions /\ r.result <= MaxActions
         /\ r.retries <= MaxRetries + 1 /\ r.checkpoints \in Seq(Checkpoint)
BY ExecutionAssumption DEF EngineRecord

NewRecordOk(e, n, state, r) ==
  /\ r \in EngineRecord /\ r.execution_id = e /\ r.state = state /\ r.retries = 0
  /\ r.step = 0 /\ r.result = 0 /\ r.checkpoints = <<>>

RecordIs(r, e, n, state, step, retries, result, taken) ==
  r = [execution_id |-> e, actions |-> n, state |-> state, step |-> step,
       retries |-> retries, result |-> result, checkpoints |-> taken]

LEMMA RecordOf ==
  ASSUME NEW e, e \in Execution \cup {NoExecution}, NEW n, n \in 0..MaxActions,
         NEW state, state \in EngineState, NEW step, step \in 0..MaxActions,
         NEW retries, retries \in 0..MaxRetries + 1, NEW result, result \in 0..MaxActions,
         NEW taken, taken \in Seq(Checkpoint),
         NEW r, RecordIs(r, e, n, state, step, retries, result, taken)
  PROVE  r \in EngineRecord
BY DEF EngineRecord, RecordIs

\* A record that has just been made.
LEMMA MadeOk ==
  ASSUME NEW e, e \in Execution \cup {NoExecution}, NEW n, n \in 0..MaxActions,
         NEW state, state \in EngineState,
         NEW r, r = [NewRecord(e, n) EXCEPT !.state = state]
  PROVE  NewRecordOk(e, n, state, r)
<1> DEFINE none == <<>>
           zero == 0
<1>1. RecordIs(r, e, n, state, zero, zero, zero, none)
  BY DEF NewRecord, RecordIs
<1>2. none \in Seq(Checkpoint)
  OBVIOUS
<1>3. zero \in 0..MaxActions /\ zero \in 0..MaxRetries + 1
  BY ExecutionAssumption
<1> HIDE DEF none, zero
<1>4. /\ r.execution_id = e /\ r.state = state /\ r.retries = zero
      /\ r.step = zero /\ r.result = zero /\ r.checkpoints = none
  BY <1>1 DEF RecordIs
<1>5. r \in EngineRecord
  BY <1>1, <1>2, <1>3, RecordOf
<1> QED
  BY <1>4, <1>5 DEF NewRecordOk, none, zero

\* A checkpoint is taken: it is of the record's step and result.
LEMMA TakenMore ==
  ASSUME NEW s \in Seq(Checkpoint), NEW step \in Nat, NEW result \in Nat, TakenOk(s, step, result),
         NEW c \in Checkpoint, c.step = step, c.result = result,
         c.reason = "interval" => result = step,
         c.reason = "recovery" => result < step /\ AllBefore(s, step)
  PROVE  TakenOk(Append(s, c), step, result)
<1> DEFINE more == Append(s, c)
           n == Len(s)
<1>1. /\ n \in Nat /\ Len(more) = n + 1 /\ more[n + 1] = c
      /\ \A i \in 1..n : more[i] = s[i] /\ s[i] \in Checkpoint
  OBVIOUS
<1> HIDE DEF more, n
<1>2. \A i \in 1..n : s[i].step \in Int /\ s[i].result \in Int
  <2> SUFFICES ASSUME NEW i \in 1..n PROVE s[i].step \in Int /\ s[i].result \in Int
    OBVIOUS
  <2>1. s[i] \in Checkpoint
    BY <1>1
  <2> QED
    BY <2>1, ExecutionAssumption DEF Checkpoint
<1>3. \A i \in 1..n :
        /\ s[i].step <= step /\ s[i].result <= result
        /\ s[i].reason = "interval" => s[i].result = s[i].step
        /\ s[i].reason = "recovery" => s[i].result < s[i].step
        /\ i > 1 => s[i - 1].result <= s[i].result
  BY DEF TakenOk, n
<1>4. \A i, j \in 1..n :
        s[i].reason = "recovery" /\ s[j].reason = "recovery" /\ i # j => s[i].step # s[j].step
  BY DEF TakenOk, n
<1>5. ASSUME NEW i \in 1..n + 1
      PROVE  /\ more[i].step <= step /\ more[i].result <= result
             /\ more[i].reason = "interval" => more[i].result = more[i].step
             /\ more[i].reason = "recovery" => more[i].result < more[i].step
             /\ i > 1 => more[i - 1].result <= more[i].result
  <2>1. CASE i \in 1..n
    <3>1. more[i] = s[i] /\ (i > 1 => more[i - 1] = s[i - 1])
      BY <1>1, <2>1
    <3> QED
      BY <1>3, <2>1, <3>1
  <2>2. CASE i = n + 1
    <3>1. more[i] = c
      BY <1>1, <2>2
    <3>2. i > 1 => more[i - 1] = s[n] /\ n \in 1..n
      BY <1>1, <2>2
    <3>3. i > 1 => more[i - 1].result <= result
      BY <1>3, <3>2
    <3> QED
      BY <3>1, <3>3
  <2> QED
    BY <1>1, <2>1, <2>2
<1>6. ASSUME NEW i \in 1..n + 1, NEW j \in 1..n + 1,
             more[i].reason = "recovery", more[j].reason = "recovery", i # j
      PROVE  more[i].step # more[j].step
  <2>1. ASSUME NEW k \in 1..n, s[k].step = c.step, c.reason = "recovery" PROVE FALSE
    <3>1. s[k].step < step
      BY <2>1 DEF AllBefore, n
    <3> QED
      BY <1>2, <2>1, <3>1
  <2>2. CASE i \in 1..n /\ j \in 1..n
    <3>1. more[i] = s[i] /\ more[j] = s[j]
      BY <1>1, <2>2
    <3> QED
      BY <1>4, <1>6, <2>2, <3>1
  <2>3. CASE i \in 1..n /\ j = n + 1
    <3>1. more[i] = s[i] /\ more[j] = c
      BY <1>1, <2>3
    <3> QED
      BY <1>6, <2>1, <2>3, <3>1
  <2>4. CASE i = n + 1 /\ j \in 1..n
    <3>1. more[j] = s[j] /\ more[i] = c
      BY <1>1, <2>4
    <3> QED
      BY <1>6, <2>1, <2>4, <3>1
  <2> QED
    BY <1>1, <1>6, <2>2, <2>3, <2>4
<1>7. TakenOk(more, step, result)
  BY <1>1, <1>5, <1>6 DEF TakenOk
<1> QED
  BY <1>7 DEF more

LEMMA CheckpointTaken ==
  ASSUME NEW r \in EngineRecord, NEW reason \in {"interval", "recovery", "completed"},
         TakenOk(r.checkpoints, r.step, r.result), r.result <= r.step,
         reason = "interval" => r.result = r.step,
         reason = "recovery" => r.result < r.step /\ AllBefore(r.checkpoints, r.step),
         NEW q, q = _checkpoint(r, reason)
  PROVE  /\ q \in EngineRecord /\ q.state = "CHECKPOINTED" /\ q.step = r.step /\ q.result = r.result
         /\ q.retries = r.retries /\ q.execution_id = r.execution_id
         /\ TakenOk(q.checkpoints, q.step, q.result)
<1> DEFINE c == [step |-> r.step, reason |-> reason, result |-> r.result]
           taken == Append(r.checkpoints, c)
<1>1. /\ c \in Checkpoint /\ c.step = r.step /\ c.result = r.result /\ c.reason = reason
      /\ r.step \in Nat /\ r.result \in Nat
  BY RecordFields, ExecutionAssumption DEF Checkpoint
<1>2. r.checkpoints \in Seq(Checkpoint)
  BY RecordFields
<1>3. q = [r EXCEPT !.state = "CHECKPOINTED", !.checkpoints = taken]
  BY DEF _checkpoint
<1> HIDE DEF c
<1>4. taken \in Seq(Checkpoint)
  BY <1>1, <1>2
<1>5. TakenOk(taken, r.step, r.result)
  BY <1>1, <1>2, TakenMore
<1> HIDE DEF taken
<1>6. "CHECKPOINTED" \in EngineState
  BY DEF EngineState, Ended
<1>7. /\ q \in EngineRecord /\ q.state = "CHECKPOINTED" /\ q.step = r.step /\ q.result = r.result
      /\ q.retries = r.retries /\ q.execution_id = r.execution_id /\ q.checkpoints = taken
  BY <1>3, <1>4, <1>6 DEF EngineRecord
<1> QED
  BY <1>5, <1>7

LEMMA ExecutionInitially == ExecutionInit => ExecutionInv
<1> SUFFICES ASSUME ExecutionInit PROVE ExecutionInv
  OBVIOUS
<1>1. record = NewRecord(NoExecution, 0) /\ caller = "idle" /\ memories = <<>>
  BY DEF ExecutionInit
<1>2. NewRecordOk(NoExecution, 0, "QUEUED", record)
  <2>1. 0 \in 0..MaxActions /\ "QUEUED" \in EngineState /\ NoExecution \in Execution \cup {NoExecution}
    BY ExecutionAssumption DEF EngineState
  <2>2. record = [NewRecord(NoExecution, 0) EXCEPT !.state = "QUEUED"]
    BY <1>1 DEF NewRecord
  <2> QED
    BY <2>1, <2>2, MadeOk
<1>4. /\ record \in EngineRecord /\ record.state = "QUEUED" /\ record.retries = 0
      /\ record.step = 0 /\ record.result = 0 /\ record.checkpoints = <<>>
  BY <1>2 DEF NewRecordOk
<1>5. Len(memories) = 0 /\ memories \in Seq(Keys \X (Ended \cup Execution))
  BY <1>1
<1>6. ExecutionTypeOK
  BY <1>1, <1>4, <1>5, EngineTypes, ExecutionAssumption
<1>7. EngineOk
  <2>1. Len(record.checkpoints) = 0
    BY <1>4
  <2>2. TakenOk(record.checkpoints, record.step, record.result)
    BY <2>1 DEF TakenOk
  <2> QED
    BY <1>4, <2>2, ExecutionAssumption DEF EngineOk
<1>8. RowsTrue /\ CallerOk
  BY <1>1, <1>5 DEF RowsTrue, CallerOk
<1> QED
  BY <1>6, <1>7, <1>8 DEF ExecutionInv

\* A run begins with a record of no step.
LEMMA RunBegins ==
  ASSUME ExecutionInv, caller = "idle", UNCHANGED memories,
         NEW e \in Execution, NEW n \in 0..MaxActions, NEW state \in {"PLANNING", "COMPLETED"},
         record' = [NewRecord(e, n) EXCEPT !.state = state],
         \/ caller' = "idle" \/ caller' = "run"
         \/ caller' = "handle_event" /\ Len(memories) + 2 <= MaxRemembered
  PROVE  ExecutionInv'
<1>1. state \in EngineState \ {"EXECUTING", "FAILED"} /\ e \in Execution \cup {NoExecution}
  BY DEF EngineState, Ended
<1>2. /\ record' \in EngineRecord /\ record'.state = state /\ record'.retries = 0
      /\ record'.step = 0 /\ record'.result = 0 /\ record'.checkpoints = <<>>
      /\ record'.execution_id = e
  <2>1. NewRecordOk(e, n, state, record')
    BY <1>1, MadeOk
  <2> QED
    BY <2>1 DEF NewRecordOk
<1>3. ExecutionTypeOK'
  <2>1. Len(memories) <= MaxRemembered
    BY EngineTypes DEF ExecutionInv
  <2> QED
    BY <1>2, <2>1 DEF ExecutionTypeOK, EngineRecord, EngineState, Ended
<1>4. EngineOk'
  <2>1. Len(record'.checkpoints) = 0
    BY <1>2
  <2>2. TakenOk(record'.checkpoints, record'.step, record'.result)
    BY <2>1 DEF TakenOk
  <2> QED
    BY <1>2, <2>2, ExecutionAssumption DEF EngineOk
<1>5. RowsTrue'
  BY DEF ExecutionInv, RowsTrue
<1>6. CallerOk'
  BY <1>2 DEF CallerOk
<1> QED
  BY <1>3, <1>4, <1>5, <1>6 DEF ExecutionInv

\* The engine's record changes while the engine runs, or as it returns.
LEMMA EngineStep ==
  ASSUME ExecutionInv, Running, UNCHANGED memories, EngineOk',
         record' \in EngineRecord, record'.state # "RECOVERY", record'.execution_id = record.execution_id,
         \/ caller' = caller
         \/ Returned /\ record'.state \in Ended
  PROVE  ExecutionInv'
<1>1. /\ caller \in {"run", "handle_event"} /\ record.execution_id \in Execution
      /\ caller = "handle_event" => Len(memories) + 2 <= MaxRemembered
      /\ Len(memories) <= MaxRemembered
  BY EngineTypes DEF ExecutionInv, CallerOk, Running
<1>2. \/ caller' = caller
      \/ record'.state \in Ended /\ caller = "run" /\ caller' = "idle"
      \/ record'.state \in Ended /\ caller = "handle_event" /\ caller' = "returned"
  BY <1>1 DEF Returned
<1>3. ExecutionTypeOK'
  BY <1>1, <1>2 DEF ExecutionTypeOK, EngineRecord, EngineState, Ended
<1>4. RowsTrue'
  BY DEF ExecutionInv, RowsTrue
<1>5. CallerOk'
  BY <1>1, <1>2 DEF CallerOk
<1> QED
  BY <1>3, <1>4, <1>5 DEF ExecutionInv

\* A row is written: of an ended execution, or the id of one that has a row.
LEMMA RowWritten ==
  ASSUME ExecutionInv, UNCHANGED record, NEW key \in Keys, NEW value \in Ended \cup Execution,
         remember(key, value), caller' \in {"idle", "persisting"},
         key # "last_execution_id" => value \in Ended,
         key = "last_execution_id" =>
           value \in Execution /\ \E j \in 1..Len(memories) : memories[j][1] = value,
         Len(memories) + 1 <= MaxRemembered,
         caller' = "persisting" => /\ key = record.execution_id /\ record.execution_id \in Execution
                                   /\ record.state \in Ended /\ Len(memories) + 2 <= MaxRemembered
  PROVE  ExecutionInv'
<1> DEFINE Rows == Keys \X (Ended \cup Execution)
           row == <<key, value>>
           n == Len(memories)
<1>1. memories \in Seq(Rows) /\ row \in Rows /\ memories' = Append(memories, row)
      /\ row[1] = key /\ row[2] = value
  BY DEF ExecutionInv, RowsTrue, remember
<1> HIDE DEF Rows, row
<1>2. /\ memories' \in Seq(Rows) /\ n \in Nat /\ Len(memories') = n + 1 /\ memories'[n + 1] = row
      /\ \A i \in 1..n : memories'[i] = memories[i]
  BY <1>1
<1> HIDE DEF n
<1>3. ASSUME NEW i \in 1..n + 1
      PROVE  /\ memories'[i][1] # "last_execution_id" => memories'[i][2] \in Ended
             /\ memories'[i][1] = "last_execution_id" =>
                  /\ memories'[i][2] \in Execution
                  /\ \E j \in 1..n + 1 : memories'[j][1] = memories'[i][2]
  <2>1. \A j \in 1..n : j \in 1..n + 1 /\ memories'[j] = memories[j]
    BY <1>2
  <2>2. CASE i = n + 1
    <3>1. memories'[i][1] = key /\ memories'[i][2] = value
      BY <1>1, <1>2, <2>2
    <3>2. key = "last_execution_id" => \E j \in 1..n + 1 : memories'[j][1] = value
      BY <2>1 DEF n
    <3> QED
      BY <3>1, <3>2
  <2>3. CASE i \in 1..n
    <3>1. /\ memories[i][1] # "last_execution_id" => memories[i][2] \in Ended
          /\ memories[i][1] = "last_execution_id" =>
               /\ memories[i][2] \in Execution
               /\ \E j \in 1..n : memories[j][1] = memories[i][2]
      BY <2>3 DEF ExecutionInv, RowsTrue, n
    <3>2. memories'[i] = memories[i]
      BY <2>1, <2>3
    <3> QED
      BY <2>1, <3>1, <3>2
  <2> QED
    BY <1>2, <2>2, <2>3
<1>4. RowsTrue'
  BY <1>2, <1>3 DEF RowsTrue, Rows
<1>5. ExecutionTypeOK'
  BY <1>2 DEF ExecutionInv, ExecutionTypeOK, n
<1>6. EngineOk'
  BY DEF ExecutionInv, EngineOk, Running
<1>7. CallerOk'
  <2>1. n + 1 \in 1..Len(memories') /\ memories'[n + 1][1] = key
    BY <1>1, <1>2
  <2>2. Len(memories') = Len(memories) + 1 /\ Len(memories) \in Nat
    BY <1>2 DEF n
  <2> QED
    BY <2>1, <2>2, ExecutionAssumption DEF CallerOk
<1> QED
  BY <1>4, <1>5, <1>6, <1>7 DEF ExecutionInv

LEMMA TakenLater ==
  ASSUME NEW s \in Seq(Checkpoint), NEW step \in Int, NEW result \in Int, TakenOk(s, step, result),
         NEW later \in Int, step <= later, NEW newer \in Int, result <= newer
  PROVE  TakenOk(s, later, newer) /\ (step < later => AllBefore(s, later))
<1>1. \A i \in 1..Len(s) : s[i].step \in Int /\ s[i].result \in Int
  <2> SUFFICES ASSUME NEW i \in 1..Len(s) PROVE s[i].step \in Int /\ s[i].result \in Int
    OBVIOUS
  <2>1. s[i] \in Checkpoint
    OBVIOUS
  <2> QED
    BY <2>1, ExecutionAssumption DEF Checkpoint
<1>2. \A i \in 1..Len(s) : s[i].step <= step /\ s[i].result <= result
  BY DEF TakenOk
<1>3. \A i \in 1..Len(s) :
        s[i].step <= later /\ s[i].result <= newer /\ (step < later => s[i].step < later)
  BY <1>1, <1>2
<1> QED
  BY <1>3 DEF TakenOk, AllBefore

LEMMA EngineFacts ==
  ASSUME ExecutionInv, Running
  PROVE  /\ record \in EngineRecord /\ record.state # "RECOVERY" /\ record.state # "FAILED"
         /\ TakenOk(record.checkpoints, record.step, record.result)
         /\ record.result <= record.step /\ record.retries <= MaxRetries
         /\ record.state = "EXECUTING" =>
              record.result < record.step /\ AllBefore(record.checkpoints, record.step)
<1>1. record \in EngineRecord /\ record.state # "RECOVERY"
  BY EngineTypes DEF ExecutionInv
<1>2. record.retries \in Nat
  BY <1>1, RecordFields
<1> QED
  BY <1>1, <1>2, ExecutionAssumption DEF ExecutionInv, EngineOk

LEMMA ActionStartsKept == ExecutionInv /\ ActionStarts => ExecutionInv'
<1> SUFFICES ASSUME ExecutionInv, ActionStarts PROVE ExecutionInv'
  OBVIOUS
<1> USE DEF ActionStarts, MoreActions
<1> DEFINE next == record.step + 1
<1>1. record' = [record EXCEPT !.state = "EXECUTING", !.step = next]
  OBVIOUS
<1>2. /\ record.step \in Nat /\ record.result \in Nat /\ record.retries \in Nat
      /\ record.checkpoints \in Seq(Checkpoint) /\ next \in 0..MaxActions
  BY EngineFacts, RecordFields, ExecutionAssumption
<1>3. record.step < next /\ record.step <= next /\ record.result < next /\ next \in Int
  BY <1>2, EngineFacts
<1> HIDE DEF next
<1>4. TakenOk(record.checkpoints, next, record.result) /\ AllBefore(record.checkpoints, next)
  <2>1. record.result <= record.result /\ record.step \in Int /\ record.result \in Int
    BY <1>2
  <2> QED
    BY <1>2, <1>3, <2>1, EngineFacts, TakenLater
<1>5. /\ record' \in EngineRecord /\ record'.state = "EXECUTING" /\ record'.step = next
      /\ record'.result = record.result /\ record'.retries = record.retries
      /\ record'.checkpoints = record.checkpoints /\ record'.execution_id = record.execution_id
  <2>1. "EXECUTING" \in EngineState
    BY DEF EngineState
  <2> QED
    BY <1>1, <1>2, <2>1, EngineFacts DEF EngineRecord
<1>6. EngineOk'
  BY <1>2, <1>3, <1>4, <1>5, EngineFacts, ExecutionAssumption DEF EngineOk
<1> QED
  BY <1>5, <1>6, EngineStep

LEMMA EscalateKept == ExecutionInv /\ _escalate => ExecutionInv'
<1> SUFFICES ASSUME ExecutionInv, _escalate PROVE ExecutionInv'
  OBVIOUS
<1> USE DEF _escalate, MoreActions
<1>1. "ESCALATED" \in EngineState /\ "ESCALATED" \in Ended
  BY DEF EngineState, Ended
<1>2. /\ record' \in EngineRecord /\ record'.state = "ESCALATED" /\ record'.step = record.step
      /\ record'.result = record.result /\ record'.retries = record.retries
      /\ record'.checkpoints = record.checkpoints /\ record'.execution_id = record.execution_id
  BY <1>1, EngineFacts DEF EngineRecord
<1>3. record.retries \in Nat
  BY EngineFacts, RecordFields
<1>4. EngineOk'
  BY <1>2, <1>3, EngineFacts, ExecutionAssumption DEF EngineOk
<1> QED
  BY <1>1, <1>2, <1>4, EngineStep

LEMMA ActionPassesKept == ExecutionInv /\ ActionPasses => ExecutionInv'
<1> SUFFICES ASSUME ExecutionInv, ActionPasses PROVE ExecutionInv'
  OBVIOUS
<1> USE DEF ActionPasses
<1> DEFINE r == [record EXCEPT !.state = "VALIDATING", !.result = record.step]
<1>1. record' = _checkpoint_if_due(r)
  OBVIOUS
<1>2. /\ record.step \in Nat /\ record.result \in Nat /\ record.retries \in Nat
      /\ record.checkpoints \in Seq(Checkpoint) /\ record.step \in 0..MaxActions
  BY EngineFacts, RecordFields, ExecutionAssumption
<1>3. /\ r \in EngineRecord /\ r.state = "VALIDATING" /\ r.step = record.step /\ r.result = record.step
      /\ r.retries = record.retries /\ r.checkpoints = record.checkpoints
      /\ r.execution_id = record.execution_id
  <2>1. "VALIDATING" \in EngineState
    BY DEF EngineState
  <2> QED
    BY <1>2, <2>1, EngineFacts DEF EngineRecord
<1> HIDE DEF r
<1>4. TakenOk(r.checkpoints, r.step, r.result) /\ r.result = r.step /\ r.result <= r.step
  <2>1. /\ record.step <= record.step /\ record.result <= record.step
        /\ record.step \in Int /\ record.result \in Int
    BY <1>2, EngineFacts
  <2>2. TakenOk(record.checkpoints, record.step, record.step)
    BY <1>2, <2>1, EngineFacts, TakenLater
  <2> QED
    BY <1>2, <1>3, <2>2
<1>5. \/ record' = r
      \/ record' = _checkpoint(r, "interval")
  BY <1>1 DEF _checkpoint_if_due
<1>6. CASE record' = r
  <2>1. EngineOk'
    BY <1>2, <1>3, <1>4, <1>6, EngineFacts, ExecutionAssumption DEF EngineOk
  <2> QED
    BY <1>3, <1>6, <2>1, EngineStep
<1>7. CASE record' = _checkpoint(r, "interval")
  <2>1. /\ record' \in EngineRecord /\ record'.state = "CHECKPOINTED" /\ record'.step = r.step
        /\ record'.result = r.result /\ record'.retries = r.retries
        /\ record'.execution_id = r.execution_id
        /\ TakenOk(record'.checkpoints, record'.step, record'.result)
    BY <1>3, <1>4, <1>7, CheckpointTaken
  <2>2. EngineOk'
    BY <1>2, <1>3, <1>4, <2>1, EngineFacts, ExecutionAssumption DEF EngineOk
  <2> QED
    BY <1>3, <2>1, <2>2, EngineStep
<1> QED
  BY <1>5, <1>6, <1>7

LEMMA ActionFailsKept == ExecutionInv /\ ActionFails => ExecutionInv'
<1> SUFFICES ASSUME ExecutionInv, ActionFails PROVE ExecutionInv'
  OBVIOUS
<1> USE DEF ActionFails
<1> DEFINE more == record.retries + 1
           r == [record EXCEPT !.retries = more]
<1>1. /\ record.step \in Nat /\ record.result \in Nat /\ record.retries \in Nat
      /\ more \in 0..MaxRetries + 1 /\ more \in Nat
  BY EngineFacts, RecordFields, ExecutionAssumption
<1>2. /\ r.retries = more
      /\ \/ more > MaxRetries /\ record' = [r EXCEPT !.state = "FAILED"] /\ Returned
         \/ /\ ~(more > MaxRetries) /\ caller' = caller
            /\ record' = _checkpoint([r EXCEPT !.state = "RECOVERY"], "recovery")
  <2>1. r.retries = more
    BY EngineFacts DEF EngineRecord
  <2> QED
    BY <2>1
<1> HIDE DEF more
<1>3. /\ r \in EngineRecord /\ r.step = record.step /\ r.result = record.result
      /\ r.checkpoints = record.checkpoints /\ r.execution_id = record.execution_id
  BY <1>1, EngineFacts DEF EngineRecord
<1> HIDE DEF r
<1>4. CASE more > MaxRetries /\ record' = [r EXCEPT !.state = "FAILED"] /\ Returned
  <2>1. "FAILED" \in EngineState /\ "FAILED" \in Ended
    BY DEF EngineState, Ended
  <2>2. /\ record' \in EngineRecord /\ record'.state = "FAILED" /\ record'.step = r.step
        /\ record'.result = r.result /\ record'.retries = more
        /\ record'.checkpoints = r.checkpoints /\ record'.execution_id = r.execution_id
    BY <1>2, <1>3, <1>4, <2>1 DEF EngineRecord
  <2>3. ~Running'
    BY <1>4 DEF Returned, Running
  <2>4. EngineOk'
    BY <1>3, <1>4, <2>2, <2>3, EngineFacts, ExecutionAssumption DEF EngineOk
  <2> QED
    BY <1>3, <1>4, <2>1, <2>2, <2>4, EngineStep
<1>5. CASE /\ ~(more > MaxRetries) /\ caller' = caller
           /\ record' = _checkpoint([r EXCEPT !.state = "RECOVERY"], "recovery")
  <2> DEFINE q == [r EXCEPT !.state = "RECOVERY"]
  <2>1. /\ q \in EngineRecord /\ q.step = r.step /\ q.result = r.result /\ q.retries = more
        /\ q.checkpoints = r.checkpoints /\ q.execution_id = r.execution_id
    <3>1. "RECOVERY" \in EngineState
      BY DEF EngineState
    <3> QED
      BY <1>2, <1>3, <3>1 DEF EngineRecord
  <2>2. record' = _checkpoint(q, "recovery")
    BY <1>5
  <2> HIDE DEF q
  <2>3. /\ TakenOk(q.checkpoints, q.step, q.result) /\ q.result <= q.step /\ q.result < q.step
        /\ AllBefore(q.checkpoints, q.step)
    BY <1>3, <2>1, EngineFacts
  <2>4. /\ record' \in EngineRecord /\ record'.state = "CHECKPOINTED" /\ record'.step = q.step
        /\ record'.result = q.result /\ record'.retries = q.retries
        /\ record'.execution_id = q.execution_id
        /\ TakenOk(record'.checkpoints, record'.step, record'.result)
    BY <2>1, <2>2, <2>3, CheckpointTaken
  <2>5. EngineOk'
    BY <1>1, <1>3, <1>5, <2>1, <2>3, <2>4, ExecutionAssumption DEF EngineOk
  <2> QED
    BY <1>3, <1>5, <2>1, <2>4, <2>5, EngineStep
<1> QED
  BY <1>2, <1>4, <1>5

LEMMA RunEndsKept == ExecutionInv /\ RunEnds => ExecutionInv'
<1> SUFFICES ASSUME ExecutionInv, RunEnds PROVE ExecutionInv'
  OBVIOUS
<1> USE DEF RunEnds
<1> DEFINE r == [record EXCEPT !.state = "COMPLETED"]
<1>1. record' = _checkpoint(r, "completed")
  OBVIOUS
<1>2. /\ r \in EngineRecord /\ r.step = record.step /\ r.result = record.result
      /\ r.retries = record.retries /\ r.checkpoints = record.checkpoints
      /\ r.execution_id = record.execution_id
  <2>1. "COMPLETED" \in EngineState
    BY DEF EngineState, Ended
  <2> QED
    BY <2>1, EngineFacts DEF EngineRecord
<1> HIDE DEF r
<1>3. TakenOk(r.checkpoints, r.step, r.result) /\ r.result <= r.step
  BY <1>2, EngineFacts
<1>4. /\ record' \in EngineRecord /\ record'.state = "CHECKPOINTED" /\ record'.step = r.step
      /\ record'.result = r.result /\ record'.retries = r.retries
      /\ record'.execution_id = r.execution_id
      /\ TakenOk(record'.checkpoints, record'.step, record'.result)
  BY <1>1, <1>2, <1>3, CheckpointTaken
<1>5. record.retries \in Nat
  BY EngineFacts, RecordFields
<1>6. EngineOk'
  BY <1>2, <1>3, <1>4, <1>5, EngineFacts, ExecutionAssumption DEF EngineOk
<1>7. "CHECKPOINTED" \in Ended
  BY DEF Ended
<1> QED
  BY <1>2, <1>4, <1>6, <1>7, EngineStep

LEMMA HandleEventKept ==
  ASSUME ExecutionInv, NEW e \in Execution, handle_event(e) PROVE ExecutionInv'
<1>1. 1 \in 0..MaxActions
  BY ExecutionAssumption
<1> QED
  BY <1>1, RunBegins DEF handle_event

LEMMA RunKept ==
  ASSUME ExecutionInv, NEW e \in Execution, NEW n \in 0..MaxActions, run(e, n) PROVE ExecutionInv'
<1>1. CASE n = 0
  BY <1>1, RunBegins DEF run
<1>2. CASE n # 0
  BY <1>2, RunBegins DEF run
<1> QED
  BY <1>1, <1>2

LEMMA RecordPersistedKept == ExecutionInv /\ RecordPersisted => ExecutionInv'
<1> SUFFICES ASSUME ExecutionInv, RecordPersisted PROVE ExecutionInv'
  OBVIOUS
<1> DEFINE key == record.execution_id
           value == record.state
           n == Len(memories)
<1>1. /\ key \in Execution /\ value \in Ended /\ n + 2 <= MaxRemembered /\ n \in Nat
      /\ record.execution_id \in Execution /\ record.state \in Ended
  BY DEF ExecutionInv, CallerOk, RecordPersisted, RowsTrue
<1>2. key \in Keys /\ value \in Ended \cup Execution /\ key # "last_execution_id"
  BY <1>1, ExecutionAssumption DEF Keys
<1>3. n + 1 <= MaxRemembered
  BY <1>1, ExecutionAssumption
<1>4. remember(key, value) /\ caller' = "persisting" /\ UNCHANGED record /\ key = record.execution_id
  BY DEF RecordPersisted
<1>5. Len(memories) + 1 <= MaxRemembered /\ Len(memories) + 2 <= MaxRemembered
  BY <1>1, <1>3
<1> HIDE DEF key, value, n
<1> QED
  BY <1>1, <1>2, <1>4, <1>5, RowWritten

LEMMA LastIdPersistedKept == ExecutionInv /\ LastIdPersisted => ExecutionInv'
<1> SUFFICES ASSUME ExecutionInv, LastIdPersisted PROVE ExecutionInv'
  OBVIOUS
<1> DEFINE key == "last_execution_id"
           value == record.execution_id
<1>1. /\ value \in Execution /\ Len(memories) + 1 <= MaxRemembered
      /\ \E j \in 1..Len(memories) : memories[j][1] = value
  BY DEF ExecutionInv, CallerOk, LastIdPersisted
<1>2. key \in Keys /\ value \in Ended \cup Execution /\ key = "last_execution_id"
  BY <1>1 DEF Keys
<1>3. remember(key, value) /\ caller' = "idle" /\ UNCHANGED record
  BY DEF LastIdPersisted
<1> HIDE DEF key, value
<1> QED
  BY <1>1, <1>2, <1>3, RowWritten

LEMMA ProcessDiesKept == ExecutionInv /\ ProcessDies => ExecutionInv'
<1> SUFFICES ASSUME ExecutionInv, ProcessDies PROVE ExecutionInv'
  OBVIOUS
<1>1. NewRecordOk(NoExecution, 0, "QUEUED", record')
  <2>1. 0 \in 0..MaxActions /\ "QUEUED" \in EngineState /\ NoExecution \in Execution \cup {NoExecution}
    BY ExecutionAssumption DEF EngineState
  <2>2. record' = [NewRecord(NoExecution, 0) EXCEPT !.state = "QUEUED"]
    BY DEF ProcessDies, NewRecord
  <2> QED
    BY <2>1, <2>2, MadeOk
<1>2. /\ record' \in EngineRecord /\ record'.state = "QUEUED" /\ record'.retries = 0
      /\ record'.step = 0 /\ record'.result = 0 /\ record'.checkpoints = <<>>
  BY <1>1 DEF NewRecordOk
<1>3. caller' = "idle" /\ memories' = memories
  BY DEF ProcessDies
<1>4. ExecutionTypeOK'
  <2>1. Len(memories) <= MaxRemembered
    BY EngineTypes DEF ExecutionInv
  <2> QED
    BY <1>2, <1>3, <2>1 DEF ExecutionTypeOK, EngineRecord, EngineState, Ended
<1>5. EngineOk'
  <2>1. Len(record'.checkpoints) = 0
    BY <1>2
  <2>2. TakenOk(record'.checkpoints, record'.step, record'.result)
    BY <2>1 DEF TakenOk
  <2> QED
    BY <1>2, <2>2, ExecutionAssumption DEF EngineOk
<1>6. RowsTrue' /\ CallerOk'
  BY <1>3 DEF ExecutionInv, RowsTrue, CallerOk
<1> QED
  BY <1>4, <1>5, <1>6 DEF ExecutionInv

LEMMA ExecutionKept == ExecutionInv /\ [ExecutionNext]_executionVars => ExecutionInv'
<1> SUFFICES ASSUME ExecutionInv, [ExecutionNext]_executionVars PROVE ExecutionInv'
  OBVIOUS
<1>1. CASE UNCHANGED executionVars
  <2>1. record' = record /\ caller' = caller /\ memories' = memories
    BY <1>1 DEF executionVars
  <2>2. ExecutionTypeOK' /\ EngineOk' /\ RowsTrue' /\ CallerOk'
    BY <2>1 DEF ExecutionInv, ExecutionTypeOK, EngineOk, RowsTrue, CallerOk, Running
  <2> QED
    BY <2>2 DEF ExecutionInv
<1> QED
  BY <1>1, HandleEventKept, RunKept, EscalateKept, ActionStartsKept, ActionPassesKept, ActionFailsKept,
     RunEndsKept, RecordPersistedKept, LastIdPersistedKept, ProcessDiesKept DEF ExecutionNext

\* What is recalled of a key is the value of one of its rows.
LEMMA RecallsARow ==
  ASSUME NEW rows \in Seq(Keys \X (Ended \cup Execution)), rows = memories,
         NEW key, NEW j \in 1..Len(rows), rows[j][1] = key
  PROVE  \E i \in 1..Len(rows) : rows[i][1] = key /\ recall(key) = rows[i][2]
<1> DEFINE n == Len(rows)
           ids == {i \in 1..n : rows[i][1] = key}
           latest == CHOOSE i \in ids : \A k \in ids : k <= i
<1>1. n \in Nat /\ DOMAIN rows = 1..n /\ j \in ids
  OBVIOUS
<1>2. recall(key) = rows[latest][2]
  <2>1. ids = {i \in DOMAIN memories : memories[i][1] = key}
    BY <1>1
  <2>2. ids # {}
    BY <1>1
  <2> QED
    BY <2>1, <2>2 DEF recall
<1>3. ids \in SUBSET Nat /\ ids # {} /\ \A i \in ids : i <= n
  BY <1>1
<1> HIDE DEF n
<1>4. latest \in ids
  <2> HIDE DEF ids
  <2>1. Max(ids) \in ids /\ \A i \in ids : i <= Max(ids)
    BY <1>1, <1>3, MaxOfBoundedNaturals
  <2> QED
    BY <2>1
<1>5. latest \in 1..n /\ rows[latest][1] = key
  BY <1>4
<1> QED
  BY <1>2, <1>5 DEF n

\* The checkpoints of an execution hold what had been validated when they were
\* taken, and the memory's last id is that of an execution that ended and can be
\* recalled, whatever failed and whenever the process died.
THEOREM ExecutionsAreTold == ExecutionSpec => []ExecutionsTold
<1>1. ExecutionInv => CheckpointsSound
  <2> SUFFICES ASSUME ExecutionInv PROVE CheckpointsSound
    OBVIOUS
  <2>1. record.checkpoints \in Seq(Checkpoint)
    BY EngineTypes, RecordFields DEF ExecutionInv
  <2>2. DOMAIN record.checkpoints = 1..Len(record.checkpoints)
    BY <2>1
  <2> QED
    BY <2>2 DEF ExecutionInv, EngineOk, TakenOk, CheckpointsSound
<1>2. ExecutionInv => LastIdRecorded
  <2> DEFINE e == recall("last_execution_id")
             rows == memories
             n == Len(rows)
  <2> SUFFICES ASSUME ExecutionInv, e # NoExecution PROVE recall(e) \in Ended
    BY DEF LastIdRecorded
  <2>1. /\ rows \in Seq(Keys \X (Ended \cup Execution)) /\ rows = memories
        /\ \A i \in 1..n :
             /\ rows[i][1] # "last_execution_id" => rows[i][2] \in Ended
             /\ rows[i][1] = "last_execution_id" =>
                  /\ rows[i][2] \in Execution
                  /\ \E j \in 1..n : rows[j][1] = rows[i][2]
    BY DEF ExecutionInv, RowsTrue
  <2>2. PICK j \in 1..n : rows[j][1] = "last_execution_id"
    <3>1. DOMAIN memories = 1..n
      BY <2>1
    <3> QED
      BY <3>1 DEF recall
  <2>3. \E i \in 1..n : rows[i][1] = "last_execution_id" /\ e = rows[i][2]
    <3> DEFINE key == "last_execution_id"
    <3>1. rows[j][1] = key
      BY <2>2
    <3> HIDE DEF key, rows
    <3>2. \E i \in 1..n : rows[i][1] = key /\ recall(key) = rows[i][2]
      BY <2>1, <3>1, RecallsARow
    <3> QED
      BY <3>2 DEF key, rows
  <2> HIDE DEF e, rows
  <2>4. e \in Execution /\ \E i \in 1..n : rows[i][1] = e
    BY <2>1, <2>3
  <2>5. \E i \in 1..n : rows[i][1] = e /\ recall(e) = rows[i][2]
    BY <2>1, <2>4, RecallsARow
  <2>6. e # "last_execution_id"
    BY <2>4, ExecutionAssumption
  <2> QED
    BY <2>1, <2>5, <2>6
<1>3. ExecutionInv => ExecutionsTold
  BY <1>1, <1>2 DEF ExecutionsTold, ExecutionInv
<1> QED
  BY <1>3, ExecutionInitially, ExecutionKept, PTL DEF ExecutionSpec

-----------------------------------------------------------------------------
(* KnowledgeGovernance: what a conflict's record says of its claims, what was    *)
(* decided on it, and what each record of the audit continues.                   *)

Conflict == [claims: SUBSET Knowledge, resolution: Resolution, selected: Knowledge \cup {NoKnowledge}]
AuditRow == [signal: Signal, previous: TrustState, new: TrustState]

\* Claims that were found consistent have one value.
ConflictOk(c) ==
  /\ c.resolution # "none"
  /\ c.resolution = "consistent" => \A k, l \in c.claims : Value[k] = Value[l]

\* What was decided in this round was a claim of its conflict, and is trusted only
\* if that was consistent or preferred it.
RoundOk ==
  /\ conflicts = <<>> => decided = {}
  /\ conflicts # <<>> => \A k \in decided :
       /\ k \in Last(conflicts).claims
       /\ trust[k] = "trusted" => \/ Last(conflicts).resolution = "consistent"
                                  \/ /\ Last(conflicts).resolution = "prefer_supported"
                                     /\ Last(conflicts).selected = k

\* The state v is what the rows 1..n of s leave of k.
Leaves(s, n, k, v) ==
  \/ v = "pending" /\ \A j \in 1..n : s[j].signal.knowledge_id # k
  \/ \E j \in 1..n : /\ s[j].signal.knowledge_id = k /\ s[j].new = v
                     /\ \A h \in j + 1..n : s[h].signal.knowledge_id # k

RowOk(s, i) ==
  /\ replay(s[i])
  /\ s[i].new = "trusted" =>
       /\ evaluate(s[i].signal) = "trusted"
       /\ s[i].signal.resolution # "none" => evaluate_conflict(s[i].signal) = "trusted"
  /\ Leaves(s, i - 1, s[i].signal.knowledge_id, s[i].previous)

GovernanceInv ==
  /\ ScoresTypeOK /\ trust \in [Knowledge -> TrustState] /\ decided \subseteq Knowledge
  /\ conflicts \in Seq(Conflict) /\ \A i \in 1..Len(conflicts) : ConflictOk(conflicts[i])
  /\ RoundOk
  /\ audit \in Seq(AuditRow) /\ \A i \in 1..Len(audit) : RowOk(audit, i)
  /\ \A k \in Knowledge : Leaves(audit, Len(audit), k, trust[k])

\* A finite set has an element whose number no other exceeds.
LEMMA GreatestOfFinite ==
  ASSUME NEW S, IsFiniteSet(S), S # {}, NEW f, \A x \in S : f[x] \in Nat
  PROVE  \E x \in S : \A y \in S : f[y] <= f[x]
<1> DEFINE Greatest(T, x) == \A y \in T : f[y] <= f[x]
           Fails == {n \in Nat : \E T \in SUBSET S :
                       T # {} /\ Cardinality(T) = n /\ ~ \E x \in T : Greatest(T, x)}
<1>1. Cardinality(S) \in Nat
  BY FS_CardinalityType
<1> SUFFICES ASSUME ~ \E x \in S : Greatest(S, x) PROVE FALSE
  OBVIOUS
<1>2. Fails \in SUBSET Nat /\ Fails # {}
  BY <1>1
<1>3. PICK m \in Fails : \A n \in Fails : m <= n
  <2> HIDE DEF Fails
  <2> QED
    BY <1>2, MinOfNaturals
<1>4. PICK T \in SUBSET S : T # {} /\ Cardinality(T) = m /\ ~ \E x \in T : Greatest(T, x)
  BY <1>3
<1>5. PICK x \in T : TRUE
  BY <1>4
<1> DEFINE U == T \ {x}
<1>6. IsFiniteSet(T)
  BY FS_Subset
<1>7. IsFiniteSet(U) /\ Cardinality(U) = m - 1 /\ Cardinality(U) \in Nat
  BY <1>4, <1>5, <1>6, FS_RemoveElement, FS_CardinalityType
<1>8. U \in SUBSET S /\ m \in Nat /\ m - 1 \notin Fails
  BY <1>2, <1>3, <1>7
<1>9. CASE U = {}
  <2>1. Greatest(T, x)
    BY <1>5, <1>9
  <2> QED
    BY <1>4, <1>5, <2>1
<1>10. CASE U # {}
  <2>1. PICK z \in U : Greatest(U, z)
    BY <1>7, <1>8, <1>10
  <2>2. f[z] \in Nat /\ f[x] \in Nat /\ \A y \in T : f[y] \in Nat /\ (y = x \/ y \in U)
    BY <1>4, <1>5, <2>1
  <2>3. Greatest(T, z) \/ Greatest(T, x)
    <3>1. CASE f[x] <= f[z]
      BY <2>1, <2>2, <3>1
    <3>2. CASE f[z] <= f[x]
      BY <2>1, <2>2, <3>2
    <3> QED
      BY <2>2, <3>1, <3>2
  <2> QED
    BY <1>4, <1>5, <2>1, <2>3
<1> QED
  BY <1>9, <1>10

\* If a set has one value, all its members do.
LEMMA OneValue ==
  ASSUME NEW claims, IsFiniteSet(claims), Cardinality({Value[k] : k \in claims}) = 1,
         NEW k \in claims, NEW l \in claims
  PROVE  Value[k] = Value[l]
<1> DEFINE values == {Value[c] : c \in claims}
           f == [c \in claims |-> Value[c]]
<1>1. f \in Surjection(claims, values)
  BY DEF Surjection
<1>2. IsFiniteSet(values)
  <2> HIDE DEF f, values
  <2> QED
    BY <1>1, FS_Surjection
<1>3. \E x : values = {x}
  <2> HIDE DEF values
  <2>1. Cardinality(values) = 1
    BY DEF values
  <2> QED
    BY <1>2, <2>1, FS_Singleton
<1> QED
  BY <1>3

LEMMA ScoreIsNatural == \A c \in ConfidenceScore : c \in Nat /\ c <= 10000
BY DEF ConfidenceScore

LEMMA ResolveOk ==
  ASSUME confidence \in [Knowledge -> ConfidenceScore], NEW claims \in SUBSET Knowledge, Cardinality(claims) >= 2
  PROVE  /\ resolve(claims) \in Conflict /\ resolve(claims).claims = claims
         /\ ConflictOk(resolve(claims))
<1> DEFINE ahead(k, l) == \/ Evidence[k] > Evidence[l]
                          \/ Evidence[k] = Evidence[l] /\ confidence[k] > confidence[l]
           leaders == {k \in claims : \A l \in claims : ~ahead(l, k)}
           rank == [k \in claims |-> Evidence[k] * 10001 + confidence[k]]
           decision(r, k) == [claims |-> claims, resolution |-> r, selected |-> k]
<1>1. IsFiniteSet(claims) /\ claims # {}
  BY FS_Subset, FS_EmptySet, GovernanceAssumption
<1>2. \A k \in claims : /\ Evidence[k] \in Nat /\ confidence[k] \in Nat /\ confidence[k] <= 10000
                        /\ rank[k] = Evidence[k] * 10001 + confidence[k] /\ rank[k] \in Nat
  BY GovernanceAssumption, ScoreIsNatural
<1>3. \E k \in leaders : TRUE
  <2>1. PICK k \in claims : \A l \in claims : rank[l] <= rank[k]
    <3> HIDE DEF rank
    <3> QED
      BY <1>1, <1>2, GreatestOfFinite
  <2>2. ASSUME NEW l \in claims, ahead(l, k) PROVE FALSE
    <3>1. \A a, b, c, d \in Nat : c <= 10000 /\ d <= 10000 =>
            (a > b \/ (a = b /\ c > d) => ~ (a * 10001 + c <= b * 10001 + d))
      OBVIOUS
    <3>2. rank[l] <= rank[k]
      BY <2>1
    <3>3. /\ Evidence[l] \in Nat /\ Evidence[k] \in Nat
          /\ confidence[l] \in Nat /\ confidence[k] \in Nat
          /\ confidence[l] <= 10000 /\ confidence[k] <= 10000
      BY <1>2, <2>1, <2>2
    <3> QED
      BY <1>2, <2>2, <3>1, <3>2, <3>3
  <2> QED
    BY <2>2
<1>4. (CHOOSE k \in leaders : TRUE) \in Knowledge
  BY <1>3
<1> DEFINE leader == CHOOSE k \in leaders : TRUE
<1>5. resolve(claims) = IF Cardinality({Value[k] : k \in claims}) = 1 THEN decision("consistent", leader)
                        ELSE IF Cardinality(leaders) > 1 THEN decision("escalate", NoKnowledge)
                        ELSE decision("prefer_supported", leader)
  BY DEF resolve
<1>6. leader \in Knowledge
  BY <1>4
<1> HIDE DEF leader, leaders
<1>7. \/ /\ Cardinality({Value[k] : k \in claims}) = 1
         /\ resolve(claims) = decision("consistent", leader)
      \/ resolve(claims) = decision("escalate", NoKnowledge)
      \/ resolve(claims) = decision("prefer_supported", leader)
  BY <1>5
<1>8. CASE /\ Cardinality({Value[k] : k \in claims}) = 1
           /\ resolve(claims) = decision("consistent", leader)
  <2>1. \A k, l \in claims : Value[k] = Value[l]
    BY <1>1, <1>8, OneValue
  <2> QED
    BY <1>6, <1>8, <2>1 DEF Conflict, ConflictOk, Resolution
<1>9. CASE resolve(claims) = decision("escalate", NoKnowledge)
  BY <1>9 DEF Conflict, ConflictOk, Resolution
<1>10. CASE resolve(claims) = decision("prefer_supported", leader)
  BY <1>6, <1>10 DEF Conflict, ConflictOk, Resolution
<1> QED
  BY <1>7, <1>8, <1>9, <1>10

\* What is decided to be trusted, both state machines would trust.
LEMMA DecideOk ==
  ASSUME NEW s \in Signal
  PROVE  /\ decide(s) \in TrustState
         /\ decide(s) = "trusted" =>
              /\ evaluate(s) = "trusted"
              /\ s.resolution # "none" => evaluate_conflict(s) = "trusted"
              /\ s.resolution # "escalate"
              /\ s.resolution = "prefer_supported" => s.selected = s.knowledge_id
<1>1. s.resolution \in Resolution /\ s.verified \in BOOLEAN /\ s.confidence \in Nat
  BY ScoreIsNatural DEF Signal
<1>2. decide(s) = IF ~s.verified THEN "quarantined"
                  ELSE IF s.resolution = "escalate"
                          \/ (s.resolution = "prefer_supported" /\ s.selected # s.knowledge_id) THEN "pending"
                  ELSE IF s.confidence <= 2500 THEN "quarantined"
                  ELSE IF s.confidence >= 7500 THEN "trusted" ELSE "pending"
  BY <1>1 DEF decide
<1>3. decide(s) \in TrustState
  BY <1>2 DEF TrustState
<1>4. decide(s) = "trusted" =>
        /\ s.verified /\ s.resolution # "escalate"
        /\ s.resolution = "prefer_supported" => s.selected = s.knowledge_id
        /\ ~(s.confidence <= 2500) /\ s.confidence >= 7500
  BY <1>2
<1>5. decide(s) = "trusted" => evaluate(s) = "trusted"
  BY <1>1, <1>4 DEF evaluate
<1>6. decide(s) = "trusted" /\ s.resolution # "none" => evaluate_conflict(s) = "trusted"
  BY <1>1, <1>4 DEF evaluate_conflict, Resolution
<1> QED
  BY <1>3, <1>4, <1>5, <1>6

LEMMA SignalOk ==
  ASSUME GovernanceInv, NEW k \in Knowledge, NEW verified \in BOOLEAN
  PROVE  /\ SignalOf(k, verified) \in Signal /\ SignalOf(k, verified).knowledge_id = k
         /\ InConflict(k) =>
              /\ Last(conflicts) \in Conflict /\ ConflictOk(Last(conflicts))
              /\ SignalOf(k, verified).resolution = Last(conflicts).resolution
              /\ Last(conflicts).resolution = "prefer_supported" =>
                   SignalOf(k, verified).selected = Last(conflicts).selected
<1> DEFINE c == Last(conflicts)
           s == SignalOf(k, verified)
<1>1. conflicts # <<>> => c \in Conflict /\ ConflictOk(c)
  <2>1. conflicts \in Seq(Conflict) /\ \A i \in 1..Len(conflicts) : ConflictOk(conflicts[i])
    BY DEF GovernanceInv
  <2>2. conflicts # <<>> => Len(conflicts) \in 1..Len(conflicts)
    BY <2>1
  <2>3. conflicts # <<>> => conflicts[Len(conflicts)] \in Conflict
    BY <2>1, <2>2
  <2> QED
    BY <2>1, <2>2, <2>3 DEF Last
<1>2. InConflict(k) => conflicts # <<>>
  BY DEF InConflict
<1> HIDE DEF c
<1>3. c \in Conflict => c.resolution \in Resolution /\ c.selected \in Knowledge \cup {NoKnowledge}
  BY DEF Conflict
<1> DEFINE r == IF InConflict(k) THEN c.resolution ELSE "none"
           p == IF InConflict(k) /\ c.resolution = "prefer_supported" THEN c.selected ELSE NoKnowledge
<1>4. s = [knowledge_id |-> k, confidence |-> confidence[k], verified |-> verified,
           resolution |-> r, selected |-> p]
  BY DEF SignalOf, c
<1>5. r \in Resolution /\ p \in Knowledge \cup {NoKnowledge}
  <2>1. "none" \in Resolution
    BY DEF Resolution
  <2> QED
    BY <1>1, <1>2, <1>3, <2>1
<1>6. confidence[k] \in ConfidenceScore
  BY DEF GovernanceInv, ScoresTypeOK
<1>7. /\ InConflict(k) => r = c.resolution
      /\ InConflict(k) /\ c.resolution = "prefer_supported" => p = c.selected
  OBVIOUS
<1> HIDE DEF r, p, s
<1>8. s \in Signal
  BY <1>4, <1>5, <1>6 DEF Signal
<1>9. s.knowledge_id = k /\ s.resolution = r /\ s.selected = p
  BY <1>4
<1> QED
  BY <1>1, <1>2, <1>7, <1>8, <1>9 DEF c, s

\* A row at the end leaves of other knowledge than its own what the rows before left.
LEMMA LeavesMore ==
  ASSUME NEW s \in Seq(AuditRow), NEW row \in AuditRow, NEW t, t = Append(s, row), NEW k, NEW v
  PROVE  /\ \A i \in 0..Len(s) : Leaves(s, i, k, v) => Leaves(t, i, k, v)
         /\ row.signal.knowledge_id # k /\ Leaves(s, Len(s), k, v) => Leaves(t, Len(t), k, v)
<1> DEFINE n == Len(s)
<1>1. n \in Nat /\ Len(t) = n + 1 /\ t[n + 1] = row /\ \A i \in 1..n : t[i] = s[i]
  OBVIOUS
<1> HIDE DEF n
<1>2. ASSUME NEW i \in 0..n, Leaves(s, i, k, v) PROVE Leaves(t, i, k, v)
  <2>1. \A j \in 1..i : t[j] = s[j]
    BY <1>1
  <2>2. \A j \in 1..i : \A h \in j + 1..i : t[h] = s[h]
    BY <1>1
  <2> QED
    BY <1>2, <2>1, <2>2 DEF Leaves
<1>4. ASSUME row.signal.knowledge_id # k, Leaves(s, n, k, v) PROVE Leaves(t, n + 1, k, v)
  <2>1. \A j \in 1..n + 1 : (j = n + 1 /\ t[j] = row) \/ (j \in 1..n /\ t[j] = s[j])
    <3> SUFFICES ASSUME NEW j \in 1..n + 1 PROVE (j = n + 1 /\ t[j] = row) \/ (j \in 1..n /\ t[j] = s[j])
      OBVIOUS
    <3>1. j = n + 1 \/ j \in 1..n
      BY <1>1
    <3> QED
      BY <1>1, <3>1
  <2>2. CASE v = "pending" /\ \A j \in 1..n : s[j].signal.knowledge_id # k
    BY <1>4, <2>1, <2>2 DEF Leaves
  <2>3. CASE \E j \in 1..n : /\ s[j].signal.knowledge_id = k /\ s[j].new = v
                             /\ \A h \in j + 1..n : s[h].signal.knowledge_id # k
    <3>1. PICK j \in 1..n : /\ s[j].signal.knowledge_id = k /\ s[j].new = v
                            /\ \A h \in j + 1..n : s[h].signal.knowledge_id # k
      BY <2>3
    <3>2. j \in 1..n + 1 /\ t[j] = s[j]
      BY <1>1
    <3>3. \A h \in j + 1..n + 1 : h \in 1..n + 1 /\ (h \in 1..n => h \in j + 1..n)
      BY <1>1
    <3>4. \A h \in j + 1..n + 1 : t[h].signal.knowledge_id # k
      BY <1>4, <2>1, <3>1, <3>3
    <3> QED
      BY <3>1, <3>2, <3>4 DEF Leaves
  <2> QED
    BY <1>4, <2>2, <2>3 DEF Leaves
<1> QED
  BY <1>1, <1>2, <1>4 DEF n

\* Of its own it leaves its state.
LEMMA LeavesOwn ==
  ASSUME NEW s \in Seq(AuditRow), NEW row \in AuditRow, NEW t, t = Append(s, row),
         NEW k, row.signal.knowledge_id = k, NEW v, row.new = v
  PROVE  Leaves(t, Len(t), k, v)
<1> DEFINE n == Len(t)
<1>1. n \in Nat \ {0} /\ t[n] = row
  OBVIOUS
<1> HIDE DEF n
<1>2. n \in 1..n /\ \A h \in n + 1..n : FALSE
  BY <1>1
<1> QED
  BY <1>1, <1>2 DEF Leaves, n

LEMMA GovernanceInitially == GovernanceInit => GovernanceInv
<1> SUFFICES ASSUME GovernanceInit PROVE GovernanceInv
  OBVIOUS
<1> USE DEF GovernanceInit
<1>1. ScoresTypeOK
  <2>1. decays \in [Knowledge -> 0..MaxDecays]
    BY ScoresAssumption DEF ScoresInit
  <2>2. usage \in Seq(Usage) /\ Len(usage) <= MaxUses
    BY ScoresAssumption DEF ScoresInit
  <2> QED
    BY <2>1, <2>2, ScoresAssumption DEF ScoresInit, ScoresTypeOK
<1>2. /\ conflicts \in Seq(Conflict) /\ Len(conflicts) = 0
      /\ audit \in Seq(AuditRow) /\ Len(audit) = 0
  OBVIOUS
<1>3. trust \in [Knowledge -> TrustState] /\ decided \subseteq Knowledge
  BY DEF TrustState
<1>4. RoundOk
  BY DEF RoundOk
<1>5. \A k \in Knowledge : Leaves(audit, Len(audit), k, trust[k])
  BY <1>2 DEF Leaves
<1> QED
  BY <1>1, <1>2, <1>3, <1>4, <1>5 DEF GovernanceInv

LEMMA UsageKept ==
  ASSUME GovernanceInv, NEW u \in Usage, UsageApplied(u), UNCHANGED <<conflicts, trust, audit, decided>>
  PROVE  GovernanceInv'
<1>1. usage' \in Seq(Usage) /\ Len(usage') <= MaxUses
  BY ScoresAssumption DEF GovernanceInv, ScoresTypeOK, UsageApplied, record_usage
<1>2. confidence' \in [Knowledge -> ConfidenceScore]
  <2>1. confidence \in [Knowledge -> ConfidenceScore] /\ u.impact \in Int
    <3>1. u.impact \in Impact
      BY DEF Usage
    <3>2. \A i \in Impact : i \in Int
      BY ScoresAssumption
    <3> QED
      BY <3>1, <3>2 DEF GovernanceInv, ScoresTypeOK
  <2>2. \A c \in Int : Bounded(c) \in ConfidenceScore
    BY DEF Bounded, ConfidenceScore
  <2>3. \A c \in ConfidenceScore : c \in Int /\ c + 20 * u.impact \in Int /\ c - 20 * u.impact \in Int
    BY <2>1, ScoreIsNatural
  <2>4. \A c \in ConfidenceScore : Adjusted(c, u) \in ConfidenceScore
    BY <2>2, <2>3 DEF Adjusted
  <2> QED
    BY <2>1, <2>4 DEF UsageApplied
<1>3. ScoresTypeOK'
  BY <1>1, <1>2 DEF GovernanceInv, ScoresTypeOK, UsageApplied
<1>4. RoundOk'
  BY DEF GovernanceInv, RoundOk
<1> QED
  BY <1>3, <1>4 DEF GovernanceInv

LEMMA ConflictKept ==
  ASSUME GovernanceInv, NEW claims \in SUBSET Knowledge, ConflictResolved(claims)
  PROVE  GovernanceInv'
<1> DEFINE c == resolve(claims)
           n == Len(conflicts)
<1>1. c \in Conflict /\ ConflictOk(c)
  BY ResolveOk DEF GovernanceInv, ScoresTypeOK, ConflictResolved
<1>2. conflicts' = Append(conflicts, c) /\ decided' = {}
  BY DEF ConflictResolved
<1> HIDE DEF c
<1>3. /\ conflicts' \in Seq(Conflict) /\ Len(conflicts') = n + 1 /\ n \in Nat
      /\ conflicts'[n + 1] = c /\ \A i \in 1..n : conflicts'[i] = conflicts[i]
  BY <1>1, <1>2 DEF GovernanceInv
<1>4. \A i \in 1..n : ConflictOk(conflicts[i])
  BY DEF GovernanceInv
<1> HIDE DEF n
<1>5. \A i \in 1..n + 1 : ConflictOk(conflicts'[i])
  <2> SUFFICES ASSUME NEW i \in 1..n + 1 PROVE ConflictOk(conflicts'[i])
    OBVIOUS
  <2>1. i = n + 1 \/ i \in 1..n
    BY <1>3
  <2> QED
    BY <1>1, <1>3, <1>4, <2>1
<1>6. RoundOk'
  BY <1>2 DEF RoundOk
<1>7. UNCHANGED <<scoresVars, trust, audit>>
  BY DEF ConflictResolved
<1>8. ScoresTypeOK'
  BY <1>7 DEF GovernanceInv, ScoresTypeOK, scoresVars
<1> QED
  BY <1>2, <1>3, <1>5, <1>6, <1>7, <1>8 DEF GovernanceInv

LEMMA DecisionKept ==
  ASSUME GovernanceInv, NEW k \in Knowledge, NEW verified \in BOOLEAN, DecisionApplied(k, verified)
  PROVE  GovernanceInv'
<1> DEFINE s == SignalOf(k, verified)
           new == decide(s)
           row == [signal |-> s, previous |-> trust[k], new |-> new]
           n == Len(audit)
<1>1. s \in Signal /\ s.knowledge_id = k
  BY SignalOk
<1>2. InConflict(k) =>
        /\ Last(conflicts) \in Conflict /\ s.resolution = Last(conflicts).resolution
        /\ ConflictOk(Last(conflicts))
        /\ Last(conflicts).resolution = "prefer_supported" => s.selected = Last(conflicts).selected
  BY SignalOk
<1>3. /\ audit' = Append(audit, row) /\ trust' = [trust EXCEPT ![k] = new]
      /\ decided' = IF InConflict(k) THEN decided \cup {k} ELSE decided
      /\ UNCHANGED <<scoresVars, conflicts>>
  BY DEF DecisionApplied
<1> HIDE DEF s
<1>4. /\ new \in TrustState
      /\ new = "trusted" =>
           /\ evaluate(s) = "trusted"
           /\ s.resolution # "none" => evaluate_conflict(s) = "trusted"
           /\ s.resolution # "escalate"
           /\ s.resolution = "prefer_supported" => s.selected = s.knowledge_id
  BY <1>1, DecideOk
<1>5. /\ trust \in [Knowledge -> TrustState] /\ trust[k] \in TrustState /\ decided \subseteq Knowledge
      /\ audit \in Seq(AuditRow) /\ n \in Nat
  BY DEF GovernanceInv
<1>6. row.signal = s /\ row.previous = trust[k] /\ row.new = new /\ row.new = decide(s)
  OBVIOUS
<1>7. row \in AuditRow
  <2> HIDE DEF new
  <2> QED
    BY <1>1, <1>4, <1>5 DEF AuditRow
<1> HIDE DEF row, new
<1>8. /\ audit' \in Seq(AuditRow) /\ Len(audit') = n + 1 /\ audit'[n + 1] = row
      /\ \A i \in 1..n : audit'[i] = audit[i]
  BY <1>3, <1>5, <1>7
<1>9. trust' \in [Knowledge -> TrustState] /\ trust'[k] = new /\ \A l \in Knowledge \ {k} : trust'[l] = trust[l]
  BY <1>3, <1>4, <1>5
<1>10. /\ \A i \in 1..n : RowOk(audit, i)
       /\ \A l \in Knowledge : Leaves(audit, n, l, trust[l])
  BY DEF GovernanceInv
<1>11. ASSUME NEW i \in 1..n + 1 PROVE RowOk(audit', i)
  <2>1. CASE i \in 1..n
    <3>1. RowOk(audit, i) /\ audit'[i] = audit[i] /\ i - 1 \in 0..n
      BY <1>8, <1>10, <2>1
    <3>2. Leaves(audit, i - 1, audit[i].signal.knowledge_id, audit[i].previous)
      BY <3>1 DEF RowOk
    <3>3. Leaves(audit', i - 1, audit[i].signal.knowledge_id, audit[i].previous)
      BY <1>3, <1>5, <1>7, <3>1, <3>2, LeavesMore DEF n
    <3> QED
      BY <3>1, <3>3 DEF RowOk
  <2>2. CASE i = n + 1
    <3>1. audit'[i] = row /\ i - 1 = n
      BY <1>5, <1>8, <2>2
    <3>2. Leaves(audit, n, k, trust[k])
      BY <1>10
    <3>3. Leaves(audit', n, k, trust[k])
      <4>1. n \in 0..Len(audit)
        BY <1>5 DEF n
      <4> QED
        BY <1>3, <1>5, <1>7, <3>2, <4>1, LeavesMore
    <3> QED
      BY <1>1, <1>4, <1>6, <3>1, <3>3 DEF RowOk, replay
  <2> QED
    BY <1>5, <2>1, <2>2
<1>12. ASSUME NEW l \in Knowledge PROVE Leaves(audit', Len(audit'), l, trust'[l])
  <2>1. CASE l = k
    <3> DEFINE v == trust'[l]
    <3>1. row.signal.knowledge_id = l /\ row.new = v
      BY <1>1, <1>6, <1>9, <2>1
    <3> HIDE DEF v
    <3>2. Leaves(audit', Len(audit'), l, v)
      BY <1>3, <1>5, <1>7, <3>1, LeavesOwn
    <3> QED
      BY <3>2 DEF v
  <2>2. CASE l # k
    <3>1. /\ row.signal.knowledge_id # l /\ trust'[l] = trust[l]
          /\ Leaves(audit, Len(audit), l, trust[l])
      BY <1>1, <1>6, <1>9, <1>10, <2>2 DEF n
    <3> QED
      BY <1>3, <1>5, <1>7, <3>1, LeavesMore
  <2> QED
    BY <2>1, <2>2
<1>13. RoundOk'
  <2>1. RoundOk
    BY DEF GovernanceInv
  <2>2. CASE conflicts = <<>>
    <3>1. ~InConflict(k)
      BY <2>2 DEF InConflict
    <3> QED
      BY <1>3, <2>1, <2>2, <3>1 DEF RoundOk
  <2>3. CASE conflicts # <<>>
    <3> DEFINE c == Last(conflicts)
               Preferred(l) == c.resolution = "prefer_supported" /\ c.selected = l
               Grounded(l, v) == v = "trusted" => c.resolution = "consistent" \/ Preferred(l)
    <3>1. \A l \in decided : l \in c.claims /\ Grounded(l, trust[l])
      BY <2>1, <2>3 DEF RoundOk
    <3>2. InConflict(k) <=> k \in c.claims
      BY <2>3 DEF InConflict
    <3>3. InConflict(k) => Grounded(k, new)
      <4> SUFFICES ASSUME InConflict(k), new = "trusted"
                   PROVE c.resolution = "consistent" \/ Preferred(k)
        OBVIOUS
      <4>1. c.resolution \in Resolution /\ c.resolution # "none" /\ s.resolution = c.resolution
        BY <1>2 DEF Conflict, ConflictOk
      <4> QED
        BY <1>1, <1>2, <1>4, <4>1 DEF Resolution
    <3>4. ASSUME NEW l \in decided' PROVE l \in c.claims /\ Grounded(l, trust'[l])
      <4>1. CASE l = k
        <5>1. InConflict(k)
          BY <1>3, <3>1, <3>2, <3>4, <4>1
        <5> QED
          BY <1>9, <3>2, <3>3, <4>1, <5>1
      <4>2. CASE l # k
        <5>1. l \in decided
          BY <1>3, <3>4, <4>2
        <5> QED
          BY <1>5, <1>9, <3>1, <4>2, <5>1
      <4> QED
        BY <4>1, <4>2
    <3>5. Last(conflicts)' = c /\ conflicts' = conflicts
      BY <1>3
    <3> HIDE DEF c
    <3> QED
      BY <2>3, <3>4, <3>5 DEF RoundOk
  <2> QED
    BY <2>2, <2>3
<1>14. ScoresTypeOK' /\ decided' \subseteq Knowledge
  BY <1>3, <1>5 DEF GovernanceInv, ScoresTypeOK, scoresVars
<1>15. conflicts' \in Seq(Conflict) /\ \A i \in 1..Len(conflicts') : ConflictOk(conflicts'[i])
  BY <1>3 DEF GovernanceInv
<1> QED
  BY <1>8, <1>9, <1>11, <1>12, <1>13, <1>14, <1>15 DEF GovernanceInv

LEMMA GovernanceKept == GovernanceInv /\ [GovernanceNext]_governanceVars => GovernanceInv'
<1> SUFFICES ASSUME GovernanceInv, [GovernanceNext]_governanceVars PROVE GovernanceInv'
  OBVIOUS
<1>1. CASE UNCHANGED governanceVars
  <2>1. /\ usage' = usage /\ confidence' = confidence /\ decayed' = decayed /\ decays' = decays
        /\ conflicts' = conflicts /\ trust' = trust /\ audit' = audit /\ decided' = decided
    BY <1>1 DEF governanceVars, scoresVars
  <2>2. ScoresTypeOK' /\ RoundOk'
    BY <2>1 DEF GovernanceInv, ScoresTypeOK, RoundOk
  <2> QED
    BY <2>1, <2>2 DEF GovernanceInv
<1> QED
  BY <1>1, UsageKept, ConflictKept, DecisionKept DEF GovernanceNext

\* Claims that contradict each other are never trusted together by what was decided
\* after one resolution, and the audit ledger tells the states and their reasons:
\* for any knowledge, evidence and number of rounds, and whatever confidences do.
THEOREM GovernanceIsTrue == GovernanceSpec => []GovernanceTrue
<1>1. GovernanceInv => TrustedAgree
  <2> SUFFICES ASSUME GovernanceInv, NEW k \in decided, NEW l \in decided,
                      trust[k] = "trusted", trust[l] = "trusted"
               PROVE  Value[k] = Value[l]
    BY DEF TrustedAgree
  <2> DEFINE c == Last(conflicts)
  <2>1. /\ conflicts # <<>> /\ k \in c.claims /\ l \in c.claims
        /\ \/ c.resolution = "consistent"
           \/ c.selected = k /\ c.selected = l
    BY DEF GovernanceInv, RoundOk
  <2>2. ConflictOk(c)
    <3>1. conflicts \in Seq(Conflict) /\ \A i \in 1..Len(conflicts) : ConflictOk(conflicts[i])
      BY DEF GovernanceInv
    <3>2. Len(conflicts) \in 1..Len(conflicts)
      BY <2>1, <3>1
    <3> QED
      BY <3>1, <3>2 DEF Last
  <2> HIDE DEF c
  <2> QED
    BY <2>1, <2>2 DEF ConflictOk
<1>2. GovernanceInv => AuditReplays
  <2> SUFFICES ASSUME GovernanceInv PROVE AuditReplays
    OBVIOUS
  <2>1. audit \in Seq(AuditRow) /\ DOMAIN audit = 1..Len(audit) /\ Len(audit) \in Nat
    BY DEF GovernanceInv
  <2>2. GovernanceTypeOK
    <3>1. \A i \in 1..Len(audit) : audit[i] \in AuditRow
      BY <2>1
    <3>2. \A r \in AuditRow : r.signal \in Signal /\ {r.previous, r.new} \subseteq TrustState
      BY DEF AuditRow
    <3> QED
      BY <2>1, <3>1, <3>2 DEF GovernanceInv, GovernanceTypeOK
  <2>3. ASSUME NEW i \in DOMAIN audit
        PROVE  LET r == audit[i]
                   earlier == {j \in 1..i - 1 : audit[j].signal.knowledge_id = r.signal.knowledge_id}
               IN r.previous = IF earlier = {} THEN "pending"
                               ELSE audit[CHOOSE j \in earlier : \A h \in earlier : h <= j].new
    <3> DEFINE k == audit[i].signal.knowledge_id
               v == audit[i].previous
               earlier == {j \in 1..i - 1 : audit[j].signal.knowledge_id = k}
    <3>1. Leaves(audit, i - 1, k, v) /\ i - 1 \in Nat
      BY <2>1, <2>3 DEF GovernanceInv, RowOk
    <3>2. CASE v = "pending" /\ \A j \in 1..i - 1 : audit[j].signal.knowledge_id # k
      BY <3>2
    <3>3. CASE \E j \in 1..i - 1 : /\ audit[j].signal.knowledge_id = k /\ audit[j].new = v
                                   /\ \A h \in j + 1..i - 1 : audit[h].signal.knowledge_id # k
      <4>1. PICK j \in 1..i - 1 : /\ audit[j].signal.knowledge_id = k /\ audit[j].new = v
                                  /\ \A h \in j + 1..i - 1 : audit[h].signal.knowledge_id # k
        BY <3>3
      <4>2. j \in earlier /\ \A h \in earlier : h <= j
        <5> SUFFICES ASSUME NEW h \in earlier, ~(h <= j) PROVE FALSE
          BY <4>1
        <5>1. h \in j + 1..i - 1
          BY <3>1
        <5> QED
          BY <4>1, <5>1
      <4>3. earlier \subseteq Nat
        OBVIOUS
      <4> HIDE DEF earlier
      <4>4. (CHOOSE m \in earlier : \A h \in earlier : h <= m) = j
        <5>1. \A m \in earlier : (\A h \in earlier : h <= m) => m = j
          BY <4>2, <4>3
        <5> QED
          BY <4>2, <5>1
      <4>5. earlier # {} /\ audit[CHOOSE m \in earlier : \A h \in earlier : h <= m].new = v
        BY <4>1, <4>2, <4>4
      <4> QED
        BY <4>5 DEF earlier
    <3> QED
      BY <3>1, <3>2, <3>3 DEF Leaves
  <2>4. \A i \in DOMAIN audit : RowOk(audit, i)
    BY <2>1 DEF GovernanceInv
  <2> QED
    BY <2>2, <2>3, <2>4 DEF AuditReplays, RowOk
<1>3. GovernanceInv => GovernanceTrue
  BY <1>1, <1>2 DEF GovernanceTrue
<1> QED
  BY <1>3, GovernanceInitially, GovernanceKept, PTL DEF GovernanceSpec

-----------------------------------------------------------------------------
(* ArtifactFactory                                                            *)

\* The stacks of Scan, which are one function (see Sums of ProofLemmas).
Stacks(code, n, g) == g = [i \in 0..n |-> IF i = 0 THEN <<>> ELSE Read(g[i - 1], code[i])]

LEMMA StacksExist ==
  ASSUME NEW n \in Nat, NEW code
  PROVE  \E g : Stacks(code, n, g)
<1> DEFINE Fails == {m \in 0..n : ~ \E g : Stacks(code, m, g)}
<1> SUFFICES ASSUME Fails # {} PROVE FALSE
  BY n \in 0..n
<1>1. PICK m \in Fails : \A y \in Fails : m <= y
  <2>1. Fails \in SUBSET Nat
    OBVIOUS
  <2> HIDE DEF Fails
  <2> QED
    BY <2>1, MinOfNaturals
<1>2. m # 0
  <2> DEFINE g == [i \in 0..0 |-> <<>>]
  <2>1. Stacks(code, 0, g)
    BY DEF Stacks
  <2> QED
    BY <1>1, <2>1
<1>3. m - 1 \in 0..n /\ m \in Nat /\ m - 1 \notin Fails
  BY <1>1, <1>2
<1>4. PICK g : Stacks(code, m - 1, g)
  BY <1>3
<1> DEFINE h == [i \in 0..m |-> IF i = m THEN Read(g[m - 1], code[m]) ELSE g[i]]
<1>5. \A i \in 0..m - 1 : h[i] = g[i]
  BY <1>3
<1>6. \A i \in 0..m - 1 : g[i] = IF i = 0 THEN <<>> ELSE Read(g[i - 1], code[i])
  BY <1>4 DEF Stacks
<1>7. \A i \in 0..m : h[i] = IF i = 0 THEN <<>> ELSE Read(h[i - 1], code[i])
  <2> SUFFICES ASSUME NEW i \in 0..m PROVE h[i] = IF i = 0 THEN <<>> ELSE Read(h[i - 1], code[i])
    OBVIOUS
  <2>1. CASE i = m
    <3>1. h[i] = Read(g[m - 1], code[m]) /\ h[m - 1] = g[m - 1]
      BY <1>3, <1>5, <2>1
    <3> QED
      BY <1>2, <2>1, <3>1
  <2>2. CASE i # m
    <3>1. i \in 0..m - 1 /\ (i # 0 => i - 1 \in 0..m - 1)
      BY <1>3, <2>2
    <3> QED
      BY <1>5, <1>6, <3>1
  <2> QED
    BY <2>1, <2>2
<1>8. Stacks(code, m, h)
  BY <1>7 DEF Stacks
<1> QED
  BY <1>1, <1>8

Opening(code, i) == {h \in 1..i : code[h] \in Opener}
Shut(code, i) == {h \in 1..i : code[h] \in Closer}

\* One character more opens, shuts or does neither.
LEMMA OneMore ==
  ASSUME NEW code, NEW i \in Nat
  PROVE  /\ Cardinality(Opening(code, i)) \in Nat /\ Cardinality(Shut(code, i)) \in Nat
         /\ Cardinality(Opening(code, i + 1)) =
              Cardinality(Opening(code, i)) + (IF code[i + 1] \in Opener THEN 1 ELSE 0)
         /\ Cardinality(Shut(code, i + 1)) =
              Cardinality(Shut(code, i)) + (IF code[i + 1] \in Closer THEN 1 ELSE 0)
<1>1. 1..i + 1 = 1..i \cup {i + 1} /\ i + 1 \notin 1..i
  OBVIOUS
<1>2. /\ Opening(code, i + 1) = IF code[i + 1] \in Opener THEN Opening(code, i) \cup {i + 1}
                                                              ELSE Opening(code, i)
      /\ i + 1 \notin Opening(code, i)
  BY <1>1 DEF Opening
<1>3. /\ Shut(code, i + 1) = IF code[i + 1] \in Closer THEN Shut(code, i) \cup {i + 1}
                                                           ELSE Shut(code, i)
      /\ i + 1 \notin Shut(code, i)
  BY <1>1 DEF Shut
<1>4. IsFiniteSet(Opening(code, i)) /\ IsFiniteSet(Shut(code, i))
  <2>1. IsFiniteSet(1..i) /\ Opening(code, i) \in SUBSET (1..i) /\ Shut(code, i) \in SUBSET (1..i)
    BY FS_Interval DEF Opening, Shut
  <2> QED
    BY <2>1, FS_Subset
<1>5. Cardinality(Opening(code, i)) \in Nat /\ Cardinality(Shut(code, i)) \in Nat
  BY <1>4, FS_CardinalityType
<1>6. Cardinality(Opening(code, i) \cup {i + 1}) = Cardinality(Opening(code, i)) + 1
  BY <1>2, <1>4, FS_AddElement
<1>7. Cardinality(Shut(code, i) \cup {i + 1}) = Cardinality(Shut(code, i)) + 1
  BY <1>3, <1>4, FS_AddElement
<1>8. Cardinality(Opening(code, i + 1)) =
        Cardinality(Opening(code, i)) + (IF code[i + 1] \in Opener THEN 1 ELSE 0)
  BY <1>2, <1>5, <1>6
<1>9. Cardinality(Shut(code, i + 1)) =
        Cardinality(Shut(code, i)) + (IF code[i + 1] \in Closer THEN 1 ELSE 0)
  BY <1>3, <1>5, <1>7
<1> QED
  BY <1>5, <1>8, <1>9

\* A stack that is not refused is longer by one, shorter by one, or the same.
LEMMA StackRead ==
  ASSUME NEW s \in Seq(Closer), NEW char, NEW t, t = Read(s, char), t # Refused
  PROVE  /\ t \in Seq(Closer)
         /\ Len(t) = Len(s) + (IF char \in Opener THEN 1 ELSE 0) - (IF char \in Closer THEN 1 ELSE 0)
<1>1. s # Refused
  BY DEF Read
<1>2. CASE char \in Opener
  <2> DEFINE closing == Closing[char]
  <2>1. closing \in Closer
    BY <1>2 DEF Closing, Opener, Closer
  <2>2. t = Append(s, closing)
    BY <1>1, <1>2 DEF Read
  <2> HIDE DEF closing
  <2>3. t \in Seq(Closer) /\ Len(t) = Len(s) + 1
    BY <2>1, <2>2
  <2>4. char \notin Closer
    BY <1>2 DEF Opener, Closer
  <2> QED
    BY <1>2, <2>3, <2>4
<1>3. CASE char \notin Opener /\ char \notin Closer
  BY <1>1, <1>3 DEF Read
<1>4. CASE char \notin Opener /\ char \in Closer
  <2>1. s # <<>> /\ t = Front(s)
    BY <1>1, <1>4 DEF Read
  <2>2. Len(s) \in Nat \ {0}
    BY <2>1
  <2>3. t = SubSeq(s, 1, Len(s) - 1)
    BY <2>1 DEF Front
  <2>4. t \in Seq(Closer) /\ Len(t) = Len(s) - 1
    <3> DEFINE m == Len(s) - 1
    <3>1. m \in Nat /\ m <= Len(s)
      BY <2>2
    <3>2. \A i \in 1..m : s[i] \in Closer
      BY <2>2, ElementOfSeq
    <3>3. SubSeq(s, 1, m) \in Seq(Closer) /\ Len(SubSeq(s, 1, m)) = (IF 1 <= m THEN m - 1 + 1 ELSE 0)
      BY <3>1, <3>2, SubSeqProperties
    <3>4. (IF 1 <= m THEN m - 1 + 1 ELSE 0) = m
      <4>1. \A i \in Nat : (IF 1 <= i THEN i - 1 + 1 ELSE 0) = i
        OBVIOUS
      <4> HIDE DEF m
      <4> QED
        BY <3>1, <4>1
    <3> QED
      BY <2>3, <3>3, <3>4
  <2> QED
    BY <1>4, <2>2, <2>4
<1> QED
  BY <1>2, <1>3, <1>4

\* What is accepted closes nothing that is not open.
LEMMA AcceptedCloses ==
  ASSUME NEW code, Len(code) \in Nat, DOMAIN code = 1..Len(code), Accepted(code)
  PROVE  ~Misclosed(code)
<1> DEFINE n == Len(code)
           c == CHOOSE g : Stacks(code, n, g)
<1>1. Stacks(code, n, c)
  BY StacksExist
<1>2. Scan(code) = c[n]
  BY DEF Scan, Stacks
<1> HIDE DEF c
<1>3. c[0] = <<>> /\ \A i \in 0..n - 1 : c[i + 1] = Read(c[i], code[i + 1])
  <2>1. \A i \in 0..n : c[i] = IF i = 0 THEN <<>> ELSE Read(c[i - 1], code[i])
    BY <1>1 DEF Stacks
  <2>2. \A i \in 0..n - 1 : i + 1 \in 0..n /\ i + 1 # 0 /\ (i + 1) - 1 = i
    OBVIOUS
  <2> QED
    BY <2>1, <2>2
<1>4. c[n] # Refused
  BY <1>2 DEF Accepted
<1>5. \A i \in 0..n : c[i] # Refused
  <2> DEFINE I == {i \in 0..n : c[i] = Refused}
  <2> SUFFICES ASSUME I # {} PROVE FALSE
    OBVIOUS
  <2>1. PICK m \in I : \A i \in I : i <= m
    <3>1. I \in SUBSET Nat /\ n \in Nat /\ \A i \in I : i <= n
      OBVIOUS
    <3> HIDE DEF I, n
    <3>2. Max(I) \in I /\ \A i \in I : i <= Max(I)
      BY <3>1, MaxOfBoundedNaturals
    <3> QED
      BY <3>2
  <2>2. m \in 0..n - 1
    BY <1>4, <2>1
  <2>3. c[m + 1] = Refused
    BY <1>3, <2>1, <2>2 DEF Read
  <2>4. m + 1 \in I
    BY <2>2, <2>3
  <2> QED
    BY <2>1, <2>2, <2>4
<1> DEFINE Depth(i) == Cardinality(Opening(code, i)) - Cardinality(Shut(code, i))
           Good(i) == c[i] \in Seq(Closer) /\ Len(c[i]) = Depth(i)
<1>6. Good(0)
  <2>1. Opening(code, 0) = {} /\ Shut(code, 0) = {}
    BY DEF Opening, Shut
  <2>2. Cardinality(Opening(code, 0)) = 0 /\ Cardinality(Shut(code, 0)) = 0
    BY <2>1, FS_EmptySet
  <2>3. Depth(0) = 0
    BY <2>2
  <2>4. c[0] \in Seq(Closer) /\ Len(c[0]) = 0
    BY <1>3
  <2> QED
    BY <2>3, <2>4
<1>7. ASSUME NEW i \in 0..n - 1, Good(i) PROVE Good(i + 1)
  <2>1. /\ c[i + 1] = Read(c[i], code[i + 1]) /\ c[i + 1] # Refused
        /\ c[i] \in Seq(Closer) /\ Len(c[i]) = Depth(i)
    BY <1>3, <1>5, <1>7
  <2>2. /\ c[i + 1] \in Seq(Closer)
        /\ Len(c[i + 1]) = Len(c[i]) + (IF code[i + 1] \in Opener THEN 1 ELSE 0)
                                     - (IF code[i + 1] \in Closer THEN 1 ELSE 0)
    BY <2>1, StackRead
  <2>3. /\ Cardinality(Opening(code, i)) \in Nat /\ Cardinality(Shut(code, i)) \in Nat
        /\ Cardinality(Opening(code, i + 1)) =
             Cardinality(Opening(code, i)) + (IF code[i + 1] \in Opener THEN 1 ELSE 0)
        /\ Cardinality(Shut(code, i + 1)) =
             Cardinality(Shut(code, i)) + (IF code[i + 1] \in Closer THEN 1 ELSE 0)
    <3>1. i \in Nat
      OBVIOUS
    <3> QED
      BY <3>1, OneMore
  <2>4. Len(c[i + 1]) = Depth(i + 1)
    BY <2>1, <2>2, <2>3
  <2> QED
    BY <2>2, <2>4
<1> HIDE DEF Good
<1>8. \A i \in 0..n : Good(i)
  <2> DEFINE Bad == {i \in 0..n : ~Good(i)}
  <2> SUFFICES ASSUME Bad # {} PROVE FALSE
    OBVIOUS
  <2>1. PICK m \in Bad : \A i \in Bad : m <= i
    <3>1. Bad \in SUBSET Nat
      OBVIOUS
    <3> HIDE DEF Bad
    <3> QED
      BY <3>1, MinOfNaturals
  <2>2. m # 0
    BY <1>6, <2>1
  <2>3. m - 1 \in 0..n - 1 /\ m - 1 \notin Bad /\ (m - 1) + 1 = m
    BY <2>1, <2>2
  <2>4. Good(m - 1)
    BY <2>3
  <2>5. Good((m - 1) + 1)
    BY <1>7, <2>3, <2>4
  <2> QED
    BY <2>1, <2>3, <2>5
<1>9. ASSUME NEW j \in 1..n PROVE ~(Cardinality(Opening(code, j)) < Cardinality(Shut(code, j)))
  <2>1. c[j] \in Seq(Closer) /\ Len(c[j]) = Depth(j)
    BY <1>8 DEF Good
  <2>2. Len(c[j]) \in Nat
    BY <2>1
  <2>3. Cardinality(Opening(code, j)) \in Nat /\ Cardinality(Shut(code, j)) \in Nat
    BY OneMore
  <2> QED
    BY <2>1, <2>2, <2>3
<1> QED
  BY <1>9 DEF Misclosed, Opening, Shut

Live == {"filling", "fallback", "written", "sized"}

GeneratorCall == [pc: Live \cup {"new", "done", "raised"}, name: Filename \cup {NoName}, size: Seen, hash: Seen,
         checked: Language \cup {Unchecked}, shared: BOOLEAN]
ExportedFile == [by: Seen, whole: BOOLEAN, code: SourceText \cup {<<>>}]

\* What stands in a file that only its writer wrote since is its writer's, and what
\* is not whole is of a call that is still at it, or raised; what a call says of the
\* brackets of its file holds of it.
FilesOk ==
  /\ \A g \in Generation :
       /\ generation[g].pc \in Live => generation[g].name \in Filename
       /\ generation[g].pc \in {"written", "sized"} /\ ~generation[g].shared =>
            exported[generation[g].name].by = g
       /\ generation[g].pc = "sized" /\ ~generation[g].shared => generation[g].size = g
       /\ generation[g].pc = "done" /\ ~generation[g].shared =>
            generation[g].size = g /\ generation[g].hash = g
  /\ \A f \in Filename : exported[f].by # NoCall =>
       /\ generation[exported[f].by].name = f /\ generation[exported[f].by].pc # "new"
       /\ ~exported[f].whole => generation[exported[f].by].pc \in {"filling", "fallback", "raised"}
       /\ generation[exported[f].by].checked = "brackets" => ~Misclosed(exported[f].code)

FactoryInv ==
  exported \in [Filename -> ExportedFile] /\ generation \in [Generation -> GeneratorCall] /\ FilesOk

LEMMA CallTypes ==
  FactoryTypeOK <=> exported \in [Filename -> ExportedFile] /\ generation \in [Generation -> GeneratorCall]
<1>1. Live \cup {"new", "done", "raised"} =
        {"new", "filling", "fallback", "written", "sized", "done", "raised"}
  BY DEF Live
<1> QED
  BY <1>1 DEF FactoryTypeOK, ExportedFile, GeneratorCall

\* A write: of a part, by a call that is then filling or at the fallback; or whole,
\* by one that has written.
LEMMA WritesKeeps ==
  ASSUME FactoryInv, NEW g \in Generation, NEW f \in Filename, NEW pc \in Live, NEW content \in ExportedFile,
         NEW checked \in Language \cup {Unchecked}, WritesChecked(g, f, content, pc, checked),
         content.by = g, checked = "brackets" => ~Misclosed(content.code),
         generation[g].pc = "new" \/ generation[g].name = f,
         generation[g].pc # "done",
         content.whole \/ pc \in {"filling", "fallback"},
         pc # "sized"
  PROVE  FactoryInv'
<1> DEFINE own == [generation[g] EXCEPT !.pc = pc, !.name = f, !.checked = checked]
           other(h) == IF generation[h].name = f /\ generation[h].pc \in Live
                         THEN [generation[h] EXCEPT !.shared = TRUE] ELSE generation[h]
<1>1. /\ exported' = [exported EXCEPT ![f] = content]
      /\ generation' = [h \in Generation |-> IF h = g THEN own ELSE other(h)]
  BY DEF WritesChecked, Live
<1>2. \A h \in Generation : generation[h] \in GeneratorCall
  BY DEF FactoryInv
<1>3. /\ own \in GeneratorCall /\ own.pc = pc /\ own.name = f /\ own.shared = generation[g].shared
      /\ own.checked = checked
  <2> DEFINE names == Filename \cup {NoName}
             languages == Language \cup {Unchecked}
  <2>1. /\ GeneratorCall = [pc: Live \cup {"new", "done", "raised"}, name: names, size: Seen, hash: Seen,
                            checked: languages, shared: BOOLEAN]
        /\ f \in names /\ checked \in languages
    BY DEF GeneratorCall
  <2> HIDE DEF names, languages
  <2> QED
    BY <1>2, <2>1
<1>4. ASSUME NEW h \in Generation
      PROVE  /\ other(h) \in GeneratorCall /\ other(h).pc = generation[h].pc /\ other(h).name = generation[h].name
             /\ other(h).size = generation[h].size /\ other(h).hash = generation[h].hash
             /\ other(h).checked = generation[h].checked
             /\ ~other(h).shared => ~generation[h].shared
                                    /\ (generation[h].pc \in Live => generation[h].name # f)
  <2>1. generation[h] \in GeneratorCall
    BY <1>2
  <2>2. CASE generation[h].name = f /\ generation[h].pc \in Live
    <3>1. other(h) = [generation[h] EXCEPT !.shared = TRUE]
      BY <2>2
    <3> HIDE DEF other
    <3> QED
      BY <2>1, <3>1 DEF GeneratorCall
  <2>3. CASE ~(generation[h].name = f /\ generation[h].pc \in Live)
    <3>1. other(h) = generation[h]
      BY <2>3
    <3> HIDE DEF other
    <3> QED
      BY <2>1, <2>3, <3>1
  <2> QED
    BY <2>2, <2>3
<1> HIDE DEF own, other
<1>5. generation'[g] = own /\ \A h \in Generation \ {g} : generation'[h] = other(h)
  BY <1>1
<1>6. generation' \in [Generation -> GeneratorCall]
  <2>1. \A h \in Generation : (IF h = g THEN own ELSE other(h)) \in GeneratorCall
    BY <1>3, <1>4
  <2> QED
    BY <1>1, <2>1
<1>7. /\ exported' \in [Filename -> ExportedFile] /\ exported'[f] = content
      /\ \A e \in Filename \ {f} : exported'[e] = exported[e]
  BY <1>1 DEF FactoryInv
<1>8. ASSUME NEW h \in Generation
      PROVE  /\ generation'[h].pc \in Live => generation'[h].name \in Filename
             /\ generation'[h].pc \in {"written", "sized"} /\ ~generation'[h].shared =>
                  exported'[generation'[h].name].by = h
             /\ generation'[h].pc = "sized" /\ ~generation'[h].shared => generation'[h].size = h
             /\ generation'[h].pc = "done" /\ ~generation'[h].shared =>
                  generation'[h].size = h /\ generation'[h].hash = h
  <2>1. CASE h = g
    <3>1. generation'[h].pc = pc /\ generation'[h].name = f /\ pc # "done"
      BY <1>3, <1>5, <2>1 DEF Live
    <3> QED
      BY <1>7, <2>1, <3>1
  <2>2. CASE h # g
    <3>1. generation'[h] = other(h)
      BY <1>5, <2>2
    <3>2. /\ generation[h].pc \in Live => generation[h].name \in Filename
          /\ generation[h].pc \in {"written", "sized"} /\ ~generation[h].shared =>
               exported[generation[h].name].by = h
          /\ generation[h].pc = "sized" /\ ~generation[h].shared => generation[h].size = h
          /\ generation[h].pc = "done" /\ ~generation[h].shared =>
               generation[h].size = h /\ generation[h].hash = h
      BY DEF FactoryInv, FilesOk
    <3>3. \A p \in {"written", "sized"} : p \in Live
      BY DEF Live
    <3>4. ASSUME generation[h].pc \in {"written", "sized"}, ~other(h).shared
          PROVE  exported'[generation[h].name] = exported[generation[h].name] /\ ~generation[h].shared
      BY <1>4, <1>7, <3>2, <3>3, <3>4
    <3> QED
      BY <1>4, <3>1, <3>2, <3>4
  <2> QED
    BY <2>1, <2>2
<1>9. ASSUME NEW e \in Filename, exported'[e].by # NoCall
      PROVE  /\ generation'[exported'[e].by].name = e /\ generation'[exported'[e].by].pc # "new"
             /\ ~exported'[e].whole => generation'[exported'[e].by].pc \in {"filling", "fallback", "raised"}
             /\ generation'[exported'[e].by].checked = "brackets" => ~Misclosed(exported'[e].code)
  <2>1. CASE e = f
    <3>1. /\ exported'[e] = content /\ generation'[g].pc = pc /\ generation'[g].name = f
          /\ generation'[g].checked = checked /\ pc # "new"
      BY <1>3, <1>5, <1>7, <2>1 DEF Live
    <3> QED
      BY <2>1, <3>1
  <2>2. CASE e # f
    <3>1. exported'[e] = exported[e] /\ exported[e] \in ExportedFile /\ exported[e].by # NoCall
      BY <1>7, <1>9, <2>2 DEF FactoryInv
    <3>2. PICK h \in Generation : h = exported[e].by
      BY <3>1 DEF ExportedFile, Seen
    <3>3. /\ generation[h].name = e /\ generation[h].pc # "new"
          /\ ~exported[e].whole => generation[h].pc \in {"filling", "fallback", "raised"}
          /\ generation[h].checked = "brackets" => ~Misclosed(exported[e].code)
      BY <3>1, <3>2 DEF FactoryInv, FilesOk
    <3>4. h # g
      BY <2>2, <3>3
    <3>5. generation'[h] = other(h)
      BY <1>5, <3>4
    <3> QED
      BY <1>4, <3>1, <3>2, <3>3, <3>5
  <2> QED
    BY <2>1, <2>2
<1>10. FilesOk'
  BY <1>8, <1>9 DEF FilesOk
<1> QED
  BY <1>6, <1>7, <1>10 DEF FactoryInv

\* A call moves on without a write.
LEMMA GeneratorMoves ==
  ASSUME FactoryInv, NEW g \in Generation, UNCHANGED exported,
         NEW call \in GeneratorCall, generation' = [generation EXCEPT ![g] = call],
         call.name = generation[g].name, call.shared = generation[g].shared,
         call.checked = generation[g].checked,
         \/ call.pc = "raised"
         \/ /\ generation[g].pc = "written" /\ call.pc = "sized"
            /\ call.size = exported[generation[g].name].by
         \/ /\ generation[g].pc = "sized" /\ call.pc = "done"
            /\ call.size = generation[g].size /\ call.hash = exported[generation[g].name].by
  PROVE  FactoryInv'
<1>1. /\ generation' \in [Generation -> GeneratorCall] /\ generation'[g] = call
      /\ \A h \in Generation \ {g} : generation'[h] = generation[h]
  BY DEF FactoryInv
<1>2. \A h \in Generation :
        /\ generation[h].pc \in Live => generation[h].name \in Filename
        /\ generation[h].pc \in {"written", "sized"} /\ ~generation[h].shared =>
             exported[generation[h].name].by = h
        /\ generation[h].pc = "sized" /\ ~generation[h].shared => generation[h].size = h
        /\ generation[h].pc = "done" /\ ~generation[h].shared =>
             generation[h].size = h /\ generation[h].hash = h
  BY DEF FactoryInv, FilesOk
<1>3. ASSUME NEW h \in Generation
      PROVE  /\ generation'[h].pc \in Live => generation'[h].name \in Filename
             /\ generation'[h].pc \in {"written", "sized"} /\ ~generation'[h].shared =>
                  exported[generation'[h].name].by = h
             /\ generation'[h].pc = "sized" /\ ~generation'[h].shared => generation'[h].size = h
             /\ generation'[h].pc = "done" /\ ~generation'[h].shared =>
                  generation'[h].size = h /\ generation'[h].hash = h
  <2>1. CASE h = g
    BY <1>1, <1>2, <2>1 DEF Live
  <2>2. CASE h # g
    BY <1>1, <1>2, <2>2
  <2> QED
    BY <2>1, <2>2
<1>4. ASSUME NEW f \in Filename, exported[f].by # NoCall
      PROVE  /\ generation'[exported[f].by].name = f /\ generation'[exported[f].by].pc # "new"
             /\ ~exported[f].whole => generation'[exported[f].by].pc \in {"filling", "fallback", "raised"}
             /\ generation'[exported[f].by].checked = "brackets" => ~Misclosed(exported[f].code)
  <2>1. /\ generation[exported[f].by].name = f /\ generation[exported[f].by].pc # "new"
        /\ ~exported[f].whole => generation[exported[f].by].pc \in {"filling", "fallback", "raised"}
        /\ generation[exported[f].by].checked = "brackets" => ~Misclosed(exported[f].code)
        /\ exported[f] \in ExportedFile
    BY <1>4 DEF FactoryInv, FilesOk
  <2>2. exported[f].by \in Generation
    BY <1>4, <2>1 DEF ExportedFile, Seen
  <2> QED
    BY <1>1, <2>1, <2>2
<1>5. FilesOk'
  BY <1>3, <1>4 DEF FilesOk
<1> QED
  BY <1>1, <1>5 DEF FactoryInv

LEMMA Contents ==
  ASSUME NEW g \in Generation
  PROVE  /\ Whole(g) \in ExportedFile /\ Whole(g).by = g /\ Whole(g).whole
         /\ Part(g) \in ExportedFile /\ Part(g).by = g
<1> DEFINE none == <<>>
<1>1. Whole(g) = [by |-> g, whole |-> TRUE, code |-> none] /\ Part(g) = [by |-> g, whole |-> FALSE, code |-> none]
  BY DEF Whole, Part
<1>2. none \in SourceText \cup {<<>>} /\ g \in Seen
  BY DEF Seen
<1> HIDE DEF none
<1> QED
  BY <1>1, <1>2 DEF ExportedFile

LEMMA MovesKeeps ==
  ASSUME FactoryInv, NEW g \in Generation, Moves(g, "raised")
  PROVE  FactoryInv'
<1> DEFINE call == [generation[g] EXCEPT !.pc = "raised"]
<1>1. generation[g] \in GeneratorCall
  BY DEF FactoryInv
<1>2. call \in GeneratorCall /\ call.pc = "raised" /\ call.name = generation[g].name /\ call.shared = generation[g].shared
      /\ call.checked = generation[g].checked
  BY <1>1 DEF GeneratorCall
<1>3. generation' = [generation EXCEPT ![g] = call] /\ UNCHANGED exported
  BY DEF Moves
<1> HIDE DEF call
<1> QED
  BY <1>2, <1>3, GeneratorMoves

LEMMA WritesWhole ==
  ASSUME FactoryInv, NEW g \in Generation, NEW f \in Filename, Writes(g, f, Whole(g), "written"),
         \/ generation[g].pc = "new"
         \/ generation[g].name = f /\ generation[g].pc # "done"
  PROVE  FactoryInv'
<1> DEFINE content == Whole(g)
           pc == "written"
<1>1. content \in ExportedFile /\ content.by = g /\ content.whole
  BY Contents
<1>2. /\ pc \in Live /\ pc # "sized" /\ WritesChecked(g, f, content, pc, Unchecked)
      /\ generation[g].pc # "done" /\ Unchecked # "brackets" /\ Unchecked \in Language \cup {Unchecked}
  BY DEF Live, Writes, Unchecked
<1> HIDE DEF content, pc
<1> QED
  BY <1>1, <1>2, WritesKeeps

LEMMA WritesPart ==
  ASSUME FactoryInv, NEW g \in Generation, NEW f \in Filename, NEW pc, pc \in {"filling", "fallback"},
         Writes(g, f, Part(g), pc), generation[g].pc = "new"
  PROVE  FactoryInv'
<1> DEFINE content == Part(g)
<1>1. content \in ExportedFile /\ content.by = g
  BY Contents
<1>2. /\ pc \in Live /\ pc # "sized" /\ generation[g].pc # "done"
      /\ Unchecked # "brackets" /\ Unchecked \in Language \cup {Unchecked}
  BY DEF Live, Unchecked
<1> HIDE DEF content
<1>3. WritesChecked(g, f, content, pc, Unchecked)
  BY DEF content, Writes
<1> QED
  BY <1>1, <1>2, <1>3, WritesKeeps

LEMMA SavesKeeps ==
  ASSUME FactoryInv, NEW g \in Generation, NEW suffixes, SavesOrRaises(g, suffixes)
  PROVE  FactoryInv'
BY WritesWhole, MovesKeeps DEF SavesOrRaises, Names

LEMMA SourceKeeps ==
  ASSUME FactoryInv, NEW g \in Generation, write_source_artifact(g)
  PROVE  FactoryInv'
<1>1. PICK f \in Filename, code \in SourceText, lang \in Language, validate_syntax \in BOOLEAN :
        /\ generation[g].pc = "new"
        /\ \/ /\ (validate_syntax /\ lang = "brackets") => Accepted(code)
              /\ WritesChecked(g, f, [by |-> g, whole |-> TRUE, code |-> code], "written",
                               IF validate_syntax THEN lang ELSE Unchecked)
           \/ Moves(g, "raised")
  BY DEF write_source_artifact
<1>2. CASE Moves(g, "raised")
  BY <1>2, MovesKeeps
<1>3. CASE /\ (validate_syntax /\ lang = "brackets") => Accepted(code)
           /\ WritesChecked(g, f, [by |-> g, whole |-> TRUE, code |-> code], "written",
                            IF validate_syntax THEN lang ELSE Unchecked)
  <2> DEFINE content == [by |-> g, whole |-> TRUE, code |-> code]
             pc == "written"
             checked == IF validate_syntax THEN lang ELSE Unchecked
  <2>1. code \in Seq(Opener \cup Closer \cup {"x"})
    BY FactoryAssumption
  <2>2. Len(code) \in Nat /\ DOMAIN code = 1..Len(code)
    BY <2>1
  <2>3. Accepted(code) => ~Misclosed(code)
    BY <2>2, AcceptedCloses
  <2>4. content \in ExportedFile /\ content.by = g /\ content.whole /\ content.code = code
    BY DEF ExportedFile, Seen
  <2>5. checked \in Language \cup {Unchecked} /\ WritesChecked(g, f, content, pc, checked)
    BY <1>3
  <2>6. checked = "brackets" => validate_syntax /\ lang = "brackets"
    BY DEF Unchecked
  <2>7. pc \in Live /\ pc # "sized" /\ generation[g].pc # "done" /\ generation[g].pc = "new"
    BY <1>1 DEF Live
  <2> HIDE DEF content, pc, checked
  <2>8. checked = "brackets" => ~Misclosed(content.code)
    BY <1>3, <2>3, <2>4, <2>6
  <2> QED
    BY <2>4, <2>5, <2>7, <2>8, WritesKeeps
<1> QED
  BY <1>1, <1>2, <1>3

LEMMA CsvKeeps ==
  ASSUME FactoryInv, NEW g \in Generation, generate_csv_dataset(g) \/ CsvEnds(g)
  PROVE  FactoryInv'
<1>1. CASE generate_csv_dataset(g)
  <2>1. PICK f \in Filename : generation[g].pc = "new" /\ Writes(g, f, Part(g), "filling")
    BY <1>1 DEF generate_csv_dataset, Names
  <2> QED
    BY <2>1, WritesPart
<1>2. CASE CsvEnds(g)
  <2>1. generation[g].pc = "filling" /\ generation[g].name \in Filename
    BY <1>2 DEF CsvEnds, FactoryInv, FilesOk, Live
  <2> QED
    BY <1>2, <2>1, WritesWhole, MovesKeeps DEF CsvEnds
<1> QED
  BY <1>1, <1>2

LEMMA ExcelKeeps ==
  ASSUME FactoryInv, NEW g \in Generation, generate_excel_spreadsheet(g) \/ ExcelFallback(g)
  PROVE  FactoryInv'
<1>1. CASE generate_excel_spreadsheet(g)
  <2>1. PICK f \in Filename :
          /\ generation[g].pc = "new"
          /\ Writes(g, f, Whole(g), "written") \/ Writes(g, f, Part(g), "fallback")
    BY <1>1 DEF generate_excel_spreadsheet, Names
  <2> QED
    BY <2>1, WritesWhole, WritesPart
<1>2. CASE ExcelFallback(g)
  <2>1. generation[g].pc = "fallback" /\ generation[g].name \in Filename
    BY <1>2 DEF ExcelFallback, FactoryInv, FilesOk, Live
  <2> QED
    BY <1>2, <2>1, WritesWhole, MovesKeeps DEF ExcelFallback
<1> QED
  BY <1>1, <1>2

LEMMA LooksKeep ==
  ASSUME FactoryInv, NEW g \in Generation, Sizes(g) \/ Hashes(g)
  PROVE  FactoryInv'
<1> DEFINE seen == exported[generation[g].name].by
<1>1. /\ generation[g] \in GeneratorCall /\ generation[g].pc \in {"written", "sized"}
      /\ generation[g].name \in Filename
  BY DEF FactoryInv, FilesOk, Live, Sizes, Hashes
<1>2. seen \in Seen
  <2>1. exported[generation[g].name] \in ExportedFile
    BY <1>1 DEF FactoryInv
  <2> QED
    BY <2>1 DEF ExportedFile
<1>3. CASE Sizes(g)
  <2> DEFINE call == [generation[g] EXCEPT !.pc = "sized", !.size = seen]
  <2>1. generation' = [generation EXCEPT ![g] = call] /\ UNCHANGED exported /\ generation[g].pc = "written"
    BY <1>3 DEF Sizes
  <2>2. /\ call \in GeneratorCall /\ call.pc = "sized" /\ call.size = seen
        /\ call.name = generation[g].name /\ call.shared = generation[g].shared
        /\ call.checked = generation[g].checked
    <3>1. "sized" \in Live
      BY DEF Live
    <3> HIDE DEF seen
    <3> QED
      BY <1>1, <1>2, <3>1 DEF GeneratorCall
  <2> HIDE DEF call
  <2> QED
    BY <2>1, <2>2, GeneratorMoves
<1>4. CASE Hashes(g)
  <2> DEFINE call == [generation[g] EXCEPT !.pc = "done", !.hash = seen]
  <2>1. generation' = [generation EXCEPT ![g] = call] /\ UNCHANGED exported /\ generation[g].pc = "sized"
    BY <1>4 DEF Hashes
  <2>2. /\ call \in GeneratorCall /\ call.pc = "done" /\ call.hash = seen /\ call.size = generation[g].size
        /\ call.name = generation[g].name /\ call.shared = generation[g].shared
        /\ call.checked = generation[g].checked
    <3> HIDE DEF seen
    <3> QED
      BY <1>1, <1>2 DEF GeneratorCall
  <2> HIDE DEF call
  <2> QED
    BY <2>1, <2>2, GeneratorMoves
<1> QED
  BY <1>3, <1>4

LEMMA FactoryInitially == FactoryInit => FactoryInv
<1> SUFFICES ASSUME FactoryInit PROVE FactoryInv
  OBVIOUS
<1> DEFINE none == <<>>
           call == [pc |-> "new", name |-> NoName, size |-> NoCall, hash |-> NoCall,
                    checked |-> Unchecked, shared |-> FALSE]
<1>1. NoFile = [by |-> NoCall, whole |-> FALSE, code |-> none] /\ none \in SourceText \cup {<<>>}
  BY DEF NoFile
<1> HIDE DEF none
<1>2. NoFile \in ExportedFile /\ NoFile.by = NoCall
  BY <1>1 DEF ExportedFile, Seen
<1>3. call \in GeneratorCall /\ call.pc = "new"
  <2> DEFINE name == NoName
  <2>1. call = [pc |-> "new", name |-> name, size |-> NoCall, hash |-> NoCall,
               checked |-> Unchecked, shared |-> FALSE]
        /\ name \in Filename \cup {NoName}
    OBVIOUS
  <2> HIDE DEF name
  <2> QED
    BY <2>1 DEF GeneratorCall, Seen
<1>4. exported = [f \in Filename |-> NoFile] /\ generation = [g \in Generation |-> call]
  BY DEF FactoryInit
<1> HIDE DEF call
<1>5. exported \in [Filename -> ExportedFile] /\ generation \in [Generation -> GeneratorCall]
  BY <1>2, <1>3, <1>4
<1>6. /\ \A f \in Filename : exported[f].by = NoCall
      /\ \A g \in Generation : generation[g].pc = "new"
  BY <1>2, <1>3, <1>4
<1>7. FilesOk
  BY <1>6 DEF FilesOk, Live
<1> QED
  BY <1>5, <1>7 DEF FactoryInv

\* For any calls of the generators, files and code, however the calls interleave: a
\* report of a file that no other call wrote meanwhile is of the call's own content,
\* what is not whole is not reported, and where the report says that brackets were
\* checked none of the file closes nothing.
THEOREM ReportsAreOwn == FactorySpec => []ReportsOwn
<1>1. FactoryInv /\ [FactoryNext]_factoryVars => FactoryInv'
  <2> SUFFICES ASSUME FactoryInv, [FactoryNext]_factoryVars PROVE FactoryInv'
    OBVIOUS
  <2>1. CASE UNCHANGED factoryVars
    <3>1. exported' = exported /\ generation' = generation
      BY <2>1 DEF factoryVars
    <3> QED
      BY <3>1 DEF FactoryInv, FilesOk
  <2>2. ASSUME NEW g \in Generation,
               \/ generate_word_document(g) \/ write_markdown_file(g) \/ generate_pdf_document(g)
               \/ generate_presentation_deck(g) \/ generate_config_envelope(g)
        PROVE  FactoryInv'
    BY <2>2, SavesKeeps DEF generate_word_document, write_markdown_file, generate_pdf_document,
                            generate_presentation_deck, generate_config_envelope
  <2> QED
    BY <2>1, <2>2, CsvKeeps, ExcelKeeps, SourceKeeps, LooksKeep DEF FactoryNext
<1>2. FactoryInv => ReportsOwn
  <2> SUFFICES ASSUME FactoryInv PROVE ReportsOwn
    OBVIOUS
  <2>1. FactoryTypeOK
    BY CallTypes DEF FactoryInv
  <2> QED
    BY <2>1 DEF FactoryInv, FilesOk, ReportsOwn
<1> QED
  BY <1>1, <1>2, FactoryInitially, PTL DEF FactorySpec

-----------------------------------------------------------------------------
(* EvalHarness                                                                *)

Three(S, a, b, c) == S = {a, b, c}

LEMMA CountOfThree ==
  ASSUME NEW a, NEW b, NEW c, NEW S, Three(S, a, b, c)
  PROVE  /\ Cardinality(S) = 1 <=> a = b /\ b = c
         /\ Cardinality(S) = 3 <=> a # b /\ b # c /\ a # c
         /\ a = b => (Cardinality(S) = 2 <=> b # c)
<1>1. IsFiniteSet({a}) /\ Cardinality({a}) = 1
  BY FS_Singleton
<1> DEFINE T == {a} \cup {b}
<1>2. IsFiniteSet(T) /\ Cardinality(T) = IF b \in {a} THEN 1 ELSE 1 + 1
  BY <1>1, FS_AddElement
<1>3. (c \in T <=> c = a \/ c = b) /\ (b \in {a} <=> a = b)
  OBVIOUS
<1>4. S = T \cup {c}
  BY DEF Three
<1> HIDE DEF T
<1>5. IsFiniteSet(S) /\ Cardinality(S) = IF c \in T THEN Cardinality(T) ELSE Cardinality(T) + 1
  BY <1>2, <1>4, FS_AddElement
<1>6. CASE a = b
  <2>1. Cardinality(T) = 1
    BY <1>2, <1>3, <1>6
  <2> QED
    BY <1>3, <1>5, <1>6, <2>1
<1>7. CASE a # b
  <2>1. Cardinality(T) = 2
    BY <1>2, <1>3, <1>7
  <2> QED
    BY <1>3, <1>5, <1>7, <2>1
<1> QED
  BY <1>6, <1>7

\* The last m calls of the first n.
FirstCalls(h, calls, n) == h = SubSeq(calls, 1, n)
LastCalls(q, h, m) == q = Recent(h, m)

LEMMA FirstCallsAre ==
  ASSUME NEW calls \in Seq(Call), NEW n \in 1..Len(calls), NEW h, FirstCalls(h, calls, n)
  PROVE  /\ h \in Seq(Call) /\ Len(h) = n /\ DOMAIN h = 1..n
         /\ \A i \in 1..n : h[i] = calls[i] /\ h[i] \in Call
<1>1. /\ Len(calls) \in Nat /\ n \in Nat /\ n <= Len(calls) /\ 1 <= n
      /\ \A i \in 1..Len(calls) : calls[i] \in Call
  OBVIOUS
<1>2. /\ h \in Seq(Call) /\ Len(h) = IF 1 <= n THEN n - 1 + 1 ELSE 0
      /\ \A i \in 1..n - 1 + 1 : h[i] = calls[1 + i - 1]
  <2>1. \A i \in 1..n : calls[i] \in Call
    BY <1>1
  <2> QED
    BY <1>1, <2>1, SubSeqProperties DEF FirstCalls
<1>3. n - 1 + 1 = n /\ \A i \in 1..n : 1 + i - 1 = i
  BY <1>1
<1>4. Len(h) = n /\ \A i \in 1..n : h[i] = calls[i] /\ h[i] \in Call
  BY <1>1, <1>2, <1>3
<1>5. DOMAIN h = 1..n
  BY <1>2, <1>4
<1> QED
  BY <1>2, <1>4, <1>5

LEMMA RecentCalls ==
  ASSUME NEW calls \in Seq(Call), NEW n \in 1..Len(calls), NEW m \in 1..n,
         NEW h, FirstCalls(h, calls, n), NEW q, LastCalls(q, h, m)
  PROVE  Len(h) = n /\ DOMAIN q = 1..m /\ \A i \in 1..m : q[i] = calls[n - m + i]
<1> DEFINE r == SubSeq(h, n - m + 1, n)
<1>1. n \in Nat /\ m \in Nat /\ m <= n /\ 1 <= n /\ 1 <= m
  OBVIOUS
<1>2. h \in Seq(Call)
  BY FirstCallsAre
<1>4. Len(h) = n /\ \A i \in 1..n : h[i] = calls[i] /\ h[i] \in Call
  BY FirstCallsAre
<1>6. /\ r \in Seq(Call) /\ Len(r) = IF n - m + 1 <= n THEN n - (n - m + 1) + 1 ELSE 0
      /\ \A i \in 1..n - (n - m + 1) + 1 : r[i] = h[n - m + 1 + i - 1]
  <2>1. \A i \in n - m + 1..n : h[i] \in Call
    BY <1>1, <1>4
  <2>2. n - m + 1 \in Nat /\ n - m + 1 >= 1
    BY <1>1
  <2> QED
    BY <1>1, <1>2, <2>1, <2>2, SubSeqProperties
<1>7. /\ n - (n - m + 1) + 1 = m /\ n - m + 1 <= n
      /\ \A i \in 1..m : n - m + 1 + i - 1 = n - m + i /\ n - m + i \in 1..n
  BY <1>1
<1> HIDE DEF r
<1>8. Len(r) = m /\ \A i \in 1..m : r[i] = calls[n - m + i]
  BY <1>4, <1>6, <1>7
<1>9. DOMAIN r = 1..m
  BY <1>6, <1>8
<1>10. r = q
  BY <1>4 DEF LastCalls, Recent, r
<1> QED
  BY <1>4, <1>8, <1>9, <1>10

\* What LoopDetector sees at the end of the first n calls, told of the calls.
LEMMA RepeatsAt ==
  ASSUME NEW calls \in Seq(Call), NEW n \in 1..Len(calls)
  PROVE  Repeats(SubSeq(calls, 1, n)) <=>
           n >= 3 /\ calls[n - 2] = calls[n - 1] /\ calls[n - 1] = calls[n]
<1> DEFINE h == SubSeq(calls, 1, n)
           r == Recent(h, 3)
<1>1. Len(h) = n
  <2>1. 1 \in 1..n
    OBVIOUS
  <2> QED
    BY <2>1, RecentCalls
<1>2. CASE n >= 3
  <2>1. 3 \in 1..n
    BY <1>2
  <2>2. DOMAIN r = 1..3 /\ \A i \in 1..3 : r[i] = calls[n - 3 + i]
    <3>1. PICK m \in 1..n : m = 3
      BY <2>1
    <3>2. FirstCalls(h, calls, n) /\ LastCalls(r, h, m)
      BY <3>1 DEF FirstCalls, LastCalls
    <3> HIDE DEF r, h
    <3>3. DOMAIN r = 1..m /\ \A i \in 1..m : r[i] = calls[n - m + i]
      BY <3>2, RecentCalls
    <3> QED
      BY <3>1, <3>3
  <2>3. n - 3 + 1 = n - 2 /\ n - 3 + 2 = n - 1 /\ n - 3 + 3 = n
    OBVIOUS
  <2>4. r[1] = calls[n - 2] /\ r[2] = calls[n - 1] /\ r[3] = calls[n]
    BY <2>2, <2>3
  <2>5. ToSet(r) = {r[1], r[2], r[3]}
    <3>1. 1..3 = {1, 2, 3}
      OBVIOUS
    <3> QED
      BY <2>2, <3>1 DEF ToSet
  <2>6. Cardinality(ToSet(r)) = 1 <=> r[1] = r[2] /\ r[2] = r[3]
    <3> DEFINE a == r[1]
               b == r[2]
               c == r[3]
               S == ToSet(r)
    <3>1. Three(S, a, b, c)
      BY <2>5 DEF Three
    <3> HIDE DEF a, b, c, S
    <3>2. Cardinality(S) = 1 <=> a = b /\ b = c
      BY <3>1, CountOfThree
    <3> QED
      BY <3>2 DEF a, b, c, S
  <2> HIDE DEF h, r
  <2>7. Repeats(h) <=> Cardinality(ToSet(r)) = 1
    BY <1>1, <1>2 DEF Repeats, r
  <2> QED
    BY <1>2, <2>4, <2>6, <2>7 DEF h
<1>3. CASE ~(n >= 3)
  BY <1>1, <1>3 DEF Repeats
<1> QED
  BY <1>2, <1>3

LEMMA CyclesAt ==
  ASSUME NEW calls \in Seq(Call), NEW n \in 1..Len(calls)
  PROVE  /\ Cycles(SubSeq(calls, 1, n), 2) <=>
              /\ n >= 4 /\ calls[n - 3] = calls[n - 1] /\ calls[n - 2] = calls[n]
              /\ calls[n - 1] # calls[n]
         /\ Cycles(SubSeq(calls, 1, n), 3) <=>
              /\ n >= 6 /\ calls[n - 5] = calls[n - 2] /\ calls[n - 4] = calls[n - 1]
              /\ calls[n - 3] = calls[n]
              /\ calls[n - 2] # calls[n - 1] /\ calls[n - 1] # calls[n] /\ calls[n - 2] # calls[n]
<1> DEFINE h == SubSeq(calls, 1, n)
<1>1. Len(h) = n
  <2>1. 1 \in 1..n
    OBVIOUS
  <2> QED
    BY <2>1, RecentCalls
<1>2. Cycles(h, 2) <=>
        /\ n >= 4 /\ calls[n - 3] = calls[n - 1] /\ calls[n - 2] = calls[n]
        /\ calls[n - 1] # calls[n]
  <2> DEFINE r == Recent(h, 4)
  <2>1. CASE n >= 4
    <3>1. 4 \in 1..n
      BY <2>1
    <3>2. DOMAIN r = 1..4 /\ \A i \in 1..4 : r[i] = calls[n - 4 + i]
      <4>1. PICK m \in 1..n : m = 4
        BY <3>1
      <4>2. FirstCalls(h, calls, n) /\ LastCalls(r, h, m)
        BY <4>1 DEF FirstCalls, LastCalls
      <4> HIDE DEF r, h
      <4>3. DOMAIN r = 1..m /\ \A i \in 1..m : r[i] = calls[n - m + i]
        BY <4>2, RecentCalls
      <4> QED
        BY <4>1, <4>3
    <3>3. n - 4 + 1 = n - 3 /\ n - 4 + 2 = n - 2 /\ n - 4 + 3 = n - 1 /\ n - 4 + 4 = n
      OBVIOUS
    <3>4. r[1] = calls[n - 3] /\ r[2] = calls[n - 2] /\ r[3] = calls[n - 1] /\ r[4] = calls[n]
      BY <3>2, <3>3
    <3>5. ToSet(r) = {r[1], r[2], r[3], r[4]}
      <4>1. 1..4 = {1, 2, 3, 4}
        OBVIOUS
      <4> QED
        BY <3>2, <4>1 DEF ToSet
    <3> HIDE DEF h, r
    <3>6. Cycles(h, 2) <=> (\A i \in 1..2 : r[i] = r[i + 2]) /\ Cardinality(ToSet(r)) = 2
      BY <1>1, <2>1 DEF Cycles, r
    <3>7. (\A i \in 1..2 : r[i] = r[i + 2]) <=> r[1] = r[3] /\ r[2] = r[4]
      <4>1. 1..2 = {1, 2} /\ 1 + 2 = 3 /\ 2 + 2 = 4
        OBVIOUS
      <4> QED
        BY <4>1
    <3>8. r[1] = r[3] /\ r[2] = r[4] => ToSet(r) = {r[3], r[4]}
      BY <3>5
    <3>9. Cardinality({r[3], r[4]}) = 2 <=> r[3] # r[4]
      <4> DEFINE a == r[3]
                 c == r[4]
                 S == {r[3], r[4]}
      <4>1. Three(S, a, a, c)
        BY DEF Three
      <4> HIDE DEF a, c, S
      <4>2. Cardinality(S) = 2 <=> a # c
        BY <4>1, CountOfThree
      <4> QED
        BY <4>2 DEF a, c, S
    <3>10. Cycles(h, 2) <=> r[1] = r[3] /\ r[2] = r[4] /\ r[3] # r[4]
      BY <3>6, <3>7, <3>8, <3>9
    <3> QED
      BY <2>1, <3>4, <3>10
  <2>2. CASE ~(n >= 4)
    BY <1>1, <2>2 DEF Cycles
  <2> QED
    BY <2>1, <2>2
<1>3. Cycles(h, 3) <=>
        /\ n >= 6 /\ calls[n - 5] = calls[n - 2] /\ calls[n - 4] = calls[n - 1]
        /\ calls[n - 3] = calls[n]
        /\ calls[n - 2] # calls[n - 1] /\ calls[n - 1] # calls[n] /\ calls[n - 2] # calls[n]
  <2> DEFINE r == Recent(h, 6)
  <2>1. CASE n >= 6
    <3>1. 6 \in 1..n
      BY <2>1
    <3>2. DOMAIN r = 1..6 /\ \A i \in 1..6 : r[i] = calls[n - 6 + i]
      <4>1. PICK m \in 1..n : m = 6
        BY <3>1
      <4>2. FirstCalls(h, calls, n) /\ LastCalls(r, h, m)
        BY <4>1 DEF FirstCalls, LastCalls
      <4> HIDE DEF r, h
      <4>3. DOMAIN r = 1..m /\ \A i \in 1..m : r[i] = calls[n - m + i]
        BY <4>2, RecentCalls
      <4> QED
        BY <4>1, <4>3
    <3>3. /\ n - 6 + 1 = n - 5 /\ n - 6 + 2 = n - 4 /\ n - 6 + 3 = n - 3
          /\ n - 6 + 4 = n - 2 /\ n - 6 + 5 = n - 1 /\ n - 6 + 6 = n
      OBVIOUS
    <3>4. /\ r[1] = calls[n - 5] /\ r[2] = calls[n - 4] /\ r[3] = calls[n - 3]
          /\ r[4] = calls[n - 2] /\ r[5] = calls[n - 1] /\ r[6] = calls[n]
      BY <3>2, <3>3
    <3>5. ToSet(r) = {r[1], r[2], r[3], r[4], r[5], r[6]}
      <4>1. DOMAIN r = {1, 2, 3, 4, 5, 6}
        BY <3>2
      <4> HIDE DEF r
      <4>2. ToSet(r) = {r[i] : i \in {1, 2, 3, 4, 5, 6}}
        BY <4>1 DEF ToSet
      <4> QED
        BY <4>2
    <3> HIDE DEF h, r
    <3>6. Cycles(h, 3) <=> (\A i \in 1..3 : r[i] = r[i + 3]) /\ Cardinality(ToSet(r)) = 3
      BY <1>1, <2>1 DEF Cycles, r
    <3>7. (\A i \in 1..3 : r[i] = r[i + 3]) <=> r[1] = r[4] /\ r[2] = r[5] /\ r[3] = r[6]
      <4>1. 1..3 = {1, 2, 3} /\ 1 + 3 = 4 /\ 2 + 3 = 5 /\ 3 + 3 = 6
        OBVIOUS
      <4> QED
        BY <4>1
    <3>8. r[1] = r[4] /\ r[2] = r[5] /\ r[3] = r[6] => ToSet(r) = {r[4], r[5], r[6]}
      BY <3>5
    <3>9. Cardinality({r[4], r[5], r[6]}) = 3 <=> r[4] # r[5] /\ r[5] # r[6] /\ r[4] # r[6]
      <4> DEFINE a == r[4]
                 b == r[5]
                 c == r[6]
                 S == {r[4], r[5], r[6]}
      <4>1. Three(S, a, b, c)
        BY DEF Three
      <4> HIDE DEF a, b, c, S
      <4>2. Cardinality(S) = 3 <=> a # b /\ b # c /\ a # c
        BY <4>1, CountOfThree
      <4> QED
        BY <4>2 DEF a, b, c, S
    <3>10. Cycles(h, 3) <=> /\ r[1] = r[4] /\ r[2] = r[5] /\ r[3] = r[6]
                            /\ r[4] # r[5] /\ r[5] # r[6] /\ r[4] # r[6]
      BY <3>6, <3>7, <3>8, <3>9
    <3> QED
      BY <2>1, <3>4, <3>10
  <2>2. CASE ~(n >= 6)
    BY <1>1, <2>2 DEF Cycles
  <2> QED
    BY <2>1, <2>2
<1> QED
  BY <1>2, <1>3

LEMMA CollapsesAt ==
  ASSUME NEW calls \in Seq(Call), NEW n \in 1..Len(calls), NEW h, FirstCalls(h, calls, n)
  PROVE  Collapses(h) <=> /\ n >= 6
                          /\ \E k \in 1..n :
                               \/ \A i \in 1..n : calls[i][1] = calls[k][1]
                               \/ /\ n >= 13
                                  /\ Cardinality({i \in 1..n : calls[i][1] # calls[k][1]}) = 1
<1>1. Len(h) = n /\ DOMAIN h = 1..n /\ \A i \in 1..n : h[i] = calls[i]
  BY FirstCallsAre
<1>2. \A k \in 1..n : {i \in DOMAIN h : h[i][1] # h[k][1]} = {i \in 1..n : calls[i][1] # calls[k][1]}
  BY <1>1
<1>3. Collapses(h) <=> /\ n >= 6
                       /\ \E k \in 1..n :
                            \/ {i \in DOMAIN h : h[i][1] # h[k][1]} = {}
                            \/ /\ n >= 13
                               /\ Cardinality({i \in DOMAIN h : h[i][1] # h[k][1]}) = 1
  <2> DEFINE P(t) == \/ {i \in DOMAIN h : h[i][1] # t} = {}
                     \/ Len(h) >= 13 /\ Cardinality({i \in DOMAIN h : h[i][1] # t}) = 1
             names == {h[i][1] : i \in DOMAIN h}
  <2>1. Collapses(h) <=> Len(h) >= 6 /\ \E t \in names : P(t)
    BY DEF Collapses
  <2>2. (\E t \in names : P(t)) <=> \E k \in 1..n : P(h[k][1])
    <3> HIDE DEF P
    <3> QED
      BY <1>1
  <2> QED
    BY <1>1, <2>1, <2>2
<1>4. \A k \in 1..n : {i \in 1..n : calls[i][1] # calls[k][1]} = {} <=>
                        \A i \in 1..n : calls[i][1] = calls[k][1]
  OBVIOUS
<1> QED
  BY <1>2, <1>3, <1>4

\* Calls in turn, from one place on.
LEMMA TwoInTurn ==
  ASSUME NEW calls, NEW i \in Nat
  PROVE  (\A j, k \in 0..2 * 2 - 1 : calls[i + j] = calls[i + k] <=> j % 2 = k % 2) <=>
           calls[i] = calls[i + 2] /\ calls[i + 1] = calls[i + 3] /\ calls[i + 2] # calls[i + 3]
<1> DEFINE f == [j \in 0..3 |-> calls[i + j]]
<1>1. 0..2 * 2 - 1 = {0, 1, 2, 3} /\ 0..3 = {0, 1, 2, 3}
  OBVIOUS
<1>2. 0 % 2 = 0 /\ 1 % 2 = 1 /\ 2 % 2 = 0 /\ 3 % 2 = 1
  OBVIOUS
<1>3. f[0] = calls[i] /\ f[1] = calls[i + 1] /\ f[2] = calls[i + 2] /\ f[3] = calls[i + 3]
  OBVIOUS
<1>4. \A j \in {0, 1, 2, 3} : calls[i + j] = f[j]
  BY <1>1
<1> HIDE DEF f
<1>5. (\A j, k \in {0, 1, 2, 3} : f[j] = f[k] <=> j % 2 = k % 2) <=>
        f[0] = f[2] /\ f[1] = f[3] /\ f[2] # f[3]
  BY <1>2
<1> QED
  BY <1>1, <1>3, <1>4, <1>5

LEMMA ThreeInTurn ==
  ASSUME NEW calls, NEW i \in Nat
  PROVE  (\A j, k \in 0..2 * 3 - 1 : calls[i + j] = calls[i + k] <=> j % 3 = k % 3) <=>
           /\ calls[i] = calls[i + 3] /\ calls[i + 1] = calls[i + 4] /\ calls[i + 2] = calls[i + 5]
           /\ calls[i + 3] # calls[i + 4] /\ calls[i + 4] # calls[i + 5] /\ calls[i + 3] # calls[i + 5]
<1> DEFINE f == [j \in 0..5 |-> calls[i + j]]
<1>1. 0..2 * 3 - 1 = {0, 1, 2, 3, 4, 5} /\ 0..5 = {0, 1, 2, 3, 4, 5}
  OBVIOUS
<1>2. 0 % 3 = 0 /\ 1 % 3 = 1 /\ 2 % 3 = 2 /\ 3 % 3 = 0 /\ 4 % 3 = 1 /\ 5 % 3 = 2
  OBVIOUS
<1>3. /\ f[0] = calls[i] /\ f[1] = calls[i + 1] /\ f[2] = calls[i + 2] /\ f[3] = calls[i + 3]
      /\ f[4] = calls[i + 4] /\ f[5] = calls[i + 5]
  OBVIOUS
<1>4. \A j \in {0, 1, 2, 3, 4, 5} : calls[i + j] = f[j]
  BY <1>1
<1> HIDE DEF f
<1>5. (\A j, k \in {0, 1, 2, 3, 4, 5} : f[j] = f[k] <=> j % 3 = k % 3) <=>
        /\ f[0] = f[3] /\ f[1] = f[4] /\ f[2] = f[5]
        /\ f[3] # f[4] /\ f[4] # f[5] /\ f[3] # f[5]
  BY <1>2
<1> QED
  BY <1>1, <1>3, <1>4, <1>5

\* At most one element of a set is in a part of it when the set has one.
LEMMA PartOfOne ==
  ASSUME NEW S, IsFiniteSet(S), Cardinality(S) = 1, NEW T \in SUBSET S
  PROVE  T = {} \/ Cardinality(T) = 1
<1>1. IsFiniteSet(T) /\ Cardinality(T) <= Cardinality(S)
  BY FS_Subset
<1>2. Cardinality(T) \in Nat /\ (Cardinality(T) = 0 <=> T = {})
  BY <1>1, FS_CardinalityType, FS_EmptySet
<1> QED
  BY <1>1, <1>2

\* The parts of Loops, and what each is at the end of the first n calls.
OfOneTool(calls, m) == \A i \in 1..m : calls[i][1] = calls[1][1]
OneOther(calls, m) == \E k \in 1..m : Cardinality({i \in 1..m : calls[i][1] # calls[k][1]}) = 1
InTurn(calls, i, n) == \A j, k \in 0..2 * n - 1 : calls[i + j] = calls[i + k] <=> j % n = k % n

LEMMA LoopsParts ==
  ASSUME NEW calls \in Seq(Call)
  PROVE  Loops(calls) <=>
           \/ Len(calls) > MaxSteps
           \/ \E i \in 1..Len(calls) - 2 : calls[i] = calls[i + 1] /\ calls[i] = calls[i + 2]
           \/ \E i \in 1..Len(calls) - 3 : InTurn(calls, i, 2)
           \/ \E i \in 1..Len(calls) - 5 : InTurn(calls, i, 3)
           \/ Len(calls) >= 6 /\ OfOneTool(calls, 6)
           \/ Len(calls) >= 13 /\ OneOther(calls, 13)
<1> DEFINE L == Len(calls)
<1>1. L \in Nat
  OBVIOUS
<1> HIDE DEF L
<1>2. 2..3 = {2, 3}
  OBVIOUS
<1>3. (\E i \in 1..L, n \in 2..3 : i + 2 * n - 1 <= L /\ InTurn(calls, i, n)) <=>
        \/ \E i \in 1..L - 3 : InTurn(calls, i, 2)
        \/ \E i \in 1..L - 5 : InTurn(calls, i, 3)
  <2>1. (\E i \in 1..L, n \in 2..3 : i + 2 * n - 1 <= L /\ InTurn(calls, i, n)) <=>
          \/ \E i \in 1..L : i + 2 * 2 - 1 <= L /\ InTurn(calls, i, 2)
          \/ \E i \in 1..L : i + 2 * 3 - 1 <= L /\ InTurn(calls, i, 3)
    BY <1>2
  <2>2. (\E i \in 1..L : i + 2 * 2 - 1 <= L /\ InTurn(calls, i, 2)) <=>
          \E i \in 1..L - 3 : InTurn(calls, i, 2)
    BY <1>1
  <2>3. (\E i \in 1..L : i + 2 * 3 - 1 <= L /\ InTurn(calls, i, 3)) <=>
          \E i \in 1..L - 5 : InTurn(calls, i, 3)
    BY <1>1
  <2> QED
    BY <2>1, <2>2, <2>3
<1>4. Loops(calls) <=>
        \/ L > MaxSteps
        \/ \E i \in 1..L - 2 : calls[i] = calls[i + 1] /\ calls[i] = calls[i + 2]
        \/ \E i \in 1..L, n \in 2..3 : i + 2 * n - 1 <= L /\ InTurn(calls, i, n)
        \/ L >= 6 /\ OfOneTool(calls, 6)
        \/ L >= 13 /\ OneOther(calls, 13)
  BY Zenon DEF Loops, OfOneTool, OneOther, InTurn, L
<1> QED
  BY <1>3, <1>4 DEF L

LEMMA SeenAt ==
  ASSUME NEW calls \in Seq(Call), NEW n \in 1..Len(calls)
  PROVE  inspect_step(SubSeq(calls, 1, n)) <=>
           \/ n > MaxSteps
           \/ n >= 3 /\ calls[n - 2] = calls[n - 1] /\ calls[n - 1] = calls[n]
           \/ n >= 4 /\ InTurn(calls, n - 3, 2)
           \/ n >= 6 /\ InTurn(calls, n - 5, 3)
           \/ n >= 6 /\ OfOneTool(calls, n)
           \/ n >= 13 /\ OneOther(calls, n)
<1> DEFINE h == SubSeq(calls, 1, n)
<1>1. n \in Nat /\ 1 <= n
  OBVIOUS
<1>2. Len(h) = n
  <2>1. 1 \in 1..n
    OBVIOUS
  <2> QED
    BY <2>1, RecentCalls
<1>3. Repeats(h) <=> n >= 3 /\ calls[n - 2] = calls[n - 1] /\ calls[n - 1] = calls[n]
  BY RepeatsAt
<1>4. Cycles(h, 2) <=> n >= 4 /\ InTurn(calls, n - 3, 2)
  <2>1. CASE n >= 4
    <3>1. n - 3 \in Nat /\ n - 3 + 1 = n - 2 /\ n - 3 + 2 = n - 1 /\ n - 3 + 3 = n
      BY <1>1, <2>1
    <3>2. InTurn(calls, n - 3, 2) <=>
            /\ calls[n - 3] = calls[n - 3 + 2] /\ calls[n - 3 + 1] = calls[n - 3 + 3]
            /\ calls[n - 3 + 2] # calls[n - 3 + 3]
      BY <3>1, TwoInTurn DEF InTurn
    <3> QED
      BY <2>1, <3>1, <3>2, CyclesAt
  <2>2. CASE ~(n >= 4)
    BY <2>2, CyclesAt
  <2> QED
    BY <2>1, <2>2
<1>5. Cycles(h, 3) <=> n >= 6 /\ InTurn(calls, n - 5, 3)
  <2>1. CASE n >= 6
    <3>1. /\ n - 5 \in Nat /\ n - 5 + 1 = n - 4 /\ n - 5 + 2 = n - 3 /\ n - 5 + 3 = n - 2
          /\ n - 5 + 4 = n - 1 /\ n - 5 + 5 = n
      BY <1>1, <2>1
    <3>2. InTurn(calls, n - 5, 3) <=>
            /\ calls[n - 5] = calls[n - 5 + 3] /\ calls[n - 5 + 1] = calls[n - 5 + 4]
            /\ calls[n - 5 + 2] = calls[n - 5 + 5] /\ calls[n - 5 + 3] # calls[n - 5 + 4]
            /\ calls[n - 5 + 4] # calls[n - 5 + 5] /\ calls[n - 5 + 3] # calls[n - 5 + 5]
      BY <3>1, ThreeInTurn DEF InTurn
    <3> QED
      BY <2>1, <3>1, <3>2, CyclesAt
  <2>2. CASE ~(n >= 6)
    BY <2>2, CyclesAt
  <2> QED
    BY <2>1, <2>2
<1>6. Collapses(h) <=> \/ n >= 6 /\ OfOneTool(calls, n)
                       \/ n >= 13 /\ OneOther(calls, n)
  <2>1. FirstCalls(h, calls, n)
    BY DEF FirstCalls
  <2> HIDE DEF h
  <2>2. Collapses(h) <=> /\ n >= 6
                         /\ \E k \in 1..n :
                              \/ \A i \in 1..n : calls[i][1] = calls[k][1]
                              \/ /\ n >= 13
                                 /\ Cardinality({i \in 1..n : calls[i][1] # calls[k][1]}) = 1
    BY <2>1, CollapsesAt
  <2>3. (\E k \in 1..n : \A i \in 1..n : calls[i][1] = calls[k][1]) <=> OfOneTool(calls, n)
    <3>1. 1 \in 1..n
      BY <1>1
    <3> QED
      BY <3>1 DEF OfOneTool
  <2>4. Collapses(h) <=> n >= 6 /\ (OfOneTool(calls, n) \/ (n >= 13 /\ OneOther(calls, n)))
    BY <2>2, <2>3 DEF OneOther
  <2>5. n >= 13 => n >= 6
    BY <1>1
  <2> QED
    BY <2>4, <2>5
<1> HIDE DEF h
<1>7. inspect_step(h) <=> n > MaxSteps \/ Repeats(h) \/ Cycles(h, 2) \/ Cycles(h, 3) \/ Collapses(h)
  BY <1>2 DEF inspect_step
<1> QED
  BY <1>3, <1>4, <1>5, <1>6, <1>7 DEF h

LEMMA CollapseBegins ==
  ASSUME NEW calls \in Seq(Call), NEW n \in Nat, n >= 13, OneOther(calls, n)
  PROVE  OfOneTool(calls, 6) \/ OneOther(calls, 13)
<1>1. PICK k \in 1..n : Cardinality({i \in 1..n : calls[i][1] # calls[k][1]}) = 1
  BY DEF OneOther
<1> DEFINE t == calls[k][1]
           S == {i \in 1..n : calls[i][1] # t}
           T == {i \in 1..13 : calls[i][1] # t}
<1>2. IsFiniteSet(S)
  <2>1. IsFiniteSet(1..n) /\ S \subseteq 1..n
    BY FS_Interval
  <2> QED
    BY <2>1, FS_Subset
<1>3. T \in SUBSET S /\ Cardinality(S) = 1
  BY <1>1
<1>4. T = {} \/ Cardinality(T) = 1
  <2> HIDE DEF S, T
  <2> QED
    BY <1>2, <1>3, PartOfOne
<1>5. CASE T = {}
  <2>1. \A i \in 1..13 : calls[i][1] = t
    BY <1>5
  <2>2. OfOneTool(calls, 6)
    <3> HIDE DEF t
    <3>1. 1 \in 1..13 /\ \A i \in 1..6 : i \in 1..13
      OBVIOUS
    <3> QED
      BY <2>1, <3>1 DEF OfOneTool
  <2> QED
    BY <2>2
<1>6. CASE Cardinality(T) = 1
  <2>1. T # 1..13
    <3>1. PICK a, b \in Int : a = 1 /\ b = 13
      OBVIOUS
    <3>2. Cardinality(a..b) = IF a > b THEN 0 ELSE b - a + 1
      BY FS_Interval
    <3>3. Cardinality(a..b) = 13
      BY <3>1, <3>2
    <3>4. Cardinality(1..13) = 13
      BY ZenonT(20), <3>1, <3>3
    <3>5. 1 # 13
      OBVIOUS
    <3> HIDE DEF T
    <3> QED
      BY Zenon, <1>6, <3>4, <3>5
  <2>2. PICK j \in 1..13 : calls[j][1] = t
    BY <2>1
  <2>3. Cardinality({i \in 1..13 : calls[i][1] # calls[j][1]}) = 1
    BY <1>6, <2>2
  <2> QED
    BY <2>3 DEF OneOther
<1> QED
  BY <1>4, <1>5, <1>6

\* Loops are seen when the detector looks after every call, and only loops.
LEMMA LoopsFound ==
  ASSUME NEW calls \in Seq(Call), MaxSteps \in Nat
  PROVE  (\E n \in 1..Len(calls) : inspect_step(SubSeq(calls, 1, n))) <=> Loops(calls)
<1> DEFINE L == Len(calls)
           Stops(n) == inspect_step(SubSeq(calls, 1, n))
<1>0. L \in Nat
  OBVIOUS
<1>1. \A n \in 1..L : Stops(n) <=>
           \/ n > MaxSteps
           \/ n >= 3 /\ calls[n - 2] = calls[n - 1] /\ calls[n - 1] = calls[n]
           \/ n >= 4 /\ InTurn(calls, n - 3, 2)
           \/ n >= 6 /\ InTurn(calls, n - 5, 3)
           \/ n >= 6 /\ OfOneTool(calls, n)
           \/ n >= 13 /\ OneOther(calls, n)
  BY SeenAt
<1>2. Loops(calls) <=>
           \/ L > MaxSteps
           \/ \E i \in 1..L - 2 : calls[i] = calls[i + 1] /\ calls[i] = calls[i + 2]
           \/ \E i \in 1..L - 3 : InTurn(calls, i, 2)
           \/ \E i \in 1..L - 5 : InTurn(calls, i, 3)
           \/ L >= 6 /\ OfOneTool(calls, 6)
           \/ L >= 13 /\ OneOther(calls, 13)
  BY LoopsParts
<1> HIDE DEF L, Stops
<1>3. ASSUME NEW n \in 1..L, Stops(n) PROVE Loops(calls)
  <2>0. n \in Nat /\ 1 <= n /\ n <= L
    BY <1>0
  <2>1. CASE n > MaxSteps
    <3>1. L > MaxSteps
      BY <1>0, <2>0, <2>1
    <3> QED
      BY <1>2, <3>1
  <2>2. CASE n >= 3 /\ calls[n - 2] = calls[n - 1] /\ calls[n - 1] = calls[n]
    <3>1. n - 2 \in 1..L - 2 /\ n - 2 + 1 = n - 1 /\ n - 2 + 2 = n
      BY <1>0, <2>0, <2>2
    <3>2. calls[n - 2] = calls[n - 2 + 1] /\ calls[n - 2] = calls[n - 2 + 2]
      BY <2>2, <3>1
    <3> QED
      BY <1>2, <3>1, <3>2
  <2>3. CASE n >= 4 /\ InTurn(calls, n - 3, 2)
    <3>1. n - 3 \in 1..L - 3
      BY <1>0, <2>0, <2>3
    <3> QED
      BY <1>2, <2>3, <3>1
  <2>4. CASE n >= 6 /\ InTurn(calls, n - 5, 3)
    <3>1. n - 5 \in 1..L - 5
      BY <1>0, <2>0, <2>4
    <3> QED
      BY <1>2, <2>4, <3>1
  <2>5. CASE n >= 6 /\ OfOneTool(calls, n)
    <3>1. L >= 6 /\ \A i \in 1..6 : i \in 1..n
      BY <1>0, <2>0, <2>5
    <3>2. OfOneTool(calls, 6)
      BY <2>5, <3>1 DEF OfOneTool
    <3> QED
      BY <1>2, <3>1, <3>2
  <2>6. CASE n >= 13 /\ OneOther(calls, n)
    <3>1. L >= 13 /\ L >= 6
      BY <1>0, <2>0, <2>6
    <3>2. OfOneTool(calls, 6) \/ OneOther(calls, 13)
      BY <2>0, <2>6, CollapseBegins
    <3> QED
      BY <1>2, <3>1, <3>2
  <2> QED
    BY <1>1, <1>3, <2>1, <2>2, <2>3, <2>4, <2>5, <2>6
<1>4. ASSUME Loops(calls) PROVE \E n \in 1..L : Stops(n)
  <2>1. CASE L > MaxSteps
    <3>1. L \in 1..L
      BY <1>0, <2>1
    <3> QED
      BY <1>1, <2>1, <3>1
  <2>2. CASE \E i \in 1..L - 2 : calls[i] = calls[i + 1] /\ calls[i] = calls[i + 2]
    <3>1. PICK i \in 1..L - 2 : calls[i] = calls[i + 1] /\ calls[i] = calls[i + 2]
      BY <2>2
    <3>2. i + 2 \in 1..L /\ i + 2 >= 3 /\ i + 2 - 2 = i /\ i + 2 - 1 = i + 1
      BY <1>0
    <3>3. calls[i + 2 - 2] = calls[i + 2 - 1] /\ calls[i + 2 - 1] = calls[i + 2]
      BY <3>1, <3>2
    <3>4. Stops(i + 2)
      BY <1>1, <3>2, <3>3
    <3> QED
      BY <3>2, <3>4
  <2>3. CASE \E i \in 1..L - 3 : InTurn(calls, i, 2)
    <3>1. PICK i \in 1..L - 3 : InTurn(calls, i, 2)
      BY <2>3
    <3>2. i + 3 \in 1..L /\ i + 3 >= 4 /\ i + 3 - 3 = i
      BY <1>0
    <3>3. Stops(i + 3)
      BY <1>1, <3>1, <3>2
    <3> QED
      BY <3>2, <3>3
  <2>4. CASE \E i \in 1..L - 5 : InTurn(calls, i, 3)
    <3>1. PICK i \in 1..L - 5 : InTurn(calls, i, 3)
      BY <2>4
    <3>2. i + 5 \in 1..L /\ i + 5 >= 6 /\ i + 5 - 5 = i
      BY <1>0
    <3>3. Stops(i + 5)
      BY <1>1, <3>1, <3>2
    <3> QED
      BY <3>2, <3>3
  <2>5. CASE L >= 6 /\ OfOneTool(calls, 6)
    <3>1. 6 \in 1..L /\ 6 >= 6
      BY <1>0, <2>5
    <3>2. Stops(6)
      BY <1>1, <2>5, <3>1
    <3> QED
      BY <3>1, <3>2
  <2>6. CASE L >= 13 /\ OneOther(calls, 13)
    <3>1. 13 \in 1..L /\ 13 >= 13
      BY <1>0, <2>6
    <3>2. Stops(13)
      BY <1>1, <2>6, <3>1
    <3> QED
      BY <3>1, <3>2
  <2> QED
    BY <1>2, <1>4, <2>1, <2>2, <2>3, <2>4, <2>5, <2>6
<1> QED
  BY <1>3, <1>4 DEF L, Stops

-----------------------------------------------------------------------------
\* What the detector has seen is what was attempted, with the call that runs; an
\* attempt is a loop when the detector said so of the calls up to it.
Heard ==
  /\ harness = "idle" => attempts = <<>>
  /\ harness # "idle" =>
       /\ Len(history) = Len(attempts) + IF harness = "running" THEN 1 ELSE 0
       /\ \A i \in 1..Len(attempts) :
            /\ attempts[i].call = history[i]
            /\ inspect_step(SubSeq(history, 1, i)) <=> attempts[i].status = "LOOP_DETECTED"
       /\ harness = "running" => ~inspect_step(history)

EvalInv == EvalTypeOK /\ Heard /\ LoopsTold

\* The calls of a longer history, up to a place.
LEMMA FirstOfLonger ==
  ASSUME NEW S, NEW h \in Seq(S), NEW e \in S
  PROVE  /\ Append(h, e) \in Seq(S) /\ Len(Append(h, e)) = Len(h) + 1
         /\ Append(h, e)[Len(h) + 1] = e
         /\ SubSeq(Append(h, e), 1, Len(h) + 1) = Append(h, e)
         /\ SubSeq(h, 1, Len(h)) = h
         /\ \A i \in 1..Len(h) : /\ Append(h, e)[i] = h[i]
                                 /\ SubSeq(Append(h, e), 1, i) = SubSeq(h, 1, i)
<1> DEFINE g == Append(h, e)
<1>1. /\ g \in Seq(S) /\ Len(g) = Len(h) + 1 /\ g[Len(h) + 1] = e
      /\ \A i \in 1..Len(h) : g[i] = h[i]
  BY AppendProperties
<1>2. Len(h) \in Nat
  OBVIOUS
<1>3. SubSeq(g, 1, Len(g)) = g /\ SubSeq(h, 1, Len(h)) = h
  <2> HIDE DEF g
  <2>1. ASSUME NEW s \in Seq(S) PROVE SubSeq(s, 1, Len(s)) = s
    BY SubSeqFull
  <2> QED
    BY <1>1, <2>1
<1> HIDE DEF g
<1>4. \A i \in 1..Len(h) : SubSeq(g, 1, i) = SubSeq(h, 1, i)
  <2> TAKE i \in 1..Len(h)
  <2>1. i \in Nat /\ i <= Len(h) /\ i <= Len(g) /\ 1 <= i
    BY <1>1, <1>2
  <2>2. \A j \in 1..i : h[j] \in S /\ g[j] = h[j]
    BY <1>1, <2>1
  <2>3. /\ SubSeq(g, 1, i) \in Seq(S) /\ Len(SubSeq(g, 1, i)) = i
        /\ \A j \in 1..i : SubSeq(g, 1, i)[j] = g[j]
    <3>1. /\ SubSeq(g, 1, i) \in Seq(S) /\ Len(SubSeq(g, 1, i)) = IF 1 <= i THEN i - 1 + 1 ELSE 0
          /\ \A j \in 1..i - 1 + 1 : SubSeq(g, 1, i)[j] = g[1 + j - 1]
      BY <1>1, <2>1, <2>2, SubSeqProperties
    <3>2. i - 1 + 1 = i /\ \A j \in 1..i : 1 + j - 1 = j
      BY <2>1
    <3> QED
      BY <2>1, <3>1, <3>2
  <2>4. /\ SubSeq(h, 1, i) \in Seq(S) /\ Len(SubSeq(h, 1, i)) = i
        /\ \A j \in 1..i : SubSeq(h, 1, i)[j] = h[j]
    <3>1. /\ SubSeq(h, 1, i) \in Seq(S) /\ Len(SubSeq(h, 1, i)) = IF 1 <= i THEN i - 1 + 1 ELSE 0
          /\ \A j \in 1..i - 1 + 1 : SubSeq(h, 1, i)[j] = h[1 + j - 1]
      BY <2>1, <2>2, SubSeqProperties
    <3>2. i - 1 + 1 = i /\ \A j \in 1..i : 1 + j - 1 = j
      BY <2>1
    <3> QED
      BY <2>1, <3>1, <3>2
  <2> QED
    BY <2>2, <2>3, <2>4, SeqEqual
<1> QED
  BY <1>1, <1>3, <1>4 DEF g

LEMMA NothingLoops == MaxSteps \in Nat => ~Loops([i \in 1..0 |-> <<>>[i].call])
<1> DEFINE c == [i \in 1..0 |-> <<>>[i].call]
<1>1. c = <<>>
  BY DOMAIN c = 1..0
<1>2. <<>> \in Seq(Call) /\ Len(<<>>) = 0
  OBVIOUS
<1> HIDE DEF c
<1>3. c \in Seq(Call) /\ 1..Len(c) = {}
  BY <1>1, <1>2
<1> QED
  BY <1>3, LoopsFound DEF c

LEMMA NoReportTold ==
  MaxSteps \in Nat /\ report = NoEvaluation => report.tier \in Tier /\ LoopsTold
<1> SUFFICES ASSUME MaxSteps \in Nat, report = NoEvaluation PROVE report.tier \in Tier /\ LoopsTold
  OBVIOUS
<1>1. report.loop = FALSE /\ report.tier = "LOCAL_SANDBOX" /\ report.attempts = <<>>
  BY DEF NoEvaluation
<1>2. Len(<<>>) = 0
  OBVIOUS
<1>3. ~Loops([i \in 1..Len(report.attempts) |-> report.attempts[i].call])
  BY <1>1, <1>2, NothingLoops
<1> QED
  BY <1>1, <1>3 DEF LoopsTold, Tier

LEMMA EvalInitially == HarnessAssumption /\ EvalInit => EvalInv
<1> SUFFICES ASSUME HarnessAssumption, EvalInit PROVE EvalInv
  OBVIOUS
<1>1. report.tier \in Tier /\ LoopsTold
  BY NoReportTold DEF HarnessAssumption, EvalInit
<1>2. EvalTypeOK
  BY <1>1 DEF EvalInit, EvalTypeOK
<1>3. Heard
  BY DEF EvalInit, Heard
<1> QED
  BY <1>1, <1>2, <1>3 DEF EvalInv

LEMMA TrajectoryIsEmpty == HarnessAssumption /\ EvalInv /\ TrajectoryStarts => EvalInv'
<1> SUFFICES ASSUME HarnessAssumption, EvalInv, TrajectoryStarts PROVE EvalInv'
  OBVIOUS
<1>1. (report.tier \in Tier /\ LoopsTold)'
  <2>1. report' = NoEvaluation /\ MaxSteps \in Nat
    BY DEF TrajectoryStarts, HarnessAssumption
  <2>2. (report = NoEvaluation)'
    BY <2>1
  <2>3. ASSUME (report = NoEvaluation)' PROVE (report.tier \in Tier /\ LoopsTold)'
    <3>1. report'.loop = FALSE /\ report'.tier = "LOCAL_SANDBOX" /\ report'.attempts = <<>>
      BY <2>3 DEF NoEvaluation
    <3>2. Len(<<>>) = 0
      OBVIOUS
    <3>3. ~Loops([i \in 1..Len(report'.attempts) |-> report'.attempts[i].call])
      BY <2>1, <3>1, <3>2, NothingLoops
    <3> QED
      BY <3>1, <3>3 DEF LoopsTold, Tier
  <2> QED
    BY <2>2, <2>3
<1>2. EvalTypeOK'
  BY <1>1 DEF TrajectoryStarts, EvalTypeOK
<1>3. Heard'
  <2>1. history' = <<>> /\ attempts' = <<>> /\ harness' = "next"
    BY DEF TrajectoryStarts
  <2>2. Len(<<>>) = 0 /\ "next" # "running"
    OBVIOUS
  <2> QED
    BY <2>1, <2>2 DEF Heard
<1> QED
  BY <1>1, <1>2, <1>3 DEF EvalInv

\* An attempt is added to what was heard.
LEMMA AttemptIsHeard ==
  ASSUME EvalInv, harness \in {"next", "running"}, NEW call \in Call, NEW status \in Status,
         attempts' = Append(attempts, [call |-> call, status |-> status]),
         history' \in Seq(Call), Len(history') = Len(attempts) + 1,
         history'[Len(attempts) + 1] = call,
         \A i \in 1..Len(attempts) : /\ history'[i] = history[i]
                                     /\ SubSeq(history', 1, i) = SubSeq(history, 1, i),
         inspect_step(SubSeq(history', 1, Len(attempts) + 1)) <=> status = "LOOP_DETECTED",
         harness' \in {"next", "leaving"}, report' = report
  PROVE  EvalInv'
<1> DEFINE a == [call |-> call, status |-> status]
           n == Len(attempts)
           R == [call: Call, status: Status]
<1>1. attempts \in Seq(R) /\ a \in R /\ report.tier \in Tier /\ LoopsTold
  BY DEF EvalInv, EvalTypeOK
<1>2. a.call = call /\ a.status = status
  OBVIOUS
<1>3. n \in Nat
  BY <1>1
<1>4. \A i \in 1..n : /\ attempts[i].call = history[i]
                      /\ inspect_step(SubSeq(history, 1, i)) <=> attempts[i].status = "LOOP_DETECTED"
  BY DEF EvalInv, Heard
<1>5. attempts' = Append(attempts, a)
  OBVIOUS
<1> HIDE DEF a, R
<1>6. /\ attempts' \in Seq(R) /\ Len(attempts') = n + 1 /\ attempts'[n + 1] = a
      /\ \A i \in 1..n : attempts'[i] = attempts[i]
  BY <1>1, <1>5, AppendProperties
<1> HIDE DEF n
<1>7. ASSUME NEW i \in 1..n + 1
      PROVE  /\ attempts'[i].call = history'[i]
             /\ inspect_step(SubSeq(history', 1, i)) <=> attempts'[i].status = "LOOP_DETECTED"
  <2>1. CASE i = n + 1
    BY <1>2, <1>6, <2>1 DEF n
  <2>2. CASE i # n + 1
    <3>1. i \in 1..n
      BY <1>3, <2>2
    <3> QED
      BY <1>4, <1>6, <3>1 DEF n
  <2> QED
    BY <2>1, <2>2
<1>8. EvalTypeOK'
  BY <1>1, <1>6 DEF EvalTypeOK, R
<1>9. Heard'
  <2>1. harness' # "idle" /\ harness' # "running"
    OBVIOUS
  <2>2. Len(history') = Len(attempts') + 0
    BY <1>3, <1>6 DEF n
  <2> QED
    BY <1>6, <1>7, <2>1, <2>2 DEF Heard
<1>10. LoopsTold'
  BY <1>1 DEF LoopsTold
<1> QED
  BY <1>8, <1>9, <1>10 DEF EvalInv

LEMMA CallIsHeard ==
  ASSUME EvalInv, NEW call \in Call, StepBegins(call)
  PROVE  EvalInv'
<1> DEFINE n == Len(attempts)
<1>1. /\ harness = "next" /\ history \in Seq(Call) /\ Len(history) = n + 0
      /\ attempts \in Seq([call: Call, status: Status])
  BY DEF StepBegins, EvalInv, EvalTypeOK, Heard
<1>2. n \in Nat /\ Len(history) = n
  BY <1>1
<1>3. history' = Append(history, call) /\ report' = report
  BY DEF StepBegins
<1> HIDE DEF n
<1>4. /\ history' \in Seq(Call) /\ Len(history') = n + 1 /\ history'[n + 1] = call
      /\ SubSeq(history', 1, n + 1) = history'
      /\ \A i \in 1..n : history'[i] = history[i] /\ SubSeq(history', 1, i) = SubSeq(history, 1, i)
  BY <1>1, <1>2, <1>3, FirstOfLonger
<1>5. ASSUME NEW status \in Status, Attempted(call, status),
             inspect_step(history') <=> status = "LOOP_DETECTED",
             harness' \in {"next", "leaving"}
      PROVE  EvalInv'
  <2>1. inspect_step(SubSeq(history', 1, n + 1)) <=> status = "LOOP_DETECTED"
    BY <1>4, <1>5
  <2>2. attempts' = Append(attempts, [call |-> call, status |-> status])
    BY <1>5 DEF Attempted
  <2>3. harness \in {"next", "running"}
    BY <1>1
  <2> QED
    BY <1>3, <1>4, <1>5, <2>1, <2>2, <2>3, AttemptIsHeard DEF n
<1>6. CASE inspect_step(history') /\ Attempted(call, "LOOP_DETECTED") /\ harness' = "leaving"
  <2>1. "LOOP_DETECTED" \in Status
    BY DEF Status
  <2> QED
    BY <1>5, <1>6, <2>1
<1>7. CASE ~inspect_step(history') /\ Unregistered(call) /\ Attempted(call, "UNREGISTERED")
           /\ UNCHANGED harness
  <2>1. "UNREGISTERED" \in Status /\ "UNREGISTERED" # "LOOP_DETECTED" /\ harness' = "next"
    BY <1>1, <1>7 DEF Status
  <2> QED
    BY <1>5, <1>7, <2>1
<1>8. CASE ~inspect_step(history') /\ Denied(call) /\ Attempted(call, "POLICY_DENIED")
           /\ UNCHANGED harness
  <2>1. "POLICY_DENIED" \in Status /\ "POLICY_DENIED" # "LOOP_DETECTED" /\ harness' = "next"
    BY <1>1, <1>8 DEF Status
  <2> QED
    BY <1>5, <1>8, <2>1
<1>9. CASE ~inspect_step(history') /\ harness' = "running" /\ UNCHANGED attempts
  <2>1. EvalTypeOK'
    BY <1>1, <1>3, <1>4, <1>9 DEF EvalInv, EvalTypeOK
  <2>2. \A i \in 1..n : /\ attempts[i].call = history'[i]
                        /\ inspect_step(SubSeq(history', 1, i)) <=> attempts[i].status = "LOOP_DETECTED"
    <3>1. \A i \in 1..n : /\ attempts[i].call = history[i]
                          /\ inspect_step(SubSeq(history, 1, i)) <=> attempts[i].status = "LOOP_DETECTED"
      BY <1>1 DEF EvalInv, Heard, n
    <3> QED
      BY <1>4, <3>1
  <2>3. Heard'
    BY <1>4, <1>9, <2>2 DEF Heard, n
  <2>4. LoopsTold'
    BY <1>3 DEF EvalInv, LoopsTold
  <2> QED
    BY <2>1, <2>3, <2>4 DEF EvalInv
<1> QED
  BY <1>6, <1>7, <1>8, <1>9 DEF StepBegins

LEMMA ToolIsHeard == EvalInv /\ (ToolReturns \/ ToolTimesOut) => EvalInv'
<1> SUFFICES ASSUME EvalInv, ToolReturns \/ ToolTimesOut PROVE EvalInv'
  OBVIOUS
<1> DEFINE n == Len(attempts)
<1>1. /\ harness = "running" /\ history \in Seq(Call) /\ Len(history) = n + 1
      /\ attempts \in Seq([call: Call, status: Status])
      /\ history' = history /\ report' = report /\ harness' \in {"next", "leaving"}
      /\ ~inspect_step(history)
  BY DEF ToolReturns, ToolTimesOut, EvalInv, EvalTypeOK, Heard
<1>2. n \in Nat
  BY <1>1
<1>3. \E status \in Status : Attempted(Last(history), status) /\ status # "LOOP_DETECTED"
  BY Zenon DEF ToolReturns, ToolTimesOut, Status
<1>4. PICK status \in Status : Attempted(Last(history), status) /\ status # "LOOP_DETECTED"
  BY <1>3
<1> HIDE DEF n
<1> DEFINE call == history[n + 1]
<1>5. call \in Call /\ Last(history) = call
  <2>1. n + 1 \in 1..Len(history)
    BY <1>1, <1>2
  <2> QED
    BY <1>1, <2>1, ElementOfSeq DEF Last
<1>6. SubSeq(history, 1, Len(history)) = history
  BY <1>1, <1>5, FirstOfLonger
<1>7. /\ history'[n + 1] = call
      /\ \A i \in 1..n : history'[i] = history[i] /\ SubSeq(history', 1, i) = SubSeq(history, 1, i)
  BY <1>1
<1>8. attempts' = Append(attempts, [call |-> call, status |-> status])
  BY <1>4, <1>5 DEF Attempted
<1> HIDE DEF call
<1>9. inspect_step(SubSeq(history', 1, n + 1)) <=> status = "LOOP_DETECTED"
  BY <1>1, <1>4, <1>6
<1> QED
  BY <1>1, <1>5, <1>7, <1>8, <1>9, AttemptIsHeard DEF n

\* Refused attempts are the denied ones and those of unknown tools.
LEMMA CountsAre ==
  ASSUME attempts \in Seq([call: Call, status: Status]), NEW status
  PROVE  /\ Count(status) \in Nat
         /\ Count(status) > 0 <=> \E i \in 1..Len(attempts) : attempts[i].status = status
<1> DEFINE S == {i \in DOMAIN attempts : attempts[i].status = status}
<1>1. DOMAIN attempts = 1..Len(attempts) /\ Len(attempts) \in Nat
  OBVIOUS
<1>2. S \subseteq 1..Len(attempts) /\ IsFiniteSet(1..Len(attempts))
  BY <1>1, FS_Interval
<1>3. IsFiniteSet(S)
  BY <1>2, FS_Subset
<1>4. Count(status) = Cardinality(S)
  BY DEF Count
<1>5. S # {} <=> \E i \in 1..Len(attempts) : attempts[i].status = status
  BY <1>1
<1> HIDE DEF S
<1>6. Cardinality(S) \in Nat /\ (Cardinality(S) = 0 <=> S = {})
  BY <1>3, FS_CardinalityType, FS_EmptySet
<1> QED
  BY <1>4, <1>5, <1>6

LEMMA RefusedAre ==
  ASSUME attempts \in Seq([call: Call, status: Status])
  PROVE  Cardinality({i \in 1..Len(attempts) : attempts[i].status \in {"POLICY_DENIED", "UNREGISTERED"}})
           = Count("POLICY_DENIED") + Count("UNREGISTERED")
<1> DEFINE D == {i \in DOMAIN attempts : attempts[i].status = "POLICY_DENIED"}
           U == {i \in DOMAIN attempts : attempts[i].status = "UNREGISTERED"}
           B == {i \in 1..Len(attempts) : attempts[i].status \in {"POLICY_DENIED", "UNREGISTERED"}}
<1>1. DOMAIN attempts = 1..Len(attempts) /\ Len(attempts) \in Nat
  OBVIOUS
<1>2. /\ D \subseteq 1..Len(attempts) /\ U \subseteq 1..Len(attempts)
      /\ IsFiniteSet(1..Len(attempts))
  BY <1>1, FS_Interval
<1>3. IsFiniteSet(D) /\ IsFiniteSet(U)
  BY <1>2, FS_Subset
<1>4. D \cap U = {} /\ D \cup U = B
  BY <1>1
<1>5. Count("POLICY_DENIED") = Cardinality(D) /\ Count("UNREGISTERED") = Cardinality(U)
  BY DEF Count
<1> HIDE DEF D, U, B
<1>6. /\ Cardinality(D \cup U) = Cardinality(D) + Cardinality(U) - Cardinality(D \cap U)
      /\ Cardinality(D) \in Nat /\ Cardinality(U) \in Nat /\ Cardinality({}) = 0
  BY <1>3, FS_Union, FS_CardinalityType, FS_EmptySet
<1>7. Cardinality(D \cap U) = 0 /\ Cardinality(D \cup U) = Cardinality(B)
  BY Zenon, <1>4, <1>6
<1>8. Cardinality(B) = Cardinality(D) + Cardinality(U)
  BY <1>6, <1>7
<1> QED
  BY <1>5, <1>8 DEF B

LEMMA ReportIsTold == HarnessAssumption /\ EvalInv /\ TrajectoryEnds => EvalInv'
<1> SUFFICES ASSUME HarnessAssumption, EvalInv, TrajectoryEnds PROVE EvalInv'
  OBVIOUS
<1> DEFINE n == Len(attempts)
           r == report'
           calls == [i \in 1..n |-> attempts[i].call]
<1>1. /\ attempts \in Seq([call: Call, status: Status]) /\ history \in Seq(Call)
      /\ harness # "idle" /\ harness # "running" /\ Len(history) = n + 0
  BY DEF TrajectoryEnds, EvalInv, EvalTypeOK, Heard
<1>2. n \in Nat /\ Len(history) = n
  BY <1>1
<1>3. \A i \in 1..n : /\ attempts[i].call = history[i]
                      /\ inspect_step(SubSeq(history, 1, i)) <=> attempts[i].status = "LOOP_DETECTED"
  BY <1>1 DEF EvalInv, Heard
<1>4. /\ r.loop <=> Count("LOOP_DETECTED") > 0
      /\ r.timed_out <=> Count("TIMED_OUT") > 0
      /\ r.tier = IF Stable THEN "CLOUD_RTX4090_A100" ELSE "LOCAL_SANDBOX"
      /\ r.attempts = attempts
  BY DEF TrajectoryEnds
<1>5. history' = history /\ attempts' = <<>> /\ harness' = "idle"
  BY DEF TrajectoryEnds
<1>6. calls = history
  <2>1. DOMAIN history = 1..n /\ history = [i \in DOMAIN history |-> history[i]]
    BY <1>1, <1>2
  <2> QED
    BY <1>3, <2>1
<1>7. r.loop <=> Loops(calls)
  <2>1. r.loop <=> \E i \in 1..n : attempts[i].status = "LOOP_DETECTED"
    <3>1. Count("LOOP_DETECTED") > 0 <=> \E i \in 1..Len(attempts) : attempts[i].status = "LOOP_DETECTED"
      BY <1>1, CountsAre
    <3> QED
      BY <1>4, <3>1
  <2> HIDE DEF calls, r, n
  <2>2. r.loop <=> \E i \in 1..n : inspect_step(SubSeq(history, 1, i))
    BY <1>3, <2>1
  <2>3. MaxSteps \in Nat
    BY DEF HarnessAssumption
  <2>4. r.loop <=> Loops(history)
    BY <1>1, <1>2, <2>2, <2>3, LoopsFound
  <2> QED
    BY <1>6, <2>4
<1>8. r.tier \in Tier
  BY <1>4 DEF Tier
<1> DEFINE refused == {i \in 1..n : attempts[i].status \in {"POLICY_DENIED", "UNREGISTERED"}}
<1>9. r.tier = "CLOUD_RTX4090_A100" => ~r.loop /\ ~r.timed_out /\ 2 * Cardinality(refused) <= n
  <2> SUFFICES ASSUME r.tier = "CLOUD_RTX4090_A100"
               PROVE  ~r.loop /\ ~r.timed_out /\ 2 * Cardinality(refused) <= n
    OBVIOUS
  <2>1. Stable
    BY <1>4
  <2>2. /\ Count("LOOP_DETECTED") = 0 /\ Count("TIMED_OUT") = 0
        /\ 30 * Count("POLICY_DENIED") + 40 * Count("UNREGISTERED") <= 15 * n
    BY <2>1 DEF Stable
  <2>3. ~r.loop /\ ~r.timed_out
    <3>1. ~(Count("LOOP_DETECTED") > 0) /\ ~(Count("TIMED_OUT") > 0)
      BY <2>2
    <3> QED
      BY <1>4, <3>1
  <2>4. Cardinality(refused) = Count("POLICY_DENIED") + Count("UNREGISTERED")
    BY <1>1, RefusedAre
  <2>5. Count("POLICY_DENIED") \in Nat /\ Count("UNREGISTERED") \in Nat
    BY <1>1, CountsAre
  <2> HIDE DEF refused, r, n
  <2>6. 2 * Cardinality(refused) <= n
    BY <1>2, <2>2, <2>4, <2>5
  <2> QED
    BY <2>3, <2>6
<1>10. LoopsTold'
  <2> HIDE DEF n
  <2>1. Len(r.attempts) = n
    BY <1>4 DEF n
  <2> QED
    BY <1>4, <1>7, <1>9, <2>1 DEF LoopsTold
<1>11. EvalTypeOK'
  BY <1>1, <1>5, <1>8 DEF EvalTypeOK
<1>12. Heard'
  BY <1>5 DEF Heard
<1> QED
  BY <1>10, <1>11, <1>12 DEF EvalInv

LEMMA EvalStep == HarnessAssumption /\ EvalInv /\ [EvalNext]_evalVars => EvalInv'
<1> SUFFICES ASSUME HarnessAssumption, EvalInv, [EvalNext]_evalVars PROVE EvalInv'
  OBVIOUS
<1>1. CASE TrajectoryStarts
  BY <1>1, TrajectoryIsEmpty
<1>2. CASE ToolReturns \/ ToolTimesOut
  BY <1>2, ToolIsHeard
<1>3. CASE TrajectoryEnds
  BY <1>3, ReportIsTold
<1>4. ASSUME NEW call \in Call, StepBegins(call) PROVE EvalInv'
  BY <1>4, CallIsHeard
<1>5. CASE UNCHANGED evalVars
  <2>1. EvalTypeOK'
    BY <1>5 DEF EvalInv, EvalTypeOK, evalVars
  <2>2. Heard'
    BY <1>5 DEF EvalInv, Heard, evalVars
  <2>3. LoopsTold'
    BY <1>5 DEF EvalInv, LoopsTold, evalVars
  <2> QED
    BY <2>1, <2>2, <2>3 DEF EvalInv
<1> QED
  BY <1>1, <1>2, <1>3, <1>4, <1>5 DEF EvalNext

LEMMA WeightIs ==
  ASSUME NEW role, NEW degraded \in BOOLEAN
  PROVE  RoleWeight(role, degraded) \in Int
<1>1. CASE role = "STRATEGIST"
  BY <1>1 DEF RoleWeight
<1>2. CASE role = "WORKER"
  BY <1>2 DEF RoleWeight
<1>3. CASE role = "AUDITOR"
  BY <1>3 DEF RoleWeight
<1>4. CASE role \notin {"STRATEGIST", "WORKER", "AUDITOR"}
  BY <1>4 DEF RoleWeight
<1> QED
  BY <1>1, <1>2, <1>3, <1>4

\* Half of a score is not more than it, or is below zero too.
LEMMA LoopingIsBehind == HarnessAssumption => LoopingNotAhead
<1> SUFFICES ASSUME HarnessAssumption, NEW t \in Workload, NEW u \in Workload,
                    NEW degraded \in BOOLEAN, Penalized(t, t)
             PROVE  /\ HardwareTier(t, t, degraded) = "LOCAL_SANDBOX"
                    /\ t # u /\ t.role = u.role /\ t.complexity <= u.complexity
                       /\ t.steps >= u.steps /\ t.override <= u.override /\ Score(u, t, degraded) >= 0
                         => Score(t, t, degraded) <= Score(u, t, degraded)
  BY DEF LoopingNotAhead
<1>1. HardwareTier(t, t, degraded) = "LOCAL_SANDBOX"
  BY DEF HardwareTier
<1>2. ASSUME t # u, t.role = u.role, t.complexity <= u.complexity,
             t.steps >= u.steps, t.override <= u.override, Score(u, t, degraded) >= 0
      PROVE  Score(t, t, degraded) <= Score(u, t, degraded)
  <2> DEFINE w == RoleWeight(t.role, degraded)
             capped(v) == IF v.steps > 20 THEN 20 ELSE v.steps
             s(v) == 45 * RoleWeight(v.role, degraded) + 35 * v.complexity - 50 * capped(v) + v.override
  <2>1. ~Penalized(u, t)
    BY <1>2 DEF Penalized
  <2>2. Score(t, t, degraded) = s(t) \div 2 /\ Score(u, t, degraded) = s(u)
    BY <2>1 DEF Score
  <2>3. /\ t.complexity \in Nat /\ t.steps \in Nat /\ t.override \in Int
        /\ u.complexity \in Nat /\ u.steps \in Nat /\ u.override \in Int
    BY DEF HarnessAssumption
  <2>4. w \in Int
    BY WeightIs
  <2>5. capped(t) \in Int /\ capped(u) \in Int /\ capped(u) <= capped(t)
    BY <1>2, <2>3
  <2>6. s(t) = 45 * w + 35 * t.complexity - 50 * capped(t) + t.override
    OBVIOUS
  <2>7. s(u) = 45 * w + 35 * u.complexity - 50 * capped(u) + u.override
    BY <1>2
  <2> HIDE DEF w, capped, s
  <2>8. s(t) \in Int /\ s(u) \in Int /\ s(t) <= s(u)
    BY <1>2, <2>3, <2>4, <2>5, <2>6, <2>7
  <2>9. /\ s(t) \div 2 \in Int
        /\ s(t) >= 0 => s(t) \div 2 <= s(t)
        /\ s(t) < 0 => s(t) \div 2 < 0
    BY <2>8
  <2>10. s(u) >= 0
    BY <1>2, <2>2
  <2> QED
    BY <2>2, <2>8, <2>9, <2>10
<1> QED
  BY <1>1, <1>2

\* A report of a trajectory is true and costs its task what it should, however
\* many trajectories came before (evaluate_trajectory and rank_workloads).
THEOREM ReportIsTrue == EvalSpec => []ReportTrue
<1>1. EvalInit => EvalInv
  BY HarnessAssumption, EvalInitially
<1>2. EvalInv /\ [EvalNext]_evalVars => EvalInv'
  BY HarnessAssumption, EvalStep
<1>3. EvalInv => ReportTrue
  BY HarnessAssumption, LoopingIsBehind DEF EvalInv, ReportTrue
<1> QED
  BY <1>1, <1>2, <1>3, PTL DEF EvalSpec

-----------------------------------------------------------------------------
(* KnowledgeScores: ConfidenceTold is inductive as it stands.                 *)

LEMMA PublishedIsNumber == \A k \in Knowledge : Published[k] \in Nat /\ Published[k] <= 10000
BY ScoresAssumption, ScoreIsNatural

LEMMA ImpactIsNumber == \A u \in Usage : u.impact \in Nat
<1>1. \A i \in Impact : i \in Nat
  BY ScoresAssumption
<1> QED
  BY <1>1 DEF Usage

LEMMA BoundedIs ==
  ASSUME NEW c \in Int
  PROVE  /\ Bounded(c) \in ConfidenceScore
         /\ Bounded(c) = IF c < 0 THEN 0 ELSE IF c > 10000 THEN 10000 ELSE c
BY DEF Bounded, ConfidenceScore

\* What a usage adds to the impacts of its knowledge and its outcome, and to no other.
LEMMA ImpactGrows ==
  ASSUME usage \in Seq(Usage), NEW u \in Usage, record_usage(u), NEW k, NEW way
  PROVE  /\ impact_of(k, way) \in Int
         /\ impact_of(k, way)' =
              impact_of(k, way) + IF u.knowledge = k /\ u.outcome = way THEN u.impact ELSE 0
<1> DEFINE n == Len(usage)
           f == [i \in DOMAIN usage |-> IF i \in Uses(k, way) THEN usage[i].impact ELSE 0]
           g == [i \in DOMAIN usage' |-> IF i \in Uses(k, way)' THEN usage'[i].impact ELSE 0]
           e == IF u.knowledge = k /\ u.outcome = way THEN u.impact ELSE 0
<1>1. n \in Nat /\ DOMAIN usage = 1..n /\ \A i \in 1..n : usage[i] \in Usage
  OBVIOUS
<1>2. \A v \in Usage : v.impact \in Int
  BY ImpactIsNumber
<1>3. usage' = Append(usage, u)
  BY DEF record_usage
<1> HIDE DEF n
<1>4. /\ usage' \in Seq(Usage) /\ Len(usage') = n + 1 /\ usage'[n + 1] = u
      /\ \A i \in 1..n : usage'[i] = usage[i]
  BY <1>3, AppendProperties DEF n
<1>5. DOMAIN usage' = 1..n + 1
  BY <1>4
<1>6. \A i \in 1..n : f[i] \in Int
  BY <1>1, <1>2
<1>7. \A i \in 1..n : g[i] = f[i]
  <2> TAKE i \in 1..n
  <2>1. i \in DOMAIN usage /\ i \in DOMAIN usage' /\ usage'[i] = usage[i]
    BY <1>1, <1>4, <1>5
  <2>2. i \in Uses(k, way)' <=> i \in Uses(k, way)
    BY <2>1 DEF Uses
  <2> QED
    BY <2>1, <2>2
<1>8. g[n + 1] = e
  <2>1. n + 1 \in DOMAIN usage'
    BY <1>1, <1>5
  <2>2. n + 1 \in Uses(k, way)' <=> u.knowledge = k /\ u.outcome = way
    BY <1>4, <2>1 DEF Uses
  <2> QED
    BY <1>4, <2>1, <2>2
<1>9. e \in Int
  BY <1>2
<1>10. impact_of(k, way) = Total(f, n)
  BY DEF impact_of, n
<1>11. impact_of(k, way)' = Total(g, n + 1)
  BY <1>4 DEF impact_of
<1> HIDE DEF f, g, e
<1>12. Total(f, n) \in Int
  BY <1>1, <1>6, TotalFacts
<1>13. Total(g, n + 1) = Total(g, n) + g[n + 1]
  <2>1. n + 1 \in Nat /\ n + 1 # 0 /\ n + 1 - 1 = n
    BY <1>1
  <2>2. \A i \in 1..n + 1 : g[i] \in Int
    <3>1. \A i \in 1..n + 1 : i \in 1..n \/ i = n + 1
      BY <1>1
    <3> QED
      BY <1>6, <1>7, <1>8, <1>9, <3>1
  <2>3. PICK m \in Nat : m = n + 1
    BY <2>1
  <2>4. m # 0 => Total(g, m) = Total(g, m - 1) + g[m]
    BY <2>2, <2>3, TotalFacts
  <2>5. m # 0 /\ m - 1 = n
    BY <1>1, <2>3
  <2> QED
    BY Zenon, <2>3, <2>4, <2>5
<1>14. Total(g, n) = Total(f, n)
  BY <1>1, <1>6, <1>7, TotalSame
<1> QED
  BY <1>8, <1>10, <1>11, <1>12, <1>13, <1>14 DEF e

LEMMA ConfidenceInitially == ScoresInit => ConfidenceTold
<1> SUFFICES ASSUME ScoresInit PROVE ConfidenceTold
  OBVIOUS
<1>1. /\ usage = <<>> /\ confidence = Published /\ decayed = Published
      /\ decays = [k \in Knowledge |-> 0]
  BY DEF ScoresInit
<1>2. ScoresTypeOK
  <2>1. <<>> \in Seq(Usage) /\ Len(<<>>) = 0
    OBVIOUS
  <2>2. Len(usage) <= MaxUses
    BY <1>1, <2>1, ScoresAssumption
  <2>3. decays \in [Knowledge -> 0..MaxDecays]
    BY <1>1, ScoresAssumption
  <2> QED
    BY <1>1, <2>1, <2>2, <2>3, ScoresAssumption DEF ScoresTypeOK
<1>3. \A k, way : impact_of(k, way) = 0
  <2> TAKE k, way
  <2> DEFINE f == [i \in DOMAIN usage |-> IF i \in Uses(k, way) THEN usage[i].impact ELSE 0]
  <2>1. impact_of(k, way) = Total(f, 0)
    <3>1. Len(<<>>) = 0
      OBVIOUS
    <3> QED
      BY <1>1, <3>1 DEF impact_of
  <2> HIDE DEF f
  <2>2. Total(f, 0) = 0
    <3>1. \A i \in 1..0 : f[i] \in Int
      OBVIOUS
    <3> QED
      BY <3>1, TotalFacts
  <2> QED
    BY <2>1, <2>2
<1>4. Power(10, 0) = 1 /\ Power(8, 0) = 1
  BY PowerFacts
<1>5. ASSUME NEW k \in Knowledge
      PROVE LET up == 20 * impact_of(k, "success") down == 20 * impact_of(k, "failure") IN
  /\ confidence[k] - Published[k] \in -down..up
  /\ Published[k] + up <= 10000 /\ Published[k] - down >= 0 =>
       confidence[k] = Published[k] + up - down
  /\ (decayed[k] + decays[k]) * Power(10, decays[k]) >= Published[k] * Power(8, decays[k])
  <2> DEFINE up == 20 * impact_of(k, "success")
             down == 20 * impact_of(k, "failure")
             p == Published[k]
  <2>1. up = 0 /\ down = 0
    BY <1>3
  <2>2. p \in Int
    BY ScoresAssumption, ScoreIsNatural
  <2>3. confidence[k] = p /\ decayed[k] = p /\ decays[k] = 0
    BY <1>1
  <2> HIDE DEF up, down, p
  <2>4. (decayed[k] + decays[k]) * Power(10, decays[k]) >= p * Power(8, decays[k])
    BY <1>4, <2>2, <2>3
  <2>5. confidence[k] - p \in -down..up
    BY <2>1, <2>2, <2>3
  <2>6. confidence[k] = p + up - down
    BY <2>1, <2>2, <2>3
  <2> QED
    BY <2>4, <2>5, <2>6 DEF up, down, p
<1> QED
  BY <1>2, <1>5 DEF ConfidenceTold

LEMMA UsageIsTold ==
  ASSUME ConfidenceTold, NEW u \in Usage, UsageApplied(u)
  PROVE  ConfidenceTold'
<1>1. /\ usage \in Seq(Usage) /\ Len(usage) < MaxUses /\ record_usage(u)
      /\ confidence \in [Knowledge -> ConfidenceScore] /\ decayed' = decayed /\ decays' = decays
      /\ confidence' = [confidence EXCEPT ![u.knowledge] = Adjusted(@, u)]
  BY DEF ConfidenceTold, ScoresTypeOK, UsageApplied
<1>2. u.knowledge \in Knowledge /\ u.outcome \in {"success", "failure"} /\ u.impact \in Nat
  BY ImpactIsNumber DEF Usage
<1>3. \A c \in ConfidenceScore : /\ Adjusted(c, u) \in ConfidenceScore
                                 /\ Adjusted(c, u) = IF u.outcome = "failure" THEN Bounded(c - 20 * u.impact)
                                                                             ELSE Bounded(c + 20 * u.impact)
  <2> TAKE c \in ConfidenceScore
  <2>1. c - 20 * u.impact \in Int /\ c + 20 * u.impact \in Int
    BY <1>2, ScoreIsNatural
  <2> QED
    BY <2>1, BoundedIs DEF Adjusted
<1>4. confidence' \in [Knowledge -> ConfidenceScore]
  BY <1>1, <1>2, <1>3
<1>5. ScoresTypeOK'
  <2>1. usage' \in Seq(Usage) /\ Len(usage') = Len(usage) + 1
    BY <1>1, AppendProperties DEF record_usage
  <2>2. Len(usage') <= MaxUses
    BY <1>1, <2>1, ScoresAssumption
  <2> QED
    BY <1>1, <1>4, <2>1, <2>2 DEF ConfidenceTold, ScoresTypeOK
<1>6. ASSUME NEW k \in Knowledge
      PROVE (LET up == 20 * impact_of(k, "success") down == 20 * impact_of(k, "failure") IN
  /\ confidence[k] - Published[k] \in -down..up
  /\ Published[k] + up <= 10000 /\ Published[k] - down >= 0 =>
       confidence[k] = Published[k] + up - down
  /\ (decayed[k] + decays[k]) * Power(10, decays[k]) >= Published[k] * Power(8, decays[k]))'
  <2> DEFINE p == Published[k]
             c == confidence[k]
             d == confidence'[k]
             up == 20 * impact_of(k, "success")
             down == 20 * impact_of(k, "failure")
             up2 == 20 * impact_of(k, "success")'
             down2 == 20 * impact_of(k, "failure")'
             i == 20 * u.impact
  <2>1. /\ impact_of(k, "success") \in Int /\ impact_of(k, "failure") \in Int
        /\ impact_of(k, "success")' =
             impact_of(k, "success") + IF u.knowledge = k /\ u.outcome = "success" THEN u.impact ELSE 0
        /\ impact_of(k, "failure")' =
             impact_of(k, "failure") + IF u.knowledge = k /\ u.outcome = "failure" THEN u.impact ELSE 0
    BY <1>1, ImpactGrows
  <2>2. /\ c - p \in -down..up
        /\ p + up <= 10000 /\ p - down >= 0 => c = p + up - down
        /\ (decayed[k] + decays[k]) * Power(10, decays[k]) >= p * Power(8, decays[k])
    BY DEF ConfidenceTold
  <2>3. /\ c \in Nat /\ c <= 10000 /\ p \in Nat /\ p <= 10000 /\ i \in Nat
        /\ up \in Int /\ down \in Int
    <3>1. p \in Nat /\ p <= 10000
      BY PublishedIsNumber
    <3>2. c \in Nat /\ c <= 10000
      BY <1>1, ScoreIsNatural
    <3>3. i \in Nat
      BY <1>2
    <3>4. up \in Int /\ down \in Int
      BY <2>1
    <3> QED
      BY <3>1, <3>2, <3>3, <3>4
  <2>4. CASE u.knowledge # k
    <3>1. d = c /\ up2 = up /\ down2 = down
      BY <1>1, <2>1, <2>4
    <3> HIDE DEF p, c, d, up, down, up2, down2, i
    <3>2. /\ d - p \in -down2..up2
          /\ p + up2 <= 10000 /\ p - down2 >= 0 => d = p + up2 - down2
      BY <2>2, <3>1
    <3> QED
      BY <1>1, <2>2, <3>2 DEF p, c, d, up, down, up2, down2
  <2>5. CASE u.knowledge = k /\ u.outcome = "success"
    <3>1. up2 = up + i /\ down2 = down
      BY <2>1, <2>5, <1>2
    <3>2. d = IF c + i < 0 THEN 0 ELSE IF c + i > 10000 THEN 10000 ELSE c + i
      <4>1. d = Bounded(c + i)
        BY <1>1, <1>3, <2>5
      <4>2. c + i \in Int
        BY <2>3
      <4> QED
        BY <4>1, <4>2, BoundedIs
    <3> HIDE DEF p, c, d, up, down, up2, down2, i
    <3>3. /\ d - p \in -down2..up2
          /\ p + up2 <= 10000 /\ p - down2 >= 0 => d = p + up2 - down2
      BY <2>2, <2>3, <3>1, <3>2
    <3> QED
      BY <1>1, <2>2, <3>3 DEF p, c, d, up, down, up2, down2
  <2>6. CASE u.knowledge = k /\ u.outcome = "failure"
    <3>1. up2 = up /\ down2 = down + i
      BY <2>1, <2>6, <1>2
    <3>2. d = IF c - i < 0 THEN 0 ELSE IF c - i > 10000 THEN 10000 ELSE c - i
      <4>1. d = Bounded(c - i)
        BY <1>1, <1>3, <2>6
      <4>2. c - i \in Int
        BY <2>3
      <4> QED
        BY <4>1, <4>2, BoundedIs
    <3> HIDE DEF p, c, d, up, down, up2, down2, i
    <3>3. /\ d - p \in -down2..up2
          /\ p + up2 <= 10000 /\ p - down2 >= 0 => d = p + up2 - down2
      BY <2>2, <2>3, <3>1, <3>2
    <3> QED
      BY <1>1, <2>2, <3>3 DEF p, c, d, up, down, up2, down2
  <2> QED
    BY <1>2, <2>4, <2>5, <2>6
<1> QED
  BY <1>5, <1>6 DEF ConfidenceTold

\* One more decay: the bound takes its share of what was left, and one for rounding.
LEMMA DecayOnce ==
  ASSUME NEW x \in Nat, NEW d \in Nat, NEW t \in Nat, NEW e \in Nat, NEW p \in Nat,
         (x + d) * t >= p * e, NEW y \in Nat, 10 * (y + d + 1) >= 8 * (x + d)
  PROVE  (y + (d + 1)) * (10 * t) >= p * (8 * e)
<1> DEFINE a == x + d
           b == y + d + 1
<1>1. a \in Nat /\ b \in Nat /\ 10 * b >= 8 * a /\ a * t >= p * e
  OBVIOUS
<1>2. y + (d + 1) = b
  OBVIOUS
<1> HIDE DEF a, b
<1>3. (10 * b) * t >= (8 * a) * t
  BY <1>1
<1>4. (8 * a) * t = 8 * (a * t) /\ (10 * b) * t = b * (10 * t) /\ 8 * (p * e) = p * (8 * e)
  BY <1>1
<1>5. 8 * (a * t) >= 8 * (p * e)
  BY <1>1
<1>6. /\ (10 * b) * t \in Int /\ (8 * a) * t \in Int /\ 8 * (a * t) \in Int /\ 8 * (p * e) \in Int
      /\ b * (10 * t) \in Int /\ p * (8 * e) \in Int
  BY <1>1
<1>7. b * (10 * t) >= p * (8 * e)
  BY <1>3, <1>4, <1>5, <1>6
<1> QED
  BY <1>2, <1>7

LEMMA DecayIsTold ==
  ASSUME ConfidenceTold, NEW k \in Knowledge, NEW age \in Age, NEW successes \in {0, 1},
         apply_decay(k, age, successes)
  PROVE  ConfidenceTold'
<1> DEFINE percent == IF age >= 30 THEN 20 ELSE (age * 20) \div 30
           more == IF successes >= 10 THEN 2000 ELSE successes * 200
           x == decayed[k]
           y == decayed'[k]
           d == decays[k]
           z == (x * (100 - percent)) \div 100 + more
<1>1. /\ decayed \in [Knowledge -> ConfidenceScore] /\ decays \in [Knowledge -> 0..MaxDecays]
      /\ usage' = usage /\ confidence' = confidence /\ d < MaxDecays
      /\ decayed' = [decayed EXCEPT ![k] = Bounded(z)]
      /\ decays' = [decays EXCEPT ![k] = d + 1]
  BY DEF ConfidenceTold, ScoresTypeOK, apply_decay
<1>2. age \in Nat /\ MaxDecays \in Nat
  BY ScoresAssumption
<1>3. percent \in Nat /\ percent <= 20
  BY <1>2
<1>4. more \in Nat
  OBVIOUS
<1>5. x \in Nat /\ x <= 10000 /\ d \in Nat
  BY <1>1, <1>2, ScoreIsNatural
<1> DEFINE w == x * (100 - percent)
<1>6. w \in Nat /\ w >= 80 * x
  <2> DEFINE q == 100 - percent
  <2>1. q \in Nat /\ q >= 80
    BY <1>3
  <2> HIDE DEF q
  <2>2. x * q \in Nat /\ x * q >= x * 80
    BY <1>5, <2>1
  <2>3. x * 80 = 80 * x
    BY <1>5
  <2> QED
    BY <2>2, <2>3 DEF q
<1> HIDE DEF percent, more, w
<1>7. z = w \div 100 + more
  BY DEF w
<1>8. z \in Nat /\ 100 * z >= w - 99
  BY <1>4, <1>6, <1>7
<1>9. y = Bounded(z)
  BY <1>1
<1> HIDE DEF x, y, d, z
<1>10. y \in ConfidenceScore /\ y = IF z > 10000 THEN 10000 ELSE z
  BY <1>8, <1>9, BoundedIs
<1>11. y \in Nat /\ 10 * (y + d + 1) >= 8 * (x + d)
  BY <1>5, <1>6, <1>8, <1>10
<1>12. ScoresTypeOK'
  <2>1. decayed' \in [Knowledge -> ConfidenceScore]
    BY <1>1, <1>9, <1>10
  <2>2. d + 1 \in 0..MaxDecays
    BY <1>1, <1>2, <1>5
  <2>3. decays' \in [Knowledge -> 0..MaxDecays]
    BY <1>1, <2>2
  <2> QED
    BY <1>1, <2>1, <2>3 DEF ConfidenceTold, ScoresTypeOK
<1>13. (x + d) * Power(10, d) >= Published[k] * Power(8, d)
  BY DEF ConfidenceTold, x, d
<1>14. (y + (d + 1)) * Power(10, d + 1) >= Published[k] * Power(8, d + 1)
  <2>0. ASSUME NEW b \in Nat PROVE Power(b, d) \in Nat /\ Power(b, d + 1) = b * Power(b, d)
    <3>1. PICK e \in Nat : e = d
      BY <1>5
    <3>2. Power(b, e) \in Nat /\ Power(b, e + 1) = b * Power(b, e)
      BY PowerFacts
    <3> QED
      BY <3>1, <3>2
  <2>1. /\ Power(10, d) \in Nat /\ Power(10, d + 1) = 10 * Power(10, d)
        /\ Power(8, d) \in Nat /\ Power(8, d + 1) = 8 * Power(8, d)
    BY <2>0
  <2>2. Published[k] \in Nat
    BY ScoresAssumption, ScoreIsNatural
  <2>3. (y + (d + 1)) * (10 * Power(10, d)) >= Published[k] * (8 * Power(8, d))
    BY <1>5, <1>11, <1>13, <2>1, <2>2, DecayOnce
  <2> QED
    BY <2>1, <2>3
<1>15. \A l \in Knowledge :
         (decayed'[l] + decays'[l]) * Power(10, decays'[l]) >= Published[l] * Power(8, decays'[l])
  <2> TAKE l \in Knowledge
  <2>1. CASE l = k
    <3>1. decayed'[l] = y /\ decays'[l] = d + 1
      BY <1>1, <2>1 DEF y
    <3> QED
      BY <1>14, <2>1, <3>1
  <2>2. CASE l # k
    <3>1. decayed'[l] = decayed[l] /\ decays'[l] = decays[l]
      BY <1>1, <2>2
    <3> QED
      BY <3>1 DEF ConfidenceTold
  <2> QED
    BY <2>1, <2>2
<1>16. \A l, way : impact_of(l, way)' = impact_of(l, way)
  BY <1>1 DEF impact_of, Uses
<1> QED
  BY <1>1, <1>12, <1>15, <1>16 DEF ConfidenceTold

\* However often it is used and decays: the confidence of knowledge is what its
\* usages add up to between the bounds, and decay takes a fifth at most of what is
\* left (KnowledgeConfidenceFeedback.apply and apply_decay).
THEOREM ConfidenceIsTold == ScoresSpec => []ConfidenceTold
<1>1. ConfidenceTold /\ [ScoresNext]_scoresVars => ConfidenceTold'
  <2> SUFFICES ASSUME ConfidenceTold, [ScoresNext]_scoresVars PROVE ConfidenceTold'
    OBVIOUS
  <2>1. ASSUME NEW u \in Usage, UsageApplied(u) PROVE ConfidenceTold'
    BY <2>1, UsageIsTold
  <2>2. ASSUME NEW k \in Knowledge, NEW age \in Age, NEW n \in {0, 1}, apply_decay(k, age, n)
        PROVE  ConfidenceTold'
    BY <2>2, DecayIsTold
  <2>3. CASE UNCHANGED scoresVars
    <3>1. \A l, way : impact_of(l, way)' = impact_of(l, way)
      BY <2>3 DEF scoresVars, impact_of, Uses
    <3> QED
      BY <2>3, <3>1 DEF scoresVars, ConfidenceTold, ScoresTypeOK
  <2> QED
    BY <2>1, <2>2, <2>3 DEF ScoresNext
<1> QED
  BY <1>1, ConfidenceInitially, PTL DEF ScoresSpec

=============================================================================
