----------------------------- MODULE MCAgentWork -----------------------------
(* What agents do and what is kept of it (src/Runtime), each part on a small *)
(* instance. The parts share no state but that of KnowledgeScores; a         *)
(* behaviour is one of one part, chosen at the start, and the others stay as *)
(* they begin.                                                               *)
EXTENDS ConsensusNetwork, AuditLedger, AgentScheduler, EvalHarness, LoopTeardown,
        AgenticExecution, LongHorizon, KnowledgeGovernance, KnowledgeTrust, Telemetry,
        ArtifactFactory, Approvals

VARIABLE subject

roundVars == <<conflicts, trust, audit, decided>>

workVars == <<subject, consensusVars, ledgerVars, schedulerVars, evalVars, teardownVars,
              executionVars, horizonVars, governanceVars, trustVars, telemetryVars, factoryVars,
              approvalVars>>

Quanta == {-1, 30, 5000}

\* A tool with two arguments, one that is denied and one that is not registered.
Calls == {<<"code.execute_sandbox", 1>>, <<"code.execute_sandbox", 2>>,
          <<"hardware.cloud_allocate", 1>>, <<"u", 1>>}
RaisingCalls == {<<"code.execute_sandbox", 2>>}

Task(id, role, complexity, steps, gpu, override) ==
  [id |-> id, role |-> role, complexity |-> complexity, steps |-> steps, gpu |-> gpu,
   override |-> override]
Tasks == {Task("a", "WORKER", 50, 5, TRUE, 0), Task("b", "WORKER", 50, 5, TRUE, 0),
          Task("c", "STRATEGIST", 100, 30, TRUE, 500), Task("d", "AUDITOR", 90, 1, TRUE, 4000),
          Task("e", "AUDITOR", 90, 1, TRUE, 5000)}

Claims == {"k1", "k2", "k3"}
ClaimValue == [k1 |-> "x", k2 |-> "y", k3 |-> "x"]
ClaimEvidence == [k1 |-> 2, k2 |-> 2, k3 |-> 1]
ClaimConfidence == [k1 |-> 6000, k2 |-> 6000, k3 |-> 9000]

Filenames == {<<"a", s>> : s \in {"csv", "xlsx", "docx", "txt", "pdf", "pptx", "tf"}}
Sources == {<<"{", "}">>, <<"{", "(", "}", ")">>, <<"x", ")">>}

WorkInit ==
  /\ subject \in {"consensus", "ledger", "scheduler", "harness", "teardown", "execution",
                  "horizon", "scores", "governance", "trust", "telemetry", "factory",
                  "approvals"}
  /\ ConsensusInit /\ LedgerInit /\ SchedulerInit /\ EvalInit /\ TeardownInit /\ ExecutionInit
  /\ HorizonInit /\ GovernanceInit /\ TrustInit /\ TelemetryInit /\ FactoryInit
  /\ ApprovalInit

\* The state of the part that runs, its step, and the rest.
WorkNext ==
  /\ UNCHANGED subject
  /\ \/ subject = "consensus" /\ ConsensusNext
     \/ subject # "consensus" /\ UNCHANGED consensusVars
  /\ \/ subject = "ledger" /\ LedgerNext
     \/ subject # "ledger" /\ UNCHANGED ledgerVars
  /\ \/ subject = "scheduler" /\ SchedulerNext
     \/ subject # "scheduler" /\ UNCHANGED schedulerVars
  /\ \/ subject = "harness" /\ EvalNext
     \/ subject # "harness" /\ UNCHANGED evalVars
  /\ \/ subject = "teardown" /\ TeardownNext
     \/ subject # "teardown" /\ UNCHANGED teardownVars
  /\ \/ subject = "execution" /\ ExecutionNext
     \/ subject # "execution" /\ UNCHANGED executionVars
  /\ \/ subject = "horizon" /\ HorizonNext
     \/ subject # "horizon" /\ UNCHANGED horizonVars
  /\ \/ subject = "scores" /\ ScoresNext /\ UNCHANGED roundVars
     \/ subject = "governance" /\ GovernanceNext
     \/ subject \notin {"scores", "governance"} /\ UNCHANGED governanceVars
  /\ \/ subject = "trust" /\ TrustNext
     \/ subject # "trust" /\ UNCHANGED trustVars
  /\ \/ subject = "telemetry" /\ TelemetryNext
     \/ subject # "telemetry" /\ UNCHANGED telemetryVars
  /\ \/ subject = "factory" /\ FactoryNext
     \/ subject # "factory" /\ UNCHANGED factoryVars
  /\ \/ subject = "approvals" /\ ApprovalNext
     \/ subject # "approvals" /\ UNCHANGED approvalVars

WorkSpec == WorkInit /\ [][WorkNext]_workVars

=============================================================================
