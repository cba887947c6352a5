SPECIFICATION WorkSpec
CONSTANTS
  Proposal = {"p1", "p2"}
  Voter = {"v1"}
  VoterRole = {"AUDITOR", "WORKER"}
  Confidence = {1, 2}
  Entropy = {25, 80, 120}
  WindowSize = 2
  MaxCheckpoints = 3
  MaxVotes = 1
  MaxResolves = 2
  CallerState = "caller"
  Pristine = "pristine"
  Recorder = {"r1", "r2"}
  Payload = {"x"}
  Damaged = "damaged"
  MaxBlocks = 3
  MaxDamages = 2
  SchedAgent = {"a1", "a2"}
  Quantum <- Quanta
  MaxEnvelopes = 2
  MaxSlices = 2
  Call <- Calls
  Raising <- RaisingCalls
  Registry <- DefaultRegistry
  Policy <- DefaultPolicy
  MaxSteps = 6
  MaxCalls = 7
  Workload <- Tasks
  Context = {1, 2}
  File = {"f", "g"}
  Exported = {"f"}
  MaxFiles = 2
  Execution = {"e1", "e2"}
  MaxEngineSteps = 3
  MaxRetries = 1
  CheckpointInterval = 2
  MaxActions = 4
  MaxRemembered = 4
  MaxTaskSteps = 5
  CheckpointEvery = 2
  MaxRecoveries = 2
  Knowledge <- Claims
  Published <- ClaimConfidence
  Impact = {100}
  Age = {15}
  MaxUses = 2
  MaxDecays = 2
  Value <- ClaimValue
  Evidence <- ClaimEvidence
  MaxConflicts = 2
  MaxAudits = 2
  InitialConfidence = {0, 5000, 9000}
  VerifiedAverage = {0, 4000, 8000, 10000}
  TracedAgent = {"a", "b"}
  MaxSpans = 3
  MaxDepth = 2
  Generation = {"g1", "g2"}
  Filename <- Filenames
  SourceText <- Sources
  SafeCall = {"c1", "c2"}
  SafeAction = {"read", "pay", "drop"}
  GatedAction = {"pay", "drop"}
  Prohibited = {"drop"}
  ApprovalId = {"h1", "h2"}
  Operator = {"o1", "o2"}
  NoApproval = "no approval"
CHECK_DEADLOCK FALSE
INVARIANTS
  AgreementKept
  ChainTells
  PayloadsInOrder
  ReportTrue
  ArtifactsAccounted
  ExecutionsTold
  WorkBounded
  ConfidenceTold
  GovernanceTrue
  TrustEarned
  SpansTold
  ReportsOwn
  ApprovalsHold
