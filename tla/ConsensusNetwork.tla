-------------------------- MODULE ConsensusNetwork --------------------------
(* Runtime/consensus_network.py: AutomatedConsensusNetwork with its window   *)
(* of entropy samples and its RollbackStateMachine. Confidences are halves   *)
(* (2 is 1.0), weights quarters, entropies hundredths; a snapshot is the     *)
(* proposal that was agreed, or the one a caller saved as a checkpoint.      *)
EXTENDS Naturals, Sequences, SequencesExt, FiniteSets, Folds

CONSTANTS Proposal, Voter,
          VoterRole,      \* roles voters declare, with each vote
          Confidence,     \* of 0..2
          Entropy,        \* current_entropy of a call, in hundredths
          WindowSize,     \* samples of the window, 10 in the code
          MaxCheckpoints, \* 20 in the code
          MaxVotes,       \* bound on the votes cast
          MaxResolves,    \* bound on the calls of resolve_consensus
          CallerState,    \* what a caller saves with save_checkpoint()
          Pristine        \* the empty state

ASSUME ConsensusAssumption ==
  WindowSize \in Nat \ {0} /\ MaxCheckpoints \in Nat \ {0} /\ MaxResolves \in Nat

VARIABLES
  votes,          \* _votes: sequence of [agent, role, decision, confidence]
  samples,        \* the window
  checkpoints,    \* [state, stable, agreed]: stable is H < 0.88, agreed a history
  current_state,
  outcome,        \* what the last resolve_consensus said
  resolves

consensusVars == <<votes, samples, checkpoints, current_state, outcome, resolves>>

Threshold == 88
VoteDecision == {"APPROVE", "REJECT", "ABSTAIN"}
Vote == [agent: Voter, role: VoterRole, decision: VoteDecision, confidence: Confidence]
ConsensusStatus == {"PENDING", "CONSENSUS_REACHED", "QUORUM_FAILED", "AUDITOR_VETOED", "ENTROPY_VIOLATION"}
Snapshot == Proposal \cup {CallerState}

ConsensusTypeOK ==
  /\ votes \in [Proposal -> Seq(Vote)]
  /\ samples \in Seq(Entropy) /\ Len(samples) <= WindowSize
  /\ checkpoints \in Seq([state: Snapshot, stable: BOOLEAN, agreed: BOOLEAN])
  /\ Len(checkpoints) <= MaxCheckpoints
  /\ current_state \in Snapshot \cup {Pristine}
  /\ outcome \in ConsensusStatus
  /\ resolves \in 0..MaxResolves

\* create_proposal gives a new id an empty list of votes and nothing else: the
\* proposals of Proposal have been created.
ConsensusInit ==
  /\ votes = [p \in Proposal |-> <<>>]
  /\ samples = <<>> /\ checkpoints = <<>>
  /\ current_state = Pristine
  /\ outcome = "PENDING"
  /\ resolves = 0

----------------------------------------------------------------------------
\* cast_vote() looks neither at who has voted nor at whether the proposal was
\* resolved.
cast_vote(p, v) ==
  /\ FoldFunction(LAMBDA s, n: Len(s) + n, 0, votes) < MaxVotes
  /\ votes' = [votes EXCEPT ![p] = Append(@, v)]
  /\ UNCHANGED <<samples, checkpoints, current_state, outcome, resolves>>

\* Appended, and the oldest dropped beyond the limit.
Kept(s, x, limit) == LET t == Append(s, x) IN IF Len(t) > limit THEN Tail(t) ELSE t

\* The mean of the window and the sample are compared with the threshold.
Mean(s) == FoldLeft(LAMBDA x, y: x + y, 0, s)
Drifts(s, h) == Mean(s) >= Threshold * Len(s) \/ h >= Threshold

save_checkpoint(state, stable, agreed) ==
  /\ checkpoints' = Kept(checkpoints, [state |-> state, stable |-> stable, agreed |-> agreed],
                         MaxCheckpoints)
  /\ current_state' = state

\* Mutant: the search for a stable checkpoint runs forwards.
RollbackToFirst ==
  /\ current_state' = LET i == SelectInSeq(checkpoints, LAMBDA c: c.stable)
                      IN IF i = 0 THEN Pristine ELSE checkpoints[i].state
  /\ UNCHANGED checkpoints

\* The latest checkpoint that is stable, or the empty state.
trigger_rollback ==
  /\ current_state' = LET i == SelectLastInSeq(checkpoints, LAMBDA c: c.stable)
                      IN IF i = 0 THEN Pristine ELSE checkpoints[i].state
  /\ UNCHANGED checkpoints

Vetoed(vs) == \E i \in DOMAIN vs:
  vs[i].role = "AUDITOR" /\ vs[i].decision = "REJECT" /\ vs[i].confidence = 2

Weight(v) == v.confidence * (CASE v.role = "STRATEGIST" -> 5 [] v.role = "AUDITOR" -> 6 [] OTHER -> 4)
WeightOf(vs) == FoldLeft(LAMBDA w, v: w + Weight(v), 0, vs)
Approving(vs) == SelectSeq(vs, LAMBDA v: v.decision = "APPROVE")
HasQuorum(vs) == WeightOf(vs) > 0 /\ 100 * WeightOf(Approving(vs)) >= 67 * WeightOf(vs)

resolve_consensus(p, h) ==
  /\ resolves < MaxResolves
  /\ resolves' = resolves + 1
  /\ samples' = Kept(samples, h, WindowSize)
  /\ \/ Drifts(samples', h) /\ outcome' = "ENTROPY_VIOLATION" /\ trigger_rollback
     \/ /\ ~Drifts(samples', h) /\ Vetoed(votes[p])
        /\ outcome' = "AUDITOR_VETOED" /\ UNCHANGED <<checkpoints, current_state>>
     \/ /\ ~Drifts(samples', h) /\ ~Vetoed(votes[p]) /\ HasQuorum(votes[p])
        /\ outcome' = "CONSENSUS_REACHED" /\ save_checkpoint(p, TRUE, TRUE)
     \/ /\ ~Drifts(samples', h) /\ ~Vetoed(votes[p]) /\ ~HasQuorum(votes[p])
        /\ outcome' = "QUORUM_FAILED" /\ UNCHANGED <<checkpoints, current_state>>
  /\ UNCHANGED votes

\* Both are public too: a caller may checkpoint any state with any entropy.
CallerSaves(stable) == /\ save_checkpoint(CallerState, stable, FALSE)
                       /\ UNCHANGED <<votes, samples, outcome, resolves>>
CallerRollsBack == trigger_rollback /\ UNCHANGED <<votes, samples, outcome, resolves>>

ConsensusNext ==
  \/ \E p \in Proposal, v \in Vote: cast_vote(p, v)
  \/ \E p \in Proposal, h \in Entropy: resolve_consensus(p, h)
  \/ \E stable \in BOOLEAN: CallerSaves(stable)
  \/ CallerRollsBack

ConsensusSpec == ConsensusInit /\ [][ConsensusNext]_consensusVars

----------------------------------------------------------------------------
\* No rollback, whatever drift caused it and whatever unstable states callers
\* checkpointed, goes back behind what the agents agreed on: the current state
\* is that of the last agreed checkpoint that is kept, or of a later one.
AgreementKept ==
  /\ ConsensusTypeOK
  /\ \A i \in DOMAIN checkpoints: checkpoints[i].agreed =>
       \E j \in i..Len(checkpoints): checkpoints[j].state = current_state

=============================================================================
