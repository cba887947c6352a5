-------------------------- MODULE KnowledgeGovernance --------------------------
(* Rounds of governance over claims that share a key, made of the libraries of *)
(* src/Runtime: sarembok_knowledge_conflict, _knowledge_governance,            *)
(* _knowledge_state, _conflict_trust, _governance_audit, _governance_replay    *)
(* and _conflict_provenance. Nothing in the repository calls them together: the*)
(* caller here, who resolves a conflict and has decisions taken, recorded and  *)
(* applied, is the one they are written for. Confidences move meanwhile        *)
(* (KnowledgeScores).                                                          *)
EXTENDS KnowledgeScores

CONSTANTS Value, Evidence, \* knowledge -> its claim_value and evidence_count
          MaxConflicts, MaxAudits \* bounds on the records

ASSUME GovernanceAssumption == /\ Evidence \in [Knowledge -> Nat] /\ IsFiniteSet(Knowledge)
                               /\ {MaxConflicts, MaxAudits} \subseteq Nat

NoKnowledge == "none"

VARIABLES
  conflicts,   \* records of the ConflictProvenanceLedger
  trust,       \* knowledge -> the state applied last
  audit,       \* records of the GovernanceAuditLedger
  decided      \* history: what was decided since the last resolution

governanceVars == <<scoresVars, conflicts, trust, audit, decided>>

TrustState == {"pending", "trusted", "quarantined"}
Resolution == {"none", "consistent", "escalate", "prefer_supported"}
Signal == [knowledge_id: Knowledge, confidence: ConfidenceScore, verified: BOOLEAN,
           resolution: Resolution, selected: Knowledge \cup {NoKnowledge}]

GovernanceTypeOK ==
  /\ ScoresTypeOK
  /\ trust \in [Knowledge -> TrustState] /\ decided \subseteq Knowledge
  /\ \A i \in DOMAIN audit: audit[i].signal \in Signal
       /\ {audit[i].previous, audit[i].new} \subseteq TrustState

GovernanceInit ==
  /\ ScoresInit
  /\ conflicts = <<>> /\ audit = <<>>
  /\ trust = [k \in Knowledge |-> "pending"] /\ decided = {}

\* KnowledgeConflictResolver.resolve(): claims are ranked by evidence, then
\* confidence; two claims that lead together escalate even when they agree.
resolve(claims) ==
  LET ahead(k, l) == Evidence[k] > Evidence[l]
                     \/ (Evidence[k] = Evidence[l] /\ confidence[k] > confidence[l])
      leaders == {k \in claims: \A l \in claims: ~ahead(l, k)}
      decision(r, k) == [claims |-> claims, resolution |-> r, selected |-> k]
  IN IF Cardinality({Value[k] : k \in claims}) = 1
       THEN decision("consistent", CHOOSE k \in leaders: TRUE)
     ELSE IF Cardinality(leaders) > 1 THEN decision("escalate", NoKnowledge)
     ELSE decision("prefer_supported", CHOOSE k \in leaders: TRUE)

\* The caller has claims resolved, which begins a round, and the provenance ledger
\* keeps the decision.
ConflictResolved(claims) ==
  /\ Len(conflicts) < MaxConflicts /\ Cardinality(claims) >= 2
  /\ conflicts' = Append(conflicts, resolve(claims))
  /\ decided' = {}
  /\ UNCHANGED <<scoresVars, trust, audit>>

\* Mutant: that another claim was preferred is not looked at.
DecideForAll(s) ==
  CASE ~s.verified -> "quarantined"
    [] s.verified /\ s.resolution = "escalate" -> "pending"
    [] OTHER -> IF s.confidence <= 2500 THEN "quarantined"
                ELSE IF s.confidence >= 7500 THEN "trusted" ELSE "pending"

\* Mutant: that nothing is verified is not looked at.
DecideUnverified(s) ==
  IF s.resolution = "escalate"
     \/ (s.resolution = "prefer_supported" /\ s.selected # s.knowledge_id) THEN "pending"
  ELSE IF s.confidence <= 2500 THEN "quarantined"
  ELSE IF s.confidence >= 7500 THEN "trusted" ELSE "pending"

\* KnowledgeGovernanceEngine.decide(), with its default thresholds
decide(s) ==
  CASE ~s.verified -> "quarantined"
    [] s.verified /\ (s.resolution = "escalate"
                      \/ (s.resolution = "prefer_supported" /\ s.selected # s.knowledge_id)) -> "pending"
    [] OTHER -> IF s.confidence <= 2500 THEN "quarantined"
                ELSE IF s.confidence >= 7500 THEN "trusted" ELSE "pending"

\* GovernanceAuditLedger.record(): a selection is refused unless the resolution
\* preferred it.
Recordable(s) == s.selected # NoKnowledge => s.resolution = "prefer_supported"

\* What the caller knows of k when it has a decision taken: the last conflict k was
\* part of, if it was the last one, resolved on the confidences of its moment.
InConflict(k) == conflicts # <<>> /\ k \in Last(conflicts).claims
SignalOf(k, verified) ==
  [knowledge_id |-> k, confidence |-> confidence[k], verified |-> verified,
   resolution |-> IF InConflict(k) THEN Last(conflicts).resolution ELSE "none",
   selected |-> IF InConflict(k) /\ Last(conflicts).resolution = "prefer_supported"
                  THEN Last(conflicts).selected ELSE NoKnowledge]

DecisionApplied(k, verified) ==
  LET s == SignalOf(k, verified) IN
  /\ Len(audit) < MaxAudits
  /\ Recordable(s)
  /\ audit' = Append(audit, [signal |-> s, previous |-> trust[k], new |-> decide(s)])
  /\ trust' = [trust EXCEPT ![k] = decide(s)]
  /\ decided' = IF InConflict(k) THEN decided \cup {k} ELSE decided
  /\ UNCHANGED <<scoresVars, conflicts>>

GovernanceNext ==
  \/ \E claims \in SUBSET Knowledge: ConflictResolved(claims)
  \/ \E k \in Knowledge, verified \in BOOLEAN: DecisionApplied(k, verified)
  \/ \E u \in Usage: UsageApplied(u) /\ UNCHANGED <<conflicts, trust, audit, decided>>

GovernanceSpec == GovernanceInit /\ [][GovernanceNext]_governanceVars

----------------------------------------------------------------------------
(* The same question asked of the two state machines decide() unifies        *)
\* KnowledgeTrustStateMachine.evaluate()
evaluate(s) ==
  IF ~s.verified \/ (s.confidence < 7500 /\ s.confidence <= 2500) THEN "quarantined"
  ELSE IF s.confidence >= 7500 THEN "trusted" ELSE "pending"

\* ConflictTrustIntegrator.evaluate(), which is asked when there was a conflict
evaluate_conflict(s) ==
  IF s.resolution = "consistent" \/ (s.resolution = "prefer_supported" /\ s.selected = s.knowledge_id)
    THEN "trusted" ELSE "pending"

\* GovernanceReplayEngine.replay(), with decide() for the decision function
replay(r) == decide(r.signal) = r.new

\* Claims that contradict each other are never trusted together once all that is
\* trusted was decided on after one resolution, whatever confidences moved between
\* the resolution and the decisions (KnowledgeConflictResolver and the engine).
TrustedAgree == \A k, l \in decided:
  trust[k] = "trusted" /\ trust[l] = "trusted" => Value[k] = Value[l]

\* Every record of the ledger replays to the state it recorded, continues the
\* record before it of the same knowledge, and trusts only what the trust state
\* machine and the conflict integrator would trust too.
AuditReplays == GovernanceTypeOK /\ \A i \in DOMAIN audit:
  LET r == audit[i]
      earlier == {j \in 1..i - 1: audit[j].signal.knowledge_id = r.signal.knowledge_id}
  IN /\ replay(r)
     /\ r.previous = IF earlier = {} THEN "pending"
                     ELSE audit[CHOOSE j \in earlier: \A h \in earlier: h <= j].new
     /\ r.new = "trusted" => evaluate(r.signal) = "trusted"
                             /\ (r.signal.resolution # "none" => evaluate_conflict(r.signal) = "trusted")

\* What is trusted agrees, and the ledger tells why it is (decide, record, replay).
GovernanceTrue == TrustedAgree /\ AuditReplays

=============================================================================
