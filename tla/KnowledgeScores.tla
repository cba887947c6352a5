---------------------------- MODULE KnowledgeScores ----------------------------
(* The scores of knowledge in src/Runtime: sarembok_knowledge_impact (what using *)
(* it brought), _knowledge_confidence (confidence from that) and                 *)
(* _knowledge_decay (confidence by age, in a table of its own). A usage is       *)
(* recorded and applied by the caller. Confidences are ten-thousandths, rounded  *)
(* down; the rounding of floats is not modelled.                                 *)
EXTENDS Integers, Sequences, SequencesExt, FiniteSetsExt, Totals

CONSTANTS Knowledge,
          Published,     \* knowledge -> the confidence set at first
          Impact,        \* impact scores of a usage, in hundredths
          Age,           \* ages in days
          MaxUses,       \* bound on the usage outcomes
          MaxDecays      \* bound on the calls of apply_decay()

ConfidenceScore == 0..10000

ASSUME ScoresAssumption == Published \in [Knowledge -> ConfidenceScore] /\ Impact \subseteq 0..100
                           /\ Age \subseteq Nat /\ MaxUses \in Nat /\ MaxDecays \in Nat

VARIABLES
  usage,       \* of the KnowledgeImpactTracker: [knowledge, outcome, impact]
  confidence,  \* of the KnowledgeConfidenceFeedback
  decayed,     \* of the AdaptiveKnowledgeDecay
  decays       \* history: knowledge -> calls of apply_decay()

scoresVars == <<usage, confidence, decayed, decays>>

Usage == [knowledge: Knowledge, outcome: {"success", "failure"}, impact: Impact]

ScoresTypeOK ==
  /\ usage \in Seq(Usage) /\ Len(usage) <= MaxUses
  /\ confidence \in [Knowledge -> ConfidenceScore] /\ decayed \in [Knowledge -> ConfidenceScore]
  /\ decays \in [Knowledge -> 0..MaxDecays]

ScoresInit == /\ usage = <<>> /\ confidence = Published /\ decayed = Published
              /\ decays = [k \in Knowledge |-> 0]

Bounded(c) == IF c < 0 THEN 0 ELSE IF c > 10000 THEN 10000 ELSE c

\* KnowledgeImpactTracker.record()
record_usage(u) == usage' = Append(usage, u)

\* Mutant: a failure counts like a success.
AdjustedUp(c, u) == Bounded(c + 20 * u.impact)

\* KnowledgeConfidenceFeedback.apply(): 0.20 of the impact, up or down
Adjusted(c, u) == IF u.outcome = "failure" THEN Bounded(c - 20 * u.impact)
                                           ELSE Bounded(c + 20 * u.impact)

UsageApplied(u) ==
  /\ Len(usage) < MaxUses
  /\ record_usage(u)
  /\ confidence' = [confidence EXCEPT ![u.knowledge] = Adjusted(@, u)]
  /\ UNCHANGED <<decayed, decays>>

\* AdaptiveKnowledgeDecay.apply_decay(), half life 30 days, at most 20 % either way.
\* The age is measured from the validation again each time, on what earlier calls
\* left.
apply_decay(k, age, recent_successes) ==
  LET percent == IF age >= 30 THEN 20 ELSE (age * 20) \div 30
      reinforcement == IF recent_successes >= 10 THEN 2000 ELSE recent_successes * 200
  IN /\ decays[k] < MaxDecays
     /\ decayed' = [decayed EXCEPT ![k] = Bounded((@ * (100 - percent)) \div 100 + reinforcement)]
     /\ decays' = [decays EXCEPT ![k] = @ + 1]
     /\ UNCHANGED <<usage, confidence>>

ScoresNext == \/ \E u \in Usage: UsageApplied(u)
              \/ \E k \in Knowledge, age \in Age, n \in {0, 1}: apply_decay(k, age, n)

ScoresSpec == ScoresInit /\ [][ScoresNext]_scoresVars

----------------------------------------------------------------------------
\* KnowledgeImpactTracker.impact()
Uses(k, outcome) == {i \in DOMAIN usage: usage[i].knowledge = k /\ usage[i].outcome = outcome}
impact_of(k, outcome) ==
  Total([i \in DOMAIN usage |-> IF i \in Uses(k, outcome) THEN usage[i].impact ELSE 0], Len(usage))

\* The confidence of knowledge is what the recorded impacts add up to, as long as
\* no bound was met on the way, and never further from where it began than they
\* add up to; and decay, however often it is applied, leaves 0.8 to the power of the
\* calls, but for what rounding down takes in each of them.
ConfidenceTold == ScoresTypeOK /\ \A k \in Knowledge:
  LET up == 20 * impact_of(k, "success") down == 20 * impact_of(k, "failure") IN
  /\ confidence[k] - Published[k] \in -down..up
  /\ Published[k] + up <= 10000 /\ Published[k] - down >= 0 =>
       confidence[k] = Published[k] + up - down
  /\ (decayed[k] + decays[k]) * Power(10, decays[k]) >= Published[k] * Power(8, decays[k])

=============================================================================
