---------------------------- MODULE KnowledgeTrust ----------------------------
(* Runtime/sarembok_knowledge_trust.py: one piece of knowledge in a           *)
(* KnowledgeTrustManager. Confidences and scores are ten-thousandths, halved  *)
(* downwards.                                                                 *)
EXTENDS Naturals

CONSTANTS InitialConfidence, \* confidences at register()
          VerifiedAverage    \* averages of the reproduced evidence's scores

\* The score 1.0, and the scores.
FullTrust == 10000
TrustScore == 0..FullTrust

ASSUME TrustAssumption == InitialConfidence \subseteq TrustScore /\ VerifiedAverage \subseteq TrustScore

KnowledgeStatus == {"pending", "trusted", "quarantined", "expired"}

VARIABLES knowledge,  \* [status, confidence, verified, average]: some evidence is reproduced,
                      \* and its average; the evidence never changes
          answer,     \* the status of the copy validate() returned last
          registered, \* history: the confidence and status at register()
          moved       \* history: what is kept was replaced since

trustVars == <<knowledge, answer, registered, moved>>

TrustTypeOK ==
  /\ knowledge \in [status: KnowledgeStatus \cup {"absent"}, confidence: TrustScore,
                    verified: BOOLEAN, average: TrustScore]
  /\ answer \in {"none", "pending", "trusted", "quarantined"}
  /\ registered \in [confidence: TrustScore, status: KnowledgeStatus \cup {"absent"}]
  /\ moved \in BOOLEAN

TrustInit == /\ knowledge = [status |-> "absent", confidence |-> 0, verified |-> FALSE,
                             average |-> 0]
             /\ answer = "none"
             /\ registered = [confidence |-> 0, status |-> "absent"]
             /\ moved = FALSE

\* Knowledge is kept as it is given, with whatever status.
register(c, status, verified, average) ==
  /\ knowledge.status = "absent"
  /\ knowledge' = [status |-> status, confidence |-> c, verified |-> verified,
                  average |-> average]
  /\ registered' = [confidence |-> c, status |-> status]
  /\ UNCHANGED <<answer, moved>>

Judged ==
  LET score == (knowledge.confidence + knowledge.average) \div 2
      status == IF score >= 7500 THEN "trusted" ELSE "pending"
  IN /\ knowledge' = [knowledge EXCEPT !.confidence = score, !.status = status]
     /\ answer' = status /\ moved' = TRUE

\* Mutant: without verified evidence the score is half the confidence.
ValidateAll ==
  /\ knowledge.status # "absent"
  /\ Judged
  /\ UNCHANGED registered

\* An expired or quarantined piece is judged like any other. Without verified
\* evidence only the copy that is returned is quarantined, what is kept stays.
validate ==
  /\ knowledge.status # "absent"
  /\ \/ knowledge.verified /\ Judged
     \/ ~knowledge.verified /\ answer' = "quarantined" /\ UNCHANGED <<knowledge, moved>>
  /\ UNCHANGED registered

Replaced(status) ==
  /\ knowledge.status # "absent"
  /\ knowledge' = [knowledge EXCEPT !.status = status]
  /\ moved' = TRUE
  /\ UNCHANGED <<answer, registered>>

quarantine == Replaced("quarantined")

expire == Replaced("expired")

TrustNext == \/ validate \/ quarantine \/ expire
             \/ \E c \in InitialConfidence, status \in KnowledgeStatus:
                  \/ register(c, status, FALSE, 0)
                  \/ \E a \in VerifiedAverage: register(c, status, TRUE, a)

TrustSpec == TrustInit /\ [][TrustNext]_trustVars

----------------------------------------------------------------------------
Earned == knowledge.verified /\ knowledge.average >= 5000 /\ knowledge.confidence >= 7500

\* However often knowledge is validated, quarantined and expired, and whatever it
\* was registered as: validate() answers "trusted" on verified evidence only; what
\* the manager keeps as trusted has such evidence too, or was registered trusted
\* and not replaced since, so that no call makes or brings back a trust that is not
\* earned (one that was registered is not taken away by validate() either, which
\* answers with a quarantined copy). Its confidence stays between that it was
\* registered with and what the evidence says.
TrustEarned ==
  /\ TrustTypeOK
  /\ answer = "trusted" => Earned
  /\ knowledge.status = "trusted" => Earned \/ (registered.status = "trusted" /\ ~moved)
  /\ IF knowledge.verified
       THEN \/ knowledge.confidence \in registered.confidence..knowledge.average
            \/ knowledge.confidence \in knowledge.average..registered.confidence
       ELSE knowledge.confidence = registered.confidence

=============================================================================
