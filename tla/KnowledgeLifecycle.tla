------------------------- MODULE KnowledgeLifecycle -------------------------
(* The lifecycle of a piece of knowledge, as                                 *)
(* Runtime/sarembok_knowledge_lifecycle.py defines it.                       *)

LifecycleState ==
  {"discovered", "verifying", "trusted", "pending", "quarantined", "retired"}

\* The states a piece of knowledge may move to.
Allowed(state) ==
  CASE state = "discovered"  -> {"verifying", "quarantined"}
    [] state = "verifying"   -> {"trusted", "pending", "quarantined"}
    [] state = "trusted"     -> {"pending", "quarantined", "retired"}
    [] state = "pending"     -> {"verifying", "trusted", "quarantined", "retired"}
    [] state = "quarantined" -> {"verifying", "retired"}
    [] state = "retired"     -> {"verifying"}

=============================================================================
