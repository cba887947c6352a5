---------------------------- MODULE MCKnowledge -----------------------------
(* Small databases of KnowledgeRuntime for TLC.                              *)
EXTENDS KnowledgeRuntime, TLC

Interchangeable == Permutations(Process) \cup Permutations(Knowledge)

=============================================================================
