------------------------------- MODULE MCRaft -------------------------------
(* Small clusters of Raft for TLC.  The nodes are interchangeable, and so are*)
(* the commands where none is poison: no property names one of them, and     *)
(* none is a liveness property.                                              *)
EXTENDS Raft, TLC

NodeSymmetry == Permutations(Node)

NodeValueSymmetry == Permutations(Node) \cup Permutations(Value)

=============================================================================
