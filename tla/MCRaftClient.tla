---------------------------- MODULE MCRaftClient ----------------------------
(* Model-checking instances of RaftClient.                                   *)
EXTENDS RaftClient, TLC

NodeSymmetry == Permutations(Node)

=============================================================================
