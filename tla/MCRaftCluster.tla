---------------------------- MODULE MCRaftCluster ---------------------------
(* Small clusters of RaftCluster for TLC.                                    *)
EXTENDS RaftCluster, TLC

NodeSymmetry == Permutations(Node)

=============================================================================
