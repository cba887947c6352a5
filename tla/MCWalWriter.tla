---------------------------- MODULE MCWalWriter -----------------------------
(* A small WalWriter for TLC.  Its keys are interchangeable, but the run that*)
(* checks liveness uses no symmetry.                                         *)
EXTENDS WalWriter, TLC

Interchangeable == Permutations(Key)

=============================================================================
