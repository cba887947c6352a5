----------------------------- MODULE MCFlywheel -----------------------------
(* Two sessions for TLC: one whose second turn in a row reaches the cap, and *)
(* one that has tokens for three.                                            *)
EXTENDS Flywheel

CONSTANTS s1, s2

Caps == [s \in Session |-> IF s = s1 THEN 300 ELSE 1000]

=============================================================================
