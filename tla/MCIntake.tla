------------------------------ MODULE MCIntake ------------------------------
(* An instance of Intake for TLC. *)
EXTENDS Intake, TLC

CONSTANTS w1, w2

\* The two workers do the same.
Interchangeable == Permutations(Workers)
=============================================================================
