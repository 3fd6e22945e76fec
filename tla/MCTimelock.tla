----------------------------- MODULE MCTimelock -----------------------------
(* Instance of Timelock for TLC: the values are in the configurations.      *)
EXTENDS Timelock, TLC

\* Operation ids are interchangeable.
OpSymmetry == Permutations(OpIds)
=============================================================================
