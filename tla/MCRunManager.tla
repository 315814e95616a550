---------------------------- MODULE MCRunManager ----------------------------
(* Instances of RunManager for TLC.                                        *)
EXTENDS RunManager, TLC

Symmetric == Permutations(Runs)
=============================================================================
