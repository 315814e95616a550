--------------------------- MODULE MCDestinations ---------------------------
(* Instances of Destinations for TLC: every destination, in both modes and *)
(* with every overlap.                                                     *)
EXTENDS Destinations, TLC

MCScenarios == Scenario

Symmetric == Permutations(Loads) \union Permutations(Keys)
=============================================================================
