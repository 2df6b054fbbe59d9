---------------------------- MODULE MCPhase8Gate ----------------------------
(* Instances of Phase8Gate for TLC.                                        *)
EXTENDS Phase8Gate, TLC

MCGateSymmetry == Permutations(Tasks)
=============================================================================
