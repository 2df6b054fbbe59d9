-------------------------- MODULE MCCandleDispatch --------------------------
(* Instances of CandleDispatch for TLC.                                    *)
EXTENDS CandleDispatch, TLC

MCSymmetry == Permutations(Procs)
=============================================================================
