------------------------- MODULE MCDecisionPipeline -------------------------
(* Instances of DecisionPipeline for TLC.                                  *)
EXTENDS DecisionPipeline, TLC

\* The first candle opens a window as long as no late row is seen; the others get
\* a plain notice or nothing.
MCCandidate ==
    [f \in Fingerprints |->
        IF f.candle % 2 = 1 THEN IF f.seen = {} THEN "window" ELSE "notice" ELSE "quiet"]

MCSymmetry == Permutations(Workers)
=============================================================================
