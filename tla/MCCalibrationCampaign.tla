----------------------- MODULE MCCalibrationCampaign -----------------------
EXTENDS CalibrationCampaign

\* The same thresholds for another revision, and others over a narrower window.
MCPolicies ==
    {[revision |-> 1, window |-> 2], [revision |-> 2, window |-> 2], [revision |-> 1, window |-> 1]}

\* Another evaluation, and another way of building snapshots, announced or not.
MCCodes ==
    {[evaluator |-> 1, builder |-> 1, version |-> 1], [evaluator |-> 2, builder |-> 1, version |-> 1],
     [evaluator |-> 1, builder |-> 2, version |-> 2], [evaluator |-> 1, builder |-> 2, version |-> 1]}
=============================================================================
