-------------------------- MODULE MCCandleHistory --------------------------
(* Instances of CandleHistory for TLC: two frames, the smaller one with a  *)
(* bar the provider does not have; two bars a page; windows of two ends.   *)
EXTENDS CandleHistory

MCFrames == <<"1h", "15m">>
MCOffers ==
    {[f \in FrameSet |-> IF f = "15m" THEN S ELSE {1}] : S \in {0..LastBar, {0, 2, 3}}}
MCWindows == {<<0, 2>>, <<0, 3>>}
=============================================================================
