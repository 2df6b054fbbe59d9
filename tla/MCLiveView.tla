----------------------------- MODULE MCLiveView -----------------------------
EXTENDS LiveView

\* Two sequenced quotes that may arrive in either order and one without a number; one
\* inside the entry zone of the plan below, one at its stop.
MCQuotes == {[seq |-> 1, ts |-> 0, bid |-> 4, ask |-> 5],
             [seq |-> 2, ts |-> 1, bid |-> 1, ask |-> 2],
             [seq |-> None, ts |-> 1, bid |-> 4, ask |-> 5]}

MCDecisions == <<[side |-> "LONG", lo |-> 4, hi |-> 5, stop |-> 2,
                  usable |-> TRUE, healthy |-> TRUE, gated |-> FALSE],
                 [side |-> "SHORT", lo |-> 1, hi |-> 3, stop |-> 5,
                  usable |-> TRUE, healthy |-> FALSE, gated |-> FALSE]>>
=============================================================================
