------------------------- MODULE MCMacroEvidence --------------------------
EXTENDS MacroEvidence, TLC

\* The third release is postponed from day 5 to day 6, and the page drops the second.
Early == (0 :> 0) @@ (1 :> 2) @@ (2 :> 4) @@ (3 :> 5)
Revised == (0 :> 0) @@ (1 :> 2) @@ (3 :> 6)
MCCalendar == [d \in Days |-> CASE d < 2 -> (0 :> 0) @@ (1 :> 2)
                                [] d \in 2..3 -> Early
                                [] OTHER -> Revised]

Prices == [monthly |-> TRUE, calendar |-> MCCalendar, announced |-> [p \in Periods |-> 0],
           released |-> (1 :> 2) @@ (2 :> 99) @@ (3 :> 6), releases |-> {0, 2, 6},
           lapse |-> [period |-> 2, known |-> 2, at |-> 4, cancelled |-> 6,
                      figure |-> "NOT_PUBLISHED", published |-> 6]]

Jobs == [Prices EXCEPT !.released[2] = 6, !.releases = {0, 2, 5, 6},
            !.lapse = [period |-> 2, known |-> 0, at |-> 4, cancelled |-> 5,
                       figure |-> "VALUE", published |-> 6]]

Rates == [monthly |-> FALSE, calendar |-> [d \in Days |-> (1 :> 2) @@ (2 :> 4) @@ (3 :> 6)],
          announced |-> (1 :> 0) @@ (2 :> 1) @@ (3 :> 1),
          released |-> (1 :> 2) @@ (2 :> 4) @@ (3 :> 6), releases |-> {0, 1, 2, 4, 6},
          lapse |-> Unset]

MCFamilies == {Prices, Jobs, Rates}

\* A source of each kind.
MCRefusing == {Page, Archive(2), Series(2), Series(LastDay)}

OldRow(known, at) == [known |-> known, at |-> at, status |-> "SCHEDULED", trusted |-> FALSE]

MCLegacyRows ==
    {[p \in Periods |-> <<>>],
     [p \in Periods |-> IF p = 2 THEN <<OldRow(3, 4)>> ELSE <<>>],
     [p \in Periods |-> CASE p = 1 -> <<OldRow(-1, 2)>> [] p = 2 -> <<>> [] p = 3 -> <<OldRow(3, 5)>>]}
=============================================================================
