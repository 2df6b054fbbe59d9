----------------------------- MODULE Selection -----------------------------
(***************************************************************************)
(* The filters of the source, lists of what satisfies a condition: what    *)
(* SelectSeq is for a test, here for a set, so that theorems can be stated *)
(* about it.                                                               *)
(***************************************************************************)
EXTENDS Integers, FiniteSets, SequencesExt

\* How many of a set of positions are not after i.
Rank(positions, i) == Cardinality({j \in positions : j <= i})

\* The elements of a sequence that belong to a set, in their order.
Having(s, S) ==
    LET kept == {i \in DOMAIN s : s[i] \in S}
    IN  [n \in 1..Cardinality(kept) |-> s[CHOOSE i \in kept : Rank(kept, i) = n]]
=============================================================================
