-------------------------- MODULE MCCycleSnapshot --------------------------
(* An instance of CycleSnapshot for TLC: two closes, half an hour apart, in *)
(* the morning and in the overlap of London and New York.                  *)
EXTENDS CycleSnapshot, TLC

MCCloses == {300, 330}
MCClock == [c \in MCCloses |->
    IF c = 300 THEN [london |-> 765, newYork |-> 465, bucket |-> "DOW_1_HOUR_12"]
    ELSE [london |-> 795, newYork |-> 495, bucket |-> "DOW_1_HOUR_13"]]
MCRegime == [c \in MCCloses |-> "BULL_TREND"]
MCSwings == <<240, 285, 315>>

\* A complete profile, with evidence in the overlap and for one hour of the week.
MCComplete(name, minutes) ==
    [name |-> name, status |-> "PRODUCTION_FROZEN", target |-> "XAUUSD", frame |-> "15m",
     set |-> [k \in Thresholds3A |->
                 CASE k = "sessionMax" -> 15 [] k = "sessionFloor" -> 30 [] k = "sessionFactor" -> 3
                   [] k = "swingMax" -> 20 [] k = "swingFloor" -> 30
                   [] k = "calendarMax" -> 5 [] k = "calendarFloor" -> 30 [] k = "calendarFactor" -> 1
                   [] k = "stabilityFloor" -> 60 [] k = "pre" -> minutes [] k = "post" -> minutes
                   [] k = "far" -> 120 [] k = "near" -> 60 [] k = "bonusFar" -> 5 [] k = "bonusNear" -> 2],
     sessions |-> <<[key |-> <<"LONDON_NY_OVERLAP", "BULL_TREND">>, n |-> 80, significant |-> TRUE,
                     expectancy |-> 4]>>,
     durations |-> <<1, 2, 5, 6>>, sample |-> [n |-> 100, blocked |-> FALSE],
     calendar |-> <<[key |-> "DOW_1_HOUR_12", n |-> 40, significant |-> TRUE, expectancy |-> 6,
                     stability |-> 80]>>,
     version |-> "1", dataset |-> "d"]

MCArtifact(payload) ==
    LET e == [schema |-> "aurumiq.cycle3a.profile.v1", payload |-> payload, digest |-> payload]
    IN  [found |-> TRUE, instrument |-> "XAUUSD", declared |-> Unset, envelope |-> e]

\* A champion without a cycle profile; two frozen profiles; a tampered envelope.
MCChampion == [MCArtifact(Unset) EXCEPT !.envelope = Unset]
MCArtifacts ==
    LET wide == MCArtifact(MCComplete("WIDE", 30))
    IN  {MCChampion, wide, MCArtifact(MCComplete("NARROW", 5)),
         [wide EXCEPT !.envelope.payload.name = "OTHER"]}
MCChampions == {MCChampion}

MCVintage(event, number, at, listed, stands, high, revised) ==
    [event |-> event, number |-> number, at |-> at, known |-> listed, stands |-> stands,
     high |-> high, revised |-> revised]

\* An event between the closes, cancelled after it was due; and an old one, which covers the
\* first close alone.
MCVintages ==
    {MCVintage("CPI", 1, 310, 0, TRUE, TRUE, Unset),
     MCVintage("CPI", 2, 310, 320, FALSE, TRUE, Unset),
     MCVintage("NFP", 1, 0, 0, TRUE, TRUE, Unset)}

MCDeciderSymmetry == Permutations(Deciders)
=============================================================================
