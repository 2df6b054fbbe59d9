------------------------------ MODULE MCParts -------------------------------
(***************************************************************************)
(* Six parts that share no state, checked in one run: the disjoint union   *)
(* of their state spaces.  A behaviour is one of part's, chosen at the     *)
(* start; the other parts stay in an initial state.                        *)
(***************************************************************************)
EXTENDS MCLiveView, MCSignalEngine, MCTradeReplay, MCMacroEvidence,
        MCCandidateScore, MCCalibrationCampaign

VARIABLE part

Parts == {"live view", "signal engine", "trade replay", "macro evidence",
          "candidate score", "calibration campaign"}

\* A step of part p leaves every other part as it is.
Stepping(p) ==
    /\ part = p
    /\ UNCHANGED part
    /\ p # "live view" => UNCHANGED vars
    /\ p # "signal engine" => UNCHANGED sigVars
    /\ p # "trade replay" => UNCHANGED replayVars
    /\ p # "macro evidence" => UNCHANGED macroVars
    /\ p # "candidate score" => UNCHANGED scoreVars
    /\ p # "calibration campaign" => UNCHANGED campaignVars

Viewing    == Stepping("live view")
Signalling == Stepping("signal engine")
Replaying  == Stepping("trade replay")
Collecting == Stepping("macro evidence")
Scoring    == Stepping("candidate score")
Campaigning == Stepping("calibration campaign")

\* Nothing to analyse.
NoEvidence == [Bull EXCEPT !.asOf = Missing, !.candles = NoCandles]

PartsInit ==
    /\ part \in Parts
    /\ Init
    /\ IF part = "signal engine" THEN SigInit ELSE evidence = NoEvidence /\ signal = Missing
    /\ IF part = "trade replay" THEN ReplayInit
       ELSE tape = <<>> /\ runEnd = 0 /\ step = 0 /\ trades = <<>> /\ report = Absent
    /\ MacroInit
    /\ part # "macro evidence" => family = Rates /\ \A p \in Periods : vintages[p] = <<>>
    /\ IF part = "candidate score" THEN ScoreInit
       ELSE replay = <<>> /\ baseline = <<>> /\ scores = <<>>
    /\ CampaignInit
    /\ part = "calibration campaign" => policy.revision = 1 /\ code.version = 1
    /\ part # "calibration campaign" =>
           /\ stored = [t \in Tables |-> [rows |-> 0, edition |-> 0]]
           /\ policy = CHOOSE p \in Policies : \E c \in Codes : c.evaluator = p.revision /\ c.builder = c.version
           /\ code = CHOOSE c \in Codes : c.evaluator = policy.revision /\ c.builder = c.version

PartsNext ==
    \/ \E q \in Quotes: Viewing /\ TakeQuote(q)
    \/ Viewing /\ RecordDecision
    \/ Viewing /\ ProjectDecision
    \/ Viewing /\ RebuildRead
    \/ Viewing /\ RebuildWrite
    \/ \E s \in outbox, ok \in BOOLEAN: Viewing /\ Publish(s, ok)
    \/ Viewing /\ Retry
    \/ Viewing /\ Open
    \/ Viewing /\ ReadSnapshot
    \/ Viewing /\ MissSnapshot
    \/ \E ok \in BOOLEAN: Viewing /\ Subscribe(ok)
    \/ Viewing /\ ListenerEnds
    \/ Viewing /\ Drop
    \/ Viewing /\ Fail
    \/ Viewing /\ Throw
    \/ Viewing /\ Tick
    \/ Viewing /\ ChangeSession
    \/ Signalling /\ Analyze
    \/ Signalling /\ FeedTurns
    \/ Replaying /\ TakeCandidate
    \/ Replaying /\ PassBy
    \/ Replaying /\ WalkForward
    \/ Collecting /\ Begin
    \/ Collecting /\ FetchSource
    \/ Collecting /\ PassOver
    \/ Collecting /\ FetchAnnouncement
    \/ Collecting /\ RecordSchedule
    \/ Collecting /\ RecordAssertion
    \/ Collecting /\ RecordCancellation
    \/ Collecting /\ FetchFigure
    \/ Collecting /\ RecordObservation
    \/ Collecting /\ BreakOff
    \/ Collecting /\ DayPasses
    \/ Scoring /\ ScoreReplay
    \/ \E t \in Tables: Campaigning /\ AddRow(t)
    \/ \E t \in Tables: Campaigning /\ Rewrite(t)
    \/ \E p \in Policies, c \in Codes: Campaigning /\ Release(p, c)
    \/ Campaigning /\ BeginCampaign
    \/ \E t \in Tables: Campaigning /\ LoadTable(t)
    \/ Campaigning /\ TakeSnapshots
    \/ Campaigning /\ BuildSnapshots
    \/ \E ok \in BOOLEAN: Campaigning /\ SaveSnapshots(ok)
    \/ Campaigning /\ ReuseJudgement
    \/ Campaigning /\ Judge
    \/ Campaigning /\ Lock
    \/ Campaigning /\ EndCampaign

\* Fairness is the live view's.  A behaviour of another part is not fair to it, so that the
\* liveness property speaks of the live view alone; invariants and action properties are
\* checked in every part.
PartsSpec ==
    /\ PartsInit
    /\ [][PartsNext]_<<part, vars, sigVars, replayVars, macroVars, scoreVars, campaignVars>>
    /\ Fairness
=============================================================================
