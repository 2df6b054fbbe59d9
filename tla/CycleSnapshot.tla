--------------------------- MODULE CycleSnapshot ---------------------------
(***************************************************************************)
(* The Phase 3A cycle snapshot of a decision.  A worker that decides a     *)
(* 15m close resolves the cycle profile, looks for a stored snapshot and   *)
(* for the macro calendar known at the close, computes and stores a        *)
(* snapshot of its own when there is none for that close, and saves the    *)
(* signal last.  Each of these commits by itself: a worker may fail or be  *)
(* killed between them and the close is then decided again, workers may    *)
(* decide one close at once, and evidence and artifacts arrive meanwhile.  *)
(*                                                                         *)
(* Times are minutes.  The closes are those of market hours, their bars    *)
(* come from the primary provider, and there are bars enough to analyse.   *)
(***************************************************************************)
EXTENDS Integers, Sequences, FiniteSetsExt

CONSTANTS
    Closes,        \* closes that may be decided
    Clock,         \* of each close: minutes of the day in London and New York, calendar bucket
    Regime,        \* of each close
    SwingsFound,   \* swings, in the order they formed: the close each was detected at
    Artifacts,     \* calibration artifacts that may be configured
    Vintages,      \* schedule vintages: event, number, scheduled time, time known, whether it
                   \* stands (not cancelled, or figures were published), whether the event is
                   \* HIGH impact, time of a published revision
    Deciders,      \* worker processes
    DefaultWindow, \* blackout minutes before and after when no profile is given
    CoverageSpan,  \* minutes after which the newest schedule no longer covers a close
    BarMinutes,    \* minutes of a 15m bar
    EnoughSwings,  \* durations the swing distribution needs
    MaxFaults,     \* bound: failures and kills
    MaxReleases,   \* bound: artifacts configured after the first
    Unset          \* Python None

\* Times are numbers.
SnapshotAssumption ==
    /\ Closes \subseteq Nat /\ Unset \notin Closes
    /\ \A v \in Vintages : v.known \in Int
ASSUME SnapshotAssumption

\* No stored snapshot.
NoRow == [at |-> Unset]

VARIABLES
    known,        \* schedule vintages ingested so far
    artifact,     \* the configured artifact
    snapshots,    \* CycleSnapshotRecord of each close
    decisions,    \* SignalRecord rows
    decider,      \* what each worker holds
    lapses,       \* history: failures and kills so far
    releases      \* history: artifacts configured so far

snapshotVars == <<known, artifact, snapshots, decisions, decider, lapses, releases>>

-----------------------------------------------------------------------------
(* Profiles.                                                               *)

Thresholds3A == {"sessionMax", "sessionFloor", "sessionFactor", "swingMax", "swingFloor",
                 "calendarMax", "calendarFloor", "calendarFactor", "stabilityFloor",
                 "pre", "post", "far", "near", "bonusFar", "bonusNear"}

Uncalibrated ==
    [name |-> "XAUUSD_UNCALIBRATED", status |-> "PENDING_DATA", target |-> "XAUUSD", frame |-> "15m",
     set |-> [k \in Thresholds3A |-> Unset], sessions |-> <<>>, durations |-> <<>>,
     sample |-> Unset, calendar |-> <<>>, version |-> Unset, dataset |-> Unset]

Enabled(p) == p.status \in {"LEGACY_REFERENCE", "PRODUCTION_FROZEN"}

\* A payload lists the rows of a table; a key given twice makes it malformed.
OneRowPerKey(list) == \A i, j \in DOMAIN list : list[i].key = list[j].key => i = j
Entry(list, key) ==
    IF \E i \in DOMAIN list : list[i].key = key
    THEN list[CHOOSE i \in DOMAIN list : list[i].key = key] ELSE Unset

\* What deserialize_cycle3a_profile accepts of an envelope, whose digest must be its payload's.
Deserializes(e) ==
    /\ e.schema = "aurumiq.cycle3a.profile.v1"
    /\ e.digest = e.payload
    /\ e.payload.target = "XAUUSD" /\ e.payload.frame = "15m"
    /\ e.payload.status = "PRODUCTION_FROZEN"
    /\ OneRowPerKey(e.payload.sessions) /\ OneRowPerKey(e.payload.calendar)

IsComplete(p) ==
    /\ p.status = "PRODUCTION_FROZEN" /\ p.target = "XAUUSD" /\ p.frame = "15m"
    /\ Unset \notin {p.set[k] : k \in Thresholds3A}
    /\ p.sessions # <<>> /\ p.durations # <<>> /\ p.sample # Unset /\ p.calendar # <<>>
    /\ p.version # Unset /\ p.dataset # Unset

\* The profile a task decides with: nothing but a complete frozen profile inside an artifact
\* that is found, names XAUUSD, and does not contradict the digest it declares.
Resolved3A(a) ==
    IF /\ a.found
       /\ a.instrument = "XAUUSD"
       /\ a.declared # Unset => a.declared = a.envelope
       /\ a.envelope # Unset
       /\ Deserializes(a.envelope)
       /\ IsComplete(a.envelope.payload)
    THEN a.envelope.payload ELSE Unset

-----------------------------------------------------------------------------
(* The four parts of an analysis.                                          *)

\* Weight of a sample, in percent.
Confidence(n) == IF n < 60 THEN 50 ELSE IF n < 100 THEN 80 ELSE 100
AtMost(a, b) == IF a < b THEN a ELSE b

DayMinutes == 0..1439
SessionWindows ==
    <<[session |-> "LONDON_NY_OVERLAP", london |-> 780..989,   newYork |-> 480..689],
      [session |-> "LONDON",            london |-> 480..779,   newYork |-> DayMinutes],
      [session |-> "LONDON_PREOPEN",    london |-> 420..479,   newYork |-> DayMinutes],
      [session |-> "NEW_YORK",          london |-> DayMinutes, newYork |-> 690..1019],
      [session |-> "US_LATE",           london |-> DayMinutes, newYork |-> 1020..1199],
      [session |-> "ASIA",              london |-> DayMinutes, newYork |-> DayMinutes]>>

SessionAt(t) ==
    LET open == {i \in DOMAIN SessionWindows :
                    /\ t.london \in SessionWindows[i].london
                    /\ t.newYork \in SessionWindows[i].newYork}
    IN  SessionWindows[Min(open)].session

SessionPoints(p, c) ==
    LET e == Entry(p.sessions, <<SessionAt(Clock[c]), Regime[c]>>) IN
    IF \/ ~Enabled(p) \/ e = Unset
       \/ Unset \in {p.set["sessionMax"], p.set["sessionFloor"], p.set["sessionFactor"]}
    THEN 0
    ELSE IF e.n >= p.set["sessionFloor"] /\ e.significant /\ e.expectancy > 0
         THEN (AtMost(p.set["sessionMax"], e.expectancy * p.set["sessionFactor"])
                 * Confidence(e.n)) \div 100
         ELSE 0

\* Bars since the detection of the newest swing that had been detected by the close.
KnownBars(c) ==
    LET seen == {i \in DOMAIN SwingsFound : SwingsFound[i] <= c}
    IN  IF seen = {} THEN Unset ELSE (c - SwingsFound[Max(seen)]) \div BarMinutes

SwingPoints(p, c) ==
    LET bars == KnownBars(c)
        n == Len(p.durations)
        below == Cardinality({i \in 1..n : p.durations[i] < bars}) * 100
        share == IF 75 * n <= below /\ below <= 90 * n THEN 100
                 ELSE IF 50 * n <= below /\ below < 75 * n THEN 75
                 ELSE IF 25 * n <= below /\ below < 50 * n THEN 50
                 ELSE IF below > 90 * n THEN 40 ELSE 25
    IN  IF \/ ~Enabled(p) \/ bars = Unset \/ n < EnoughSwings
           \/ Unset \in {p.set["swingMax"], p.set["swingFloor"], p.sample}
        THEN 0
        ELSE IF p.sample.blocked \/ p.sample.n < p.set["swingFloor"] THEN 0
        ELSE (p.set["swingMax"] * share * Confidence(p.sample.n)) \div 10000

CalendarPoints(p, c) ==
    LET e == Entry(p.calendar, Clock[c].bucket) IN
    IF \/ ~Enabled(p) \/ e = Unset
       \/ Unset \in {p.set["calendarMax"], p.set["calendarFloor"], p.set["calendarFactor"],
                     p.set["stabilityFloor"]}
    THEN 0
    ELSE IF /\ e.n >= p.set["calendarFloor"] /\ e.significant /\ e.expectancy > 0
            /\ e.stability >= p.set["stabilityFloor"]
         THEN (AtMost(p.set["calendarMax"] * 100, e.expectancy * p.set["calendarFactor"] * e.stability)
                 * Confidence(e.n)) \div 10000
         ELSE 0

-----------------------------------------------------------------------------
(* The macro calendar.                                                     *)

ListedBy(c) == {v \in known : v.known <= c}

\* The vintage in force at close c for each event; a cancelled event is no event.
EventsAsOf(c) ==
    {v \in ListedBy(c) :
        /\ v.stands
        /\ \A w \in ListedBy(c) : w.event = v.event =>
              w.known < v.known \/ (w.known = v.known /\ w.number <= v.number)}

CoveredAt(c) == \E v \in ListedBy(c) : c - v.at <= CoverageSpan

\* pre and post are the blackout minutes, Unset for no blackout on that side.
Blocks(v, c, pre, post) ==
    \/ v.at >= c /\ pre # Unset /\ v.at - c <= pre
    \/ v.at < c /\ post # Unset /\ c - v.at <= post
    \/ v.revised # Unset /\ post # Unset /\ 0 <= c - v.revised /\ c - v.revised <= post

\* Faulty variant: the feed counts as healthy although there is no event.
HealthyByDefault(c, events, pre, post, healthyIfEmpty) ==
    [blackout |-> \E v \in events : v.high /\ Blocks(v, c, pre, post),
     toNext |-> Unset, healthy |-> TRUE]

MacroContext(c, events, pre, post, healthyIfEmpty) ==
    LET high == {v \in events : v.high}
        ahead == {v.at - c : v \in {w \in high : w.at >= c}}
    IN  [blackout |-> \E v \in high : Blocks(v, c, pre, post),
         toNext   |-> IF ahead = {} THEN Unset ELSE Min(ahead),
         healthy  |-> events # {} \/ healthyIfEmpty]

\* No bonus unless the feed is healthy and the next event is known to be far.
ClearBonus(p, context) ==
    LET beyond(w, b) == /\ Unset \notin {p.set[w], p.set[b], context.toNext}
                        /\ context.toNext > p.set[w]
    IN  IF ~context.healthy THEN 0
        ELSE IF beyond("far", "bonusFar") THEN p.set["bonusFar"]
        ELSE IF beyond("near", "bonusNear") THEN p.set["bonusNear"] ELSE 0

\* RobustTimeCycleEngine.analyze with the profile the task resolved, if any.  The windows are
\* the profile's, and the feed counts as healthy if there is any event.
Analysed3A(profile, c, events) ==
    LET p == IF profile = Unset THEN Uncalibrated ELSE profile
        context == MacroContext(c, events, p.set["pre"], p.set["post"], FALSE)
    IN  [at |-> c, context |-> context, by |-> p,
         score |-> IF context.blackout \/ ~Enabled(p) THEN 0
                   ELSE SessionPoints(p, c) + SwingPoints(p, c) + CalendarPoints(p, c)
                          + ClearBonus(p, context)]

\* Faulty variant: the profile that computed the snapshot is not compared.
ContributionOfAny(snapshot, profile) ==
    IF snapshot # NoRow /\ profile # Unset THEN AtMost(100, snapshot.score) ELSE 0

\* What the timing score takes from a snapshot.
Contribution(snapshot, profile) ==
    IF /\ snapshot # NoRow /\ profile # Unset
       /\ profile.status = "PRODUCTION_FROZEN"
       /\ snapshot.by.name = profile.name
       /\ snapshot.by.status = profile.status
       /\ profile.frame = "15m"
    THEN AtMost(100, snapshot.score) ELSE 0

-----------------------------------------------------------------------------
(* Deciding a close.                                                       *)

Free == [step |-> "free"]

\* The snapshot of the close, or else the newest before it.
StoredFor(c) ==
    LET have == {d \in Closes : d <= c /\ snapshots[d] # NoRow}
    IN  IF have = {} THEN NoRow ELSE snapshots[Max(have)]

\* The macro gate: a stored snapshot of the close speaks for it; otherwise the calendar is
\* asked, with no profile and so with the default windows.
GateContext(c) ==
    IF ListedBy(c) # {}
    THEN IF snapshots[c] # NoRow THEN snapshots[c].context
         ELSE MacroContext(c, IF CoveredAt(c) THEN EventsAsOf(c) ELSE {},
                           DefaultWindow, DefaultWindow, CoveredAt(c))
    ELSE IF StoredFor(c) # NoRow THEN StoredFor(c).context ELSE Unset

LookUp(d, c) ==
    /\ decider[d] = Free
    /\ \A s \in decisions : s.at # c
    /\ decider' = [decider EXCEPT ![d] =
          [step |-> IF CoveredAt(c) /\ snapshots[c] = NoRow THEN "analyse" ELSE "decide",
           at |-> c, profile |-> Resolved3A(artifact), snapshot |-> StoredFor(c),
           context |-> GateContext(c),
           events |-> IF CoveredAt(c) THEN EventsAsOf(c) ELSE {}]]
    /\ UNCHANGED <<known, artifact, snapshots, decisions, lapses, releases>>

\* The snapshot is stored in a transaction of its own; when that fails, the task goes on
\* with what it has computed.
Analyse(d, stores) ==
    LET j == decider[d]
        fresh == Analysed3A(j.profile, j.at, j.events)
    IN  /\ j.step = "analyse"
        /\ ~stores => lapses < MaxFaults
        /\ snapshots' = IF stores THEN [snapshots EXCEPT ![j.at] = fresh] ELSE snapshots
        /\ lapses' = IF stores THEN lapses ELSE lapses + 1
        /\ decider' = [decider EXCEPT ![d].step = "decide", ![d].snapshot = fresh]
        /\ UNCHANGED <<known, artifact, decisions, releases>>

\* The signal row of the decision.  It waits in a blackout and without a healthy feed.
Decision(j) ==
    [at |-> j.at,
     waits |-> j.context = Unset \/ j.context.blackout \/ ~j.context.healthy,
     blackout |-> j.context # Unset /\ j.context.blackout,
     points |-> Contribution(j.snapshot, j.profile),
     profile |-> j.profile, snapshot |-> j.snapshot, events |-> j.events]

Decide(d) ==
    /\ decider[d].step = "decide"
    /\ decisions' = decisions \cup {Decision(decider[d])}
    /\ decider' = [decider EXCEPT ![d] = Free]
    /\ UNCHANGED <<known, artifact, snapshots, lapses, releases>>

\* A statement raises, or the worker is killed; what has been committed stays.
LoseDecision(d) ==
    /\ decider[d] # Free
    /\ lapses < MaxFaults
    /\ lapses' = lapses + 1
    /\ decider' = [decider EXCEPT ![d] = Free]
    /\ UNCHANGED <<known, artifact, snapshots, decisions, releases>>

\* Evidence is ingested whenever an operator runs the command, with the time it became known.
ListEvent(v) ==
    /\ v \notin known
    /\ known' = known \cup {v}
    /\ UNCHANGED <<artifact, snapshots, decisions, decider, lapses, releases>>

Configure(a) ==
    /\ a # artifact
    /\ releases < MaxReleases
    /\ artifact' = a
    /\ releases' = releases + 1
    /\ UNCHANGED <<known, snapshots, decisions, decider, lapses>>

SnapshotInit ==
    /\ known = {}
    /\ artifact \in Artifacts
    /\ snapshots = [c \in Closes |-> NoRow]
    /\ decisions = {}
    /\ decider = [d \in Deciders |-> Free]
    /\ lapses = 0
    /\ releases = 0

SnapshotNext ==
    \/ \E d \in Deciders, c \in Closes : LookUp(d, c)
    \/ \E d \in Deciders, stores \in BOOLEAN : Analyse(d, stores)
    \/ \E d \in Deciders : Decide(d)
    \/ \E d \in Deciders : LoseDecision(d)
    \/ \E v \in Vintages : ListEvent(v)
    \/ \E a \in Artifacts : Configure(a)

SnapshotSpec == SnapshotInit /\ [][SnapshotNext]_snapshotVars

-----------------------------------------------------------------------------
(* Properties.                                                             *)

\* Points of the cycle come from a profile with authority: whoever computed the snapshot a
\* decision rests on, and however often artifacts were exchanged and the close was decided
\* again since, it was computed by a complete frozen profile of the name the decision's own
\* complete frozen profile has, and outside that profile's blackout.
PointsAreAuthorised ==
    \A s \in decisions : s.points > 0 =>
        /\ s.profile # Unset /\ IsComplete(s.profile)
        /\ IsComplete(s.snapshot.by) /\ s.snapshot.by.name = s.profile.name
        /\ ~s.snapshot.context.blackout

\* A decision that need not wait stands on the evidence of its own close: a cycle snapshot of
\* that close, never of an earlier one, and a schedule known by then that still covers it.
\* Stored snapshots carry the health of the feed from one attempt to the next.
NoTradeOnOldEvidence ==
    \A s \in decisions : ~s.waits => s.snapshot # NoRow /\ s.snapshot.at = s.at /\ CoveredAt(s.at)

\* engine/cycles/events.py: within the window around a HIGH impact event a decision waits.
\* A decision that knows such an event within the window the gate applies is a blackout,
\* however often its close had been tried before.
BlackoutSurvivesRetry ==
    \A s \in decisions :
        (\E v \in s.events : v.high /\ Blocks(v, s.at, DefaultWindow, DefaultWindow)) => s.blackout

=============================================================================
