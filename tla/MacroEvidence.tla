--------------------------- MODULE MacroEvidence --------------------------
(***************************************************************************)
(* Macro-economic evidence (apps/market_data/macro): an operator's command *)
(* walks over the expected reference periods of a family of events, takes  *)
(* what the official sources publish into append-only tables, and may      *)
(* break off anywhere and be run again.  The decision pipeline replays the *)
(* tables as of a time T, to keep out of the market around a release.      *)
(*                                                                         *)
(* Time is counted in days.  The world goes on while the tables fill: the  *)
(* agency updates its calendar, postpones a release, skips one.  A source  *)
(* is a url; the first body it gave is kept and never asked for again.     *)
(***************************************************************************)
EXTENDS Integers, Sequences
LOCAL INSTANCE FiniteSetsExt

CONSTANTS
    First, Final,   \* reference periods expected: First..Final
    Families,       \* the families of events, see FamilySet
    LegacyRows,     \* schedule rows an earlier version of the command may have left
    LastDay,        \* bound of the clock
    Refusing,       \* bound: the sources that may answer with a terminal client error
    Unset

Periods == First..Final
Days == 0..LastDay

\* What an observation says, besides nothing.
Figures == {"VALUE", "N/A", "RATE_DECISION", "NOT_PUBLISHED"}

\* A family: a monthly one is announced by the agency's calendar page, the other by yearly press
\* releases whose dates the command holds.  calendar[d] gives the listed periods their release
\* days as the page shows them on day d; released[p] is when the figure of p really came out;
\* releases are the days of the agency's releases; lapse is the period the 2025 shutdown hit.
LapseSet == [period: Periods, known: Days, at: Days, cancelled: Days,
             figure: {"VALUE", "NOT_PUBLISHED"}, published: Days]
FamilySet == [monthly: BOOLEAN,
              calendar: [Days -> UNION {[D -> Days] : D \in SUBSET ((First - 1)..Final)}],
              announced: [Periods -> Days],
              released: [Periods -> Nat],
              releases: SUBSET Days,
              lapse: LapseSet \cup {Unset}]

\* A schedule vintage: known_at, scheduled_at, status, and whether its provenance is not UNKNOWN.
VintageSet == [known: Int, at: Days, status: {"SCHEDULED", "CANCELLED"}, trusted: BOOLEAN]
ObservationSet == [known: Days, figure: Figures]

\* Days on which the code may find a date announced.
TellingDays(f) ==
    (UNION {{f.calendar[d][p] : p \in DOMAIN f.calendar[d]} : d \in Days})
    \cup {f.announced[p] : p \in Periods}
    \cup (IF f.lapse = Unset THEN {} ELSE {f.lapse.known, f.lapse.cancelled})

\* The hard-coded story of the lapse is true: the figure that came late is dated by its publication,
\* after the cancellation; so are the days of the rate decisions.  Left-over rows carry made-up
\* knowledge dates (no date was announced then), no provenance, and for the lapse the date first
\* announced.
FamilyAssumption(f) ==
    /\ f \in FamilySet
    /\ ~f.monthly => /\ f.lapse = Unset
                     /\ \A p \in DOMAIN f.calendar[0] : p \in Periods => f.released[p] <= f.calendar[0][p]
    /\ f.lapse # Unset =>
         /\ f.lapse.known < f.lapse.cancelled /\ f.lapse.cancelled <= f.lapse.published
         /\ f.lapse.figure = "VALUE" => f.released[f.lapse.period] <= f.lapse.published

LegacyAssumption(p, v) ==
    /\ v \in VintageSet /\ v.status = "SCHEDULED" /\ ~v.trusted
    /\ \A f \in Families : /\ v.known \notin TellingDays(f)
                           /\ f.lapse # Unset /\ f.lapse.period = p => v.at = f.lapse.at

MacroAssumption ==
    /\ First \in Nat /\ Final \in Nat /\ First <= Final /\ LastDay \in Nat
    /\ Unset \notin Int /\ Unset \notin Figures /\ Unset \notin ObservationSet
    /\ \A f \in Families : FamilyAssumption(f)
    /\ \A rows \in LegacyRows :
         /\ rows \in [Periods -> Seq(VintageSet)]
         /\ \A p \in Periods : /\ Len(rows[p]) <= 1
                               /\ \A i \in DOMAIN rows[p] : LegacyAssumption(p, rows[p][i])
ASSUME MacroAssumption

VARIABLES
    today,
    family,         \* the family whose tables are followed; the others are independent
    snapshots,      \* SourceSnapshot: body by url
    vintages,       \* MacroScheduleVintage, in order of creation; vintage_id ends in the index
    assertions,     \* MacroScheduleProvenanceAssertion: [period, no] of the vintage
    observations,   \* MacroObservationVintage, revision 0 (no other is ever written)
    run             \* where the command stands: [step, period]

macroVars == <<today, family, snapshots, vintages, assertions, observations, run>>

Steps == {"idle", "sources", "announce", "schedule", "assert",
          "cancel", "assert cancel", "fetch", "observe"}

Idle == [step |-> "idle", period |-> First]

-----------------------------------------------------------------------------
(* Sources.                                                                *)

Page == [of |-> "page", day |-> 0]
Archive(d) == [of |-> "archive", day |-> d]
Series(d) == [of |-> "series", day |-> d]

\* Mutant of Answer: the series as it stands, whatever vintage day is asked for.
AnswerCurrent(url) ==
    CASE url.of = "page" -> family.calendar[today]
      [] url.of = "archive" -> url.day \in family.releases /\ url.day <= today
      [] url.of = "series" -> {p \in Periods : family.released[p] <= today}

\* What a source answers today: the page as it stands; an archived release once it was made,
\* else a terminal client error; of a series the periods with a figure, as of the vintage day
\* asked for.
Answer(url) ==
    CASE url.of = "page" -> family.calendar[today]
      [] url.of = "archive" -> url.day \in family.releases /\ url.day <= today
      [] url.of = "series" -> {p \in Periods : family.released[p] <= url.day /\ family.released[p] <= today}

\* A terminal client error (403, 404, 410) of any source: a body with no dates, no release and no
\* figures in it.
Refusal(url) ==
    CASE url.of = "page" -> [p \in {} |-> 0]
      [] url.of = "archive" -> FALSE
      [] url.of = "series" -> {}

Fetched == DOMAIN snapshots

\* A refusal is kept and reused like any other body.
FetchOrReuse(url) ==
    \E body \in {Answer(url)} \cup (IF url \in Refusing THEN {Refusal(url)} ELSE {}) :
        snapshots' = [u \in Fetched \cup {url} |-> IF u \in Fetched THEN snapshots[u] ELSE body]

IsLapse(p) == family.lapse # Unset /\ family.lapse.period = p

\* Fetched before the first period.
Sources ==
    IF family.monthly
    THEN {Page} \cup (IF family.lapse = Unset THEN {} ELSE {Archive(family.lapse.cancelled)})
    ELSE {Series(LastDay)} \cup {Archive(family.announced[p]) : p \in Periods}

\* The days of the listed periods: parsed from the page, or held by the command.
Calendar == IF family.monthly THEN snapshots[Page] ELSE family.calendar[0]

\* The listed period before p.
Previous(p) ==
    LET earlier == {q \in DOMAIN Calendar : q \in Periods /\ q < p}
    IN  IF earlier = {} THEN p - 1 ELSE Max(earlier)

\* When the date of p became known: at the release before it.
Announced(p) ==
    CASE ~family.monthly -> family.announced[p]
      [] family.monthly /\ Previous(p) \in DOMAIN Calendar -> Calendar[Previous(p)]
      [] OTHER -> Unset

-----------------------------------------------------------------------------
(* One run of the command.  Every step commits on its own.                 *)

At(step) == run.step = step
Goto(step) == run' = [run EXCEPT !.step = step]
NextPeriod ==
    run' = IF run.period = Final THEN Idle ELSE [step |-> "announce", period |-> run.period + 1]

Begin ==
    /\ At("idle") /\ Goto("sources")
    /\ UNCHANGED <<today, family, snapshots, vintages, assertions, observations>>

\* In whichever order: only what was kept before the run broke off depends on it.
FetchSource ==
    /\ At("sources")
    /\ \/ \E url \in Sources \ Fetched : FetchOrReuse(url) /\ UNCHANGED run
       \/ Sources \subseteq Fetched /\ Goto("announce") /\ UNCHANGED snapshots
    /\ UNCHANGED <<today, family, vintages, assertions, observations>>

\* A period that is not listed is passed over with a warning.
Unlisted(p) == ~IsLapse(p) /\ p \notin DOMAIN Calendar

PassOver ==
    /\ At("announce") /\ Unlisted(run.period) /\ NextPeriod
    /\ UNCHANGED <<today, family, snapshots, vintages, assertions, observations>>

\* The release that announced the date.
FetchAnnouncement ==
    /\ At("announce") /\ ~Unlisted(run.period) /\ Goto("schedule")
    /\ CASE IsLapse(run.period) -> FetchOrReuse(Archive(family.lapse.known))
         [] ~IsLapse(run.period) /\ Announced(run.period) # Unset ->
               FetchOrReuse(Archive(Announced(run.period)))
         [] OTHER -> UNCHANGED snapshots
    /\ UNCHANGED <<today, family, vintages, assertions, observations>>

\* The database refuses a second vintage of one period with the same known_at, or one without.
Supersede(p, v) ==
    /\ v.known # Unset
    /\ \A i \in DOMAIN vintages[p] : vintages[p][i].known # v.known
    /\ vintages' = [vintages EXCEPT ![p] = Append(@, v)]

\* Mutant of RecordSchedule: a row found is taken for one an earlier run has finished with.
RecordScheduleOnce ==
    /\ At("schedule")
    /\ LET p == run.period
           rows == vintages[p]
           stands == IF IsLapse(p)
                     THEN \E i \in DOMAIN rows : rows[i].known = family.lapse.known
                     ELSE rows # <<>> /\ rows[Len(rows)].known = Announced(p)
       IN  IF stands THEN UNCHANGED vintages /\ Goto(IF IsLapse(p) THEN "cancel" ELSE "fetch")
           ELSE /\ Goto("assert")
                /\ Supersede(p, [known |-> IF IsLapse(p) THEN family.lapse.known ELSE Announced(p),
                                 at |-> IF IsLapse(p) THEN family.lapse.at ELSE Calendar[p],
                                 status |-> "SCHEDULED", trusted |-> TRUE])
    /\ UNCHANGED <<today, family, snapshots, assertions, observations>>

\* The latest row stands if it has the known_at found, else a new vintage supersedes it; for the
\* lapse any row with the known_at of the announcement does.
RecordSchedule ==
    /\ At("schedule") /\ Goto("assert")
    /\ LET p == run.period
           rows == vintages[p]
           stands == IF IsLapse(p)
                     THEN \E i \in DOMAIN rows : rows[i].known = family.lapse.known
                     ELSE rows # <<>> /\ rows[Len(rows)].known = Announced(p)
       IN  IF stands THEN UNCHANGED vintages
           ELSE Supersede(p, [known |-> IF IsLapse(p) THEN family.lapse.known ELSE Announced(p),
                            at |-> IF IsLapse(p) THEN family.lapse.at ELSE Calendar[p],
                            status |-> "SCHEDULED", trusted |-> TRUE])
    /\ UNCHANGED <<today, family, snapshots, assertions, observations>>

\* The vintage in the command's hands.
InHand ==
    LET rows == vintages[run.period]
    IN  CASE At("assert cancel") -> CHOOSE i \in DOMAIN rows : rows[i].status = "CANCELLED"
          [] At("assert") /\ IsLapse(run.period) ->
                CHOOSE i \in DOMAIN rows : rows[i].known = family.lapse.known
          [] OTHER -> Len(rows)

\* Also when the row was there before: an earlier run may have broken off in between.
RecordAssertion ==
    /\ \/ At("assert") /\ Goto(IF IsLapse(run.period) THEN "cancel" ELSE "fetch")
       \/ At("assert cancel") /\ Goto("observe")
    /\ assertions' = assertions \cup {[period |-> run.period, no |-> InHand]}
    /\ UNCHANGED <<today, family, snapshots, vintages, observations>>

RecordCancellation ==
    /\ At("cancel") /\ Goto("assert cancel")
    /\ LET p == run.period
       IN  IF \E i \in DOMAIN vintages[p] : vintages[p][i].status = "CANCELLED"
           THEN UNCHANGED vintages
           ELSE Supersede(p, [known |-> family.lapse.cancelled, at |-> family.lapse.at,
                            status |-> "CANCELLED", trusted |-> TRUE])
    /\ UNCHANGED <<today, family, snapshots, assertions, observations>>

\* The figure's source: the series as of the release day; for the other family the statement,
\* its figures are in the series fetched before.
FetchFigure ==
    /\ At("fetch") /\ Goto("observe")
    /\ FetchOrReuse(IF family.monthly THEN Series(Calendar[run.period])
                                      ELSE Archive(Calendar[run.period]))
    /\ UNCHANGED <<today, family, vintages, assertions, observations>>

\* What the command would say of p: no figure in the body is written down as such.
Observation(p) ==
    CASE IsLapse(p) /\ family.lapse.figure = "VALUE" ->
            [known |-> family.lapse.published, figure |-> "VALUE"]
      [] IsLapse(p) /\ family.lapse.figure = "NOT_PUBLISHED" ->
            [known |-> family.lapse.cancelled, figure |-> "NOT_PUBLISHED"]
      [] ~IsLapse(p) /\ family.monthly ->
            [known |-> Calendar[p],
             figure |-> IF p \in snapshots[Series(Calendar[p])] THEN "VALUE" ELSE "N/A"]
      [] OTHER ->
            [known |-> Calendar[p],
             figure |-> IF p \in snapshots[Series(LastDay)] THEN "VALUE" ELSE "RATE_DECISION"]

\* Mutant of RecordObservation: the source is asked anew, and what it says overwrites the figure.
RecordObservationAnew ==
    /\ At("observe") /\ NextPeriod
    /\ LET p == run.period
       IN  observations' = [observations EXCEPT ![p] =
              IF IsLapse(p) \/ p \notin Answer(Series(Calendar[p])) THEN Observation(p)
              ELSE [known |-> Calendar[p], figure |-> "VALUE"]]
    /\ UNCHANGED <<today, family, snapshots, vintages, assertions>>

RecordObservation ==
    /\ At("observe") /\ NextPeriod
    /\ LET p == run.period
       IN  observations' = IF observations[p] # Unset THEN observations
                           ELSE [observations EXCEPT ![p] = Observation(p)]
    /\ UNCHANGED <<today, family, snapshots, vintages, assertions>>

\* A source that fails three times, a row the database refuses, a kill: what was committed stays.
BreakOff ==
    /\ ~At("idle") /\ run' = Idle
    /\ UNCHANGED <<today, family, snapshots, vintages, assertions, observations>>

DayPasses ==
    /\ today < LastDay /\ today' = today + 1
    /\ UNCHANGED <<family, snapshots, vintages, assertions, observations, run>>

MacroInit ==
    /\ today = 0 /\ family \in Families /\ snapshots = [u \in {} |-> {}]
    /\ vintages \in LegacyRows /\ assertions = {}
    /\ observations = [p \in Periods |-> Unset] /\ run = Idle

MacroNext ==
    \/ Begin
    \/ FetchSource
    \/ PassOver
    \/ FetchAnnouncement
    \/ RecordSchedule
    \/ RecordAssertion
    \/ RecordCancellation
    \/ FetchFigure
    \/ RecordObservation
    \/ BreakOff
    \/ DayPasses

MacroSpec == MacroInit /\ [][MacroNext]_macroVars

-----------------------------------------------------------------------------
(* The replay, and the coverage report of the command.                     *)

\* Of some vintages of p the one with the latest known_at.
Latest(p, nos) ==
    {i \in nos : \A j \in nos : vintages[p][j].known <= vintages[p][i].known}

KnownBy(p, T) == {i \in DOMAIN vintages[p] : vintages[p][i].known <= T}

\* An observation known by T that is not an official non-publication.
Released(p, T) ==
    /\ observations[p] # Unset
    /\ observations[p].known <= T
    /\ observations[p].figure # "NOT_PUBLISHED"

\* resolve_macro_events_as_of: a cancelled event is left out unless its figure came out after all.
Event(p, i, T) ==
    IF Released(p, T)
    THEN [period |-> p, released |-> observations[p].known, figure |-> observations[p].figure,
          at |-> IF vintages[p][i].status = "CANCELLED" THEN observations[p].known ELSE vintages[p][i].at]
    ELSE [period |-> p, released |-> Unset, figure |-> Unset, at |-> vintages[p][i].at]

Shown(p, T) ==
    {i \in Latest(p, KnownBy(p, T)) : vintages[p][i].status = "CANCELLED" => Released(p, T)}

Replay(T) == UNION {{Event(p, i, T) : i \in Shown(p, T)} : p \in Periods}

\* Mutant of Defensible: whoever recorded the vintage.
DefensibleUnsigned(p, i) ==
    LET v == vintages[p][i]
    IN  v.status # "CANCELLED" =>
          /\ v.known < v.at
          /\ family.monthly => snapshots[Archive(v.known)]

\* validate_schedule_vintage_provenance: a cancellation needs a known provenance only; a date must
\* be known before the day, and a monthly one by a release that is really about it.
Defensible(p, i) ==
    LET v == vintages[p][i]
    IN  /\ v.trusted \/ [period |-> p, no |-> i] \in assertions
        /\ v.status # "CANCELLED" =>
             /\ v.known < v.at
             /\ family.monthly => snapshots[Archive(v.known)]

\* The command's report: every expected period has an observation, none is made up, and the
\* active schedules there are have a defensible provenance.
Covered ==
    /\ \A p \in Periods :
         /\ observations[p] # Unset
         /\ IsLapse(p) /\ family.lapse.figure = "NOT_PUBLISHED" => observations[p].figure # "VALUE"
    /\ \A p \in Periods : \A i \in Latest(p, DOMAIN vintages[p]) : Defensible(p, i)

-----------------------------------------------------------------------------
(* Properties.                                                             *)

MacroTypeOK ==
    /\ today \in Days /\ family \in Families
    /\ vintages \in [Periods -> Seq(VintageSet)]
    /\ assertions \subseteq [period: Periods, no: Nat \ {0}]
    /\ observations \in [Periods -> ObservationSet \cup {Unset}]
    /\ run \in [step: Steps, period: Periods]

\* A figure replayed as of a day had really come out by that day, however old the calendar page in
\* hand is and however the release was postponed since (replay.py: zero lookahead).
NoLookahead ==
    \A T \in Days : \A e \in Replay(T) :
        e.figure = "VALUE" => family.released[e.period] <= T

\* What the command sets out to record of p, and between which days a replay must foresee it.
Dated(p) == IF IsLapse(p) THEN family.lapse.known ELSE Announced(p)
Due(p) == IF IsLapse(p) THEN family.lapse.at ELSE Calendar[p]
Withdrawn(p, T) == IsLapse(p) /\ family.lapse.cancelled <= T

\* When the report says the evidence is complete, every release is foreseen on each day from its
\* announcement to its release, at the right time, so that trading can stop around it; also when
\* it took several runs, and when older rows stand in between.
CoveredIsForeseen ==
    Covered =>
        \A p \in Periods : \A T \in Days :
            Dated(p) <= T /\ T < Due(p) /\ ~Withdrawn(p, T) =>
                [period |-> p, at |-> Due(p), released |-> Unset, figure |-> Unset] \in Replay(T)

\* What a run has behind it is whole, whatever earlier runs left undone: the date, its provenance,
\* for the lapse the cancellation and its provenance, and the observation.
OnRecord(p, known) ==
    \E i \in DOMAIN vintages[p] :
        vintages[p][i].known = known /\ [period |-> p, no |-> i] \in assertions

RerunHeals ==
    run.step \in Steps \ {"idle", "sources"} =>
        \A p \in Periods : p < run.period /\ ~Unlisted(p) =>
            /\ observations[p] # Unset
            /\ OnRecord(p, Dated(p))
            /\ IsLapse(p) => OnRecord(p, family.lapse.cancelled)

\* A figure that a replay of a day has shown is shown by every later replay of that day: no run
\* takes it back or changes it.
ToldStays ==
    [][\A T \in Days : \A e \in Replay(T) :
         e.released # Unset =>
            \E f \in Replay(T)' : /\ f.period = e.period
                                  /\ f.released = e.released /\ f.figure = e.figure]_macroVars
=============================================================================
