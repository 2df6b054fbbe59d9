----------------------- MODULE MacroEvidence_proofs -----------------------
(***************************************************************************)
(* Theorems about MacroEvidence: types, no lookahead, what a complete      *)
(* report promises, what a re-run heals and what a replay keeps.           *)
(***************************************************************************)
EXTENDS MacroEvidence, TLAPS, SequenceTheorems

-----------------------------------------------------------------------------
(* The inductive invariant.                                                *)

\* The calendar in hand will not change any more.
Settled == family.monthly => Page \in Fetched

\* The row an earlier version left, the row of the announcement, the row of the cancellation.
Old(p, i) ==
    /\ i = 1 /\ LegacyAssumption(p, vintages[p][i])
    /\ [period |-> p, no |-> i] \notin assertions
Own(p, i) ==
    /\ Settled /\ ~Unlisted(p)
    /\ vintages[p][i].known = Dated(p) /\ vintages[p][i].at = Due(p)
    /\ vintages[p][i].status = "SCHEDULED"
Ending(p, i) ==
    /\ IsLapse(p) /\ vintages[p][i].status = "CANCELLED"
    /\ vintages[p][i].known = family.lapse.cancelled

Origins ==
    \A p \in Periods : \A i \in DOMAIN vintages[p] : Old(p, i) \/ Own(p, i) \/ Ending(p, i)

\* Bodies say nothing too early.
Kept ==
    /\ Page \in Fetched => \/ \E d \in Days : snapshots[Page] = family.calendar[d]
                          \/ snapshots[Page] = Refusal(Page)
    /\ \A d \in Days : Series(d) \in Fetched =>
         snapshots[Series(d)] \subseteq {p \in Periods : family.released[p] <= d}

\* An observation rests on a row of the announcement and is dated like it, or by the lapse.
Founded ==
    \A p \in Periods : observations[p] # Unset =>
        /\ \E i \in DOMAIN vintages[p] : Own(p, i)
        /\ ~IsLapse(p) => observations[p].known = Due(p)
        /\ IsLapse(p) => family.lapse.cancelled <= observations[p].known
        /\ observations[p].figure = "VALUE" => family.released[p] <= observations[p].known

\* Where the command stands.
Running == run.step \notin {"idle", "sources"}
Standing ==
    LET p == run.period
        rows == vintages[p]
    IN  /\ IF Running THEN Sources \subseteq Fetched ELSE p = First
        /\ Running /\ ~At("announce") => ~Unlisted(p)
        /\ At("cancel") \/ At("assert cancel") => IsLapse(p)
        /\ At("fetch") => ~IsLapse(p)
        /\ At("observe") /\ ~IsLapse(p) /\ family.monthly => Series(Calendar[p]) \in Fetched
        /\ At("assert") /\ IsLapse(p) => \E i \in DOMAIN rows : rows[i].known = family.lapse.known
        /\ At("assert") /\ ~IsLapse(p) =>
             rows # <<>> /\ rows[Len(rows)].known = Dated(p) /\ Dated(p) \in TellingDays(family)
        /\ run.step \in {"cancel", "assert cancel", "fetch", "observe"} =>
             OnRecord(p, Dated(p)) /\ Dated(p) \in TellingDays(family)
        /\ At("assert cancel") => \E i \in DOMAIN rows : rows[i].status = "CANCELLED"
        /\ At("observe") /\ IsLapse(p) => OnRecord(p, family.lapse.cancelled)

Sound == MacroTypeOK /\ Origins /\ Kept /\ Founded /\ Standing /\ RerunHeals

-----------------------------------------------------------------------------
(* Facts about the constants and the calendar.                             *)

LEMMA DaysFacts == 0 \in Days /\ Days \subseteq Nat /\ Periods \subseteq Nat
                   /\ First \in Periods /\ Final \in Periods
  BY MacroAssumption DEF MacroAssumption, Days, Periods

LEMMA CalendarDays ==
    ASSUME NEW f \in Families, NEW d \in Days, NEW p \in DOMAIN f.calendar[d]
    PROVE  f.calendar[d][p] \in Days /\ f.calendar[d][p] \in TellingDays(f)
<1>1. f.calendar \in [Days -> UNION {[D -> Days] : D \in SUBSET ((First - 1)..Final)}]
  BY MacroAssumption DEF MacroAssumption, FamilyAssumption, FamilySet
<1>2. PICK D \in SUBSET ((First - 1)..Final) : f.calendar[d] \in [D -> Days]
  <2>1. f.calendar[d] \in UNION {[D -> Days] : D \in SUBSET ((First - 1)..Final)}
    BY <1>1, Zenon
  <2> QED
    BY <2>1
<1>3. f.calendar[d][p] \in Days
  BY <1>2
<1>4. f.calendar[d][p] \in {f.calendar[d][q] : q \in DOMAIN f.calendar[d]}
  BY Zenon
<1> QED
  BY <1>3, <1>4, Zenon DEF TellingDays

LEMMA FamilyFacts ==
    ASSUME NEW f \in Families
    PROVE  /\ f.monthly \in BOOLEAN
           /\ \A p \in Periods : f.announced[p] \in Days /\ f.announced[p] \in TellingDays(f)
           /\ f.released \in [Periods -> Nat]
           /\ f.lapse # Unset =>
                /\ f.lapse \in LapseSet /\ f.monthly
                /\ f.lapse.known \in TellingDays(f) /\ f.lapse.cancelled \in TellingDays(f)
                /\ f.lapse.known < f.lapse.cancelled /\ f.lapse.cancelled <= f.lapse.published
                /\ f.lapse.figure = "VALUE" => f.released[f.lapse.period] <= f.lapse.published
           /\ ~f.monthly => \A p \in DOMAIN f.calendar[0] :
                                p \in Periods => f.released[p] <= f.calendar[0][p]
<1>1. f \in FamilySet /\ FamilyAssumption(f)
  BY MacroAssumption DEF MacroAssumption, FamilyAssumption
<1>2. f.monthly \in BOOLEAN /\ f.announced \in [Periods -> Days] /\ f.released \in [Periods -> Nat]
      /\ f.lapse \in LapseSet \cup {Unset}
  BY <1>1 DEF FamilySet
<1>3. \A p \in Periods : f.announced[p] \in {f.announced[q] : q \in Periods}
  BY Zenon
<1>4. f.lapse # Unset => f.lapse.known \in TellingDays(f) /\ f.lapse.cancelled \in TellingDays(f)
  BY Zenon DEF TellingDays
<1>5. \A p \in Periods : f.announced[p] \in TellingDays(f)
  BY <1>3, Zenon DEF TellingDays
<1> QED
  BY <1>1, <1>2, <1>4, <1>5 DEF FamilyAssumption

LEMMA LapseFields ==
    ASSUME NEW l \in LapseSet
    PROVE  /\ l.period \in Periods /\ l.known \in Days /\ l.at \in Days /\ l.cancelled \in Days
           /\ l.figure \in {"VALUE", "NOT_PUBLISHED"} /\ l.published \in Days
  BY DEF LapseSet

\* A settled calendar is one the page showed on some day, or lists nothing.
LEMMA Listing ==
    ASSUME MacroTypeOK, Kept, Settled
    PROVE  \A p \in DOMAIN Calendar : Calendar[p] \in Days /\ Calendar[p] \in TellingDays(family)
<1>1. family \in Families
  BY DEF MacroTypeOK
<1>2. CASE Calendar = Refusal(Page)
  <2>1. Refusal(Page) = [p \in {} |-> 0]
    BY DEF Refusal, Page
  <2>2. \A p : p \notin DOMAIN Calendar
    BY <1>2, <2>1
  <2> QED
    BY <2>2
<1>3. CASE \E d \in Days : Calendar = family.calendar[d]
  BY <1>1, <1>3, CalendarDays, Zenon
<1>4. Calendar = Refusal(Page) \/ \E d \in Days : Calendar = family.calendar[d]
  BY DaysFacts, Zenon DEF Kept, Settled, Calendar
<1> QED
  BY <1>2, <1>3, <1>4, Zenon

LEMMA Dating ==
    ASSUME MacroTypeOK, Kept, Settled, NEW p \in Periods, ~Unlisted(p)
    PROVE  /\ IsLapse(p) \/ Dated(p) # Unset => Dated(p) \in Days /\ Dated(p) \in TellingDays(family)
           /\ Due(p) \in Days
<1>1. family \in Families
  BY DEF MacroTypeOK
<1>2. CASE IsLapse(p)
  <2>1. family.lapse \in LapseSet /\ family.lapse.known \in TellingDays(family)
    BY <1>1, <1>2, FamilyFacts, Zenon DEF IsLapse
  <2> QED
    BY <1>2, <2>1, LapseFields, Zenon DEF Dated, Due
<1>3. CASE ~IsLapse(p)
  <2>1. p \in DOMAIN Calendar /\ Due(p) = Calendar[p] /\ Dated(p) = Announced(p)
    BY <1>3, Zenon DEF Unlisted, Due, Dated
  <2>2. Due(p) \in Days
    BY <2>1, Listing, Zenon
  <2>3. Announced(p) # Unset => Announced(p) \in Days /\ Announced(p) \in TellingDays(family)
    <3>1. CASE ~family.monthly
      BY <1>1, <3>1, FamilyFacts, Zenon DEF Announced
    <3>2. CASE family.monthly /\ Previous(p) \in DOMAIN Calendar
      <4>1. Announced(p) = Calendar[Previous(p)]
        BY <3>2, Zenon DEF Announced
      <4> QED
        BY <3>2, <4>1, Listing, Zenon
    <3>3. CASE family.monthly /\ Previous(p) \notin DOMAIN Calendar
      BY <3>3, Zenon DEF Announced
    <3> QED
      BY <3>1, <3>2, <3>3, Zenon
  <2> QED
    BY <1>3, <2>1, <2>2, <2>3, Zenon
<1> QED
  BY <1>2, <1>3

-----------------------------------------------------------------------------
(* What every step keeps.                                                  *)

LEMMA Reuse ==
    ASSUME NEW url, FetchOrReuse(url)
    PROVE  /\ Fetched' = Fetched \cup {url}
           /\ \A u \in Fetched : snapshots'[u] = snapshots[u]
           /\ url \notin Fetched => snapshots'[url] = Answer(url) \/ snapshots'[url] = Refusal(url)
<1>1. PICK body \in {Answer(url)} \cup (IF url \in Refusing THEN {Refusal(url)} ELSE {}) :
        snapshots' = [u \in Fetched \cup {url} |-> IF u \in Fetched THEN snapshots[u] ELSE body]
  BY Zenon DEF FetchOrReuse
<1>2. body = Answer(url) \/ body = Refusal(url)
  OBVIOUS
<1>3. Fetched' = Fetched \cup {url}
  BY <1>1, Zenon DEF Fetched
<1>4. \A u \in Fetched : snapshots'[u] = snapshots[u]
  BY <1>1, Zenon
<1>5. url \notin Fetched => snapshots'[url] = body
  BY <1>1
<1> QED
  BY <1>2, <1>3, <1>4, <1>5, Zenon

LEMMA SnapshotsGrow ==
    ASSUME [MacroNext]_macroVars
    PROVE  \A u \in Fetched : u \in Fetched' /\ snapshots'[u] = snapshots[u]
<1>1. CASE UNCHANGED snapshots
  BY <1>1, Zenon DEF Fetched
<1>2. ASSUME NEW url, FetchOrReuse(url)
      PROVE  \A u \in Fetched : u \in Fetched' /\ snapshots'[u] = snapshots[u]
  BY <1>2, Reuse, Zenon
<1>3. CASE FetchSource
  BY <1>1, <1>2, <1>3, Zenon DEF FetchSource
<1>4. CASE FetchAnnouncement
  BY <1>1, <1>2, <1>4, Zenon DEF FetchAnnouncement
<1>5. CASE FetchFigure
  BY <1>2, <1>5, Zenon DEF FetchFigure
<1> QED
  BY <1>1, <1>3, <1>4, <1>5, Zenon
     DEF MacroNext, macroVars, Begin, PassOver, RecordSchedule, RecordAssertion,
         RecordCancellation, RecordObservation, BreakOff, DayPasses

LEMMA Superseding ==
    ASSUME MacroTypeOK, NEW p \in Periods, NEW v \in VintageSet, Supersede(p, v)
    PROVE  /\ vintages' \in [Periods -> Seq(VintageSet)]
           /\ \A q \in Periods \ {p} : vintages'[q] = vintages[q]
           /\ Len(vintages[p]) \in Nat /\ DOMAIN vintages[p] = 1..Len(vintages[p])
           /\ DOMAIN vintages'[p] = 1..(Len(vintages[p]) + 1)
           /\ Len(vintages'[p]) = Len(vintages[p]) + 1
           /\ \A i \in DOMAIN vintages[p] : i \in DOMAIN vintages'[p] /\ vintages'[p][i] = vintages[p][i]
           /\ vintages'[p][Len(vintages[p]) + 1] = v
<1>1. vintages \in [Periods -> Seq(VintageSet)]
  BY DEF MacroTypeOK
<1>2. vintages' = [vintages EXCEPT ![p] = Append(@, v)]
  BY Zenon DEF Supersede
<1>3. vintages[p] \in Seq(VintageSet)
  BY <1>1
<1>4. vintages'[p] = Append(vintages[p], v) /\ Append(vintages[p], v) \in Seq(VintageSet)
  BY <1>1, <1>2, <1>3
<1>5. \A q \in Periods \ {p} : vintages'[q] = vintages[q]
  BY <1>1, <1>2, Zenon
<1>6. vintages' \in [Periods -> Seq(VintageSet)]
  BY <1>1, <1>2, <1>4, Zenon
<1> DEFINE s == vintages[p]  n == Append(s, v)
<1>7. /\ Len(s) \in Nat /\ DOMAIN s = 1..Len(s)
      /\ DOMAIN n = 1..(Len(s) + 1) /\ Len(n) = Len(s) + 1
      /\ \A i \in 1..Len(s) : n[i] = s[i]
      /\ n[Len(s) + 1] = v
  <2> HIDE DEF s
  <2>1. s \in Seq(VintageSet)
    BY <1>3 DEF s
  <2> QED
    BY <2>1
<1>8. \A i \in DOMAIN s : i \in DOMAIN n
  BY <1>7
<1> QED
  BY <1>4, <1>5, <1>6, <1>7, <1>8, Zenon

LEMMA VintageTyped ==
    ASSUME NEW k \in Days, NEW a \in Days, NEW s \in {"SCHEDULED", "CANCELLED"}
    PROVE  [known |-> k, at |-> a, status |-> s, trusted |-> TRUE] \in VintageSet
<1>1. k \in Int
  BY DaysFacts
<1> QED
  BY <1>1, Zenon DEF VintageSet

LEMMA RowsTyped ==
    ASSUME MacroTypeOK, NEW p \in Periods
    PROVE  /\ vintages[p] \in Seq(VintageSet) /\ Len(vintages[p]) \in Nat
           /\ DOMAIN vintages[p] = 1..Len(vintages[p])
           /\ \A i \in DOMAIN vintages[p] : vintages[p][i] \in VintageSet
           /\ vintages[p] # <<>> => Len(vintages[p]) \in DOMAIN vintages[p]
<1> DEFINE s == vintages[p]
<1>1. s \in Seq(VintageSet)
  BY DEF MacroTypeOK
<1> HIDE DEF s
<1>2. Len(s) \in Nat /\ DOMAIN s = 1..Len(s) /\ \A i \in DOMAIN s : s[i] \in VintageSet
  BY <1>1
<1>3. s # <<>> => Len(s) \in DOMAIN s
  BY <1>1, <1>2, EmptySeq
<1> QED
  BY <1>1, <1>2, <1>3, Zenon DEF s

\* The row the command appends.
LEMMA Scheduling ==
    ASSUME MacroTypeOK, Kept, Standing, RecordSchedule
    PROVE  LET p == run.period
           IN  /\ p \in Periods /\ Settled /\ ~Unlisted(p)
               /\ \/ /\ UNCHANGED vintages
                     /\ Dated(p) \in TellingDays(family)
                     /\ IF IsLapse(p) THEN \E i \in DOMAIN vintages[p] : vintages[p][i].known = family.lapse.known
                        ELSE vintages[p] # <<>> /\ vintages[p][Len(vintages[p])].known = Announced(p)
                  \/ \E v \in VintageSet : /\ Supersede(p, v) /\ v.known = Dated(p)
                                           /\ Dated(p) \in TellingDays(family) /\ v.at = Due(p) /\ v.status = "SCHEDULED"
<1> DEFINE p == run.period
           v == [known |-> IF IsLapse(p) THEN family.lapse.known ELSE Announced(p),
                 at |-> IF IsLapse(p) THEN family.lapse.at ELSE Calendar[p],
                 status |-> "SCHEDULED", trusted |-> TRUE]
<1>1. p \in Periods
  BY DEF MacroTypeOK
<1>2. Running /\ ~At("announce")
  BY DEF RecordSchedule, Running, At
<1>3. Settled /\ ~Unlisted(p)
  BY <1>2, Zenon DEF Standing, Settled, Sources
<1>4. CASE UNCHANGED vintages /\ IF IsLapse(p)
                     THEN \E i \in DOMAIN vintages[p] : vintages[p][i].known = family.lapse.known
                     ELSE vintages[p] # <<>> /\ vintages[p][Len(vintages[p])].known = Announced(p)
  <2>1. IsLapse(p) \/ Dated(p) # Unset
    <3>1. SUFFICES ASSUME ~IsLapse(p) PROVE Dated(p) # Unset
      OBVIOUS
    <3>2. Dated(p) = Announced(p)
      BY <3>1, Zenon DEF Dated
    <3>3. vintages[p] # <<>> /\ vintages[p][Len(vintages[p])].known = Announced(p)
      BY <1>4, <3>1, Zenon
    <3>4. vintages[p][Len(vintages[p])] \in VintageSet
      BY <1>1, <3>3, RowsTyped, Zenon
    <3>5. Announced(p) \in Int
      BY <3>3, <3>4 DEF VintageSet
    <3> QED
      BY <3>2, <3>5, MacroAssumption, Zenon DEF MacroAssumption
  <2>2. Dated(p) \in TellingDays(family)
    BY <1>1, <1>3, <2>1, Dating, Zenon
  <2> QED
    BY <1>1, <1>3, <1>4, <2>2, Zenon
<1>5. CASE Supersede(p, v)
  <2>1. v.known = Dated(p) /\ v.at = Due(p) /\ v.status = "SCHEDULED"
    BY Zenon DEF Dated, Due
  <2>2. Dated(p) # Unset
    BY <1>5, <2>1, Zenon DEF Supersede
  <2>3. Dated(p) \in Days /\ Due(p) \in Days /\ Dated(p) \in TellingDays(family)
    BY <1>1, <1>3, <2>2, Dating, Zenon
  <2>4. v = [known |-> Dated(p), at |-> Due(p), status |-> "SCHEDULED", trusted |-> TRUE]
    BY Zenon DEF Dated, Due
  <2>5. [known |-> Dated(p), at |-> Due(p), status |-> "SCHEDULED", trusted |-> TRUE] \in VintageSet
    BY <2>3, VintageTyped, Zenon
  <2> HIDE DEF v
  <2> QED
    BY <1>1, <1>3, <1>5, <2>1, <2>3, <2>4, <2>5, Zenon
<1> QED
  BY <1>4, <1>5, Zenon DEF RecordSchedule

LEMMA Cancelling ==
    ASSUME MacroTypeOK, Kept, Standing, RecordCancellation
    PROVE  LET p == run.period
           IN  /\ p \in Periods /\ Settled /\ IsLapse(p)
               /\ \/ UNCHANGED vintages /\ \E i \in DOMAIN vintages[p] : vintages[p][i].status = "CANCELLED"
                  \/ \E v \in VintageSet : /\ Supersede(p, v) /\ v.known = family.lapse.cancelled
                                           /\ v.status = "CANCELLED"
<1> DEFINE p == run.period
           v == [known |-> family.lapse.cancelled, at |-> family.lapse.at,
                 status |-> "CANCELLED", trusted |-> TRUE]
<1>1. p \in Periods /\ family \in Families
  BY DEF MacroTypeOK
<1>2. Running /\ At("cancel")
  BY DEF RecordCancellation, Running, At
<1>3. Settled /\ IsLapse(p)
  BY <1>2, Zenon DEF Standing, Settled, Sources
<1>4. family.lapse \in LapseSet
  BY <1>1, <1>3, FamilyFacts, Zenon DEF IsLapse
<1>5. v \in VintageSet
  BY <1>4, LapseFields, VintageTyped, Zenon
<1>6. v.known = family.lapse.cancelled /\ v.status = "CANCELLED"
  OBVIOUS
<1>7. \/ UNCHANGED vintages /\ \E i \in DOMAIN vintages[p] : vintages[p][i].status = "CANCELLED"
      \/ Supersede(p, v)
  BY Zenon DEF RecordCancellation
<1> HIDE DEF v
<1> QED
  BY <1>1, <1>3, <1>5, <1>6, <1>7, Zenon

LEMMA RowsGrow ==
    ASSUME MacroTypeOK, Kept, Standing, [MacroNext]_macroVars
    PROVE  /\ vintages' \in [Periods -> Seq(VintageSet)]
           /\ \A p \in Periods : \A i \in DOMAIN vintages[p] :
                i \in DOMAIN vintages'[p] /\ vintages'[p][i] = vintages[p][i]
<1>1. CASE UNCHANGED vintages
  BY <1>1, Zenon DEF MacroTypeOK
<1>2. ASSUME NEW p \in Periods, NEW v \in VintageSet, Supersede(p, v)
      PROVE  /\ vintages' \in [Periods -> Seq(VintageSet)]
             /\ \A q \in Periods : \A i \in DOMAIN vintages[q] :
                i \in DOMAIN vintages'[q] /\ vintages'[q][i] = vintages[q][i]
  BY <1>2, Superseding, Zenon
<1>3. CASE RecordSchedule
  BY <1>1, <1>2, <1>3, Scheduling, Zenon
<1>4. CASE RecordCancellation
  BY <1>1, <1>2, <1>4, Cancelling, Zenon
<1> QED
  BY <1>1, <1>3, <1>4, Zenon
     DEF MacroNext, macroVars, Begin, FetchSource, FetchAnnouncement, PassOver, RecordAssertion,
         FetchFigure, RecordObservation, BreakOff, DayPasses

LEMMA RestGrows ==
    ASSUME [MacroNext]_macroVars
    PROVE  /\ family' = family
           /\ assertions \subseteq assertions'
           /\ observations \in [Periods -> ObservationSet \cup {Unset}] =>
                \A p \in Periods : observations[p] # Unset => observations'[p] = observations[p]
<1>1. CASE RecordAssertion
  BY <1>1, Zenon DEF RecordAssertion
<1>2. CASE RecordObservation
  BY <1>2, Zenon DEF RecordObservation
<1> QED
  BY <1>1, <1>2, Zenon
     DEF MacroNext, macroVars, Begin, FetchSource, FetchAnnouncement, PassOver, RecordSchedule,
         RecordCancellation, FetchFigure, BreakOff, DayPasses

\* A settled calendar stands, and all that is read off it.
LEMMA Steady ==
    ASSUME Settled, [MacroNext]_macroVars
    PROVE  /\ Settled' /\ Calendar' = Calendar /\ family' = family
           /\ \A p : /\ Dated(p)' = Dated(p) /\ Due(p)' = Due(p) /\ IsLapse(p)' = IsLapse(p)
                     /\ Unlisted(p)' = Unlisted(p) /\ Announced(p)' = Announced(p)
<1>1. family' = family
  BY RestGrows
<1>2. Settled' /\ Calendar' = Calendar
  BY <1>1, SnapshotsGrow, Zenon DEF Settled, Calendar
<1>3. \A p : Previous(p)' = Previous(p)
  <2> TAKE p
  <2>1. {q \in DOMAIN Calendar' : q \in Periods /\ q < p} = {q \in DOMAIN Calendar : q \in Periods /\ q < p}
    BY <1>2, Zenon
  <2> QED
    BY <2>1, Zenon DEF Previous
<1>4. \A p : Announced(p)' = Announced(p)
  BY <1>1, <1>2, <1>3, Zenon DEF Announced
<1>5. \A p : IsLapse(p)' = IsLapse(p)
  BY <1>1, Zenon DEF IsLapse
<1>6. \A p : Dated(p)' = Dated(p) /\ Due(p)' = Due(p) /\ Unlisted(p)' = Unlisted(p)
  BY <1>1, <1>2, <1>4, <1>5, Zenon DEF Dated, Due, Unlisted
<1> QED
  BY <1>1, <1>2, <1>4, <1>5, <1>6, Zenon

-----------------------------------------------------------------------------
(* What the command holds in its hands.                                    *)

LEMMA Positions == \A n \in Nat : \A i \in 1..n : i \in Nat /\ i # 0 /\ i \in Nat \ {0}
  OBVIOUS

LEMMA InHandIs ==
    ASSUME MacroTypeOK, Kept, Origins, Standing, At("assert") \/ At("assert cancel")
    PROVE  LET p == run.period
           IN  /\ p \in Periods /\ InHand \in DOMAIN vintages[p] /\ InHand \in Nat \ {0}
               /\ At("assert") => vintages[p][InHand].known = Dated(p)
               /\ At("assert cancel") => /\ IsLapse(p)
                                        /\ vintages[p][InHand].known = family.lapse.cancelled
               /\ ~Old(p, InHand)
<1> DEFINE p == run.period
<1>1. p \in Periods /\ family \in Families
  BY DEF MacroTypeOK
<1>2. Settled /\ ~Unlisted(p)
  BY Zenon DEF Standing, Settled, Sources, Running, At
<1>3. \A i \in DOMAIN vintages[p] : i \in Nat \ {0}
  <2>1. Len(vintages[p]) \in Nat /\ DOMAIN vintages[p] = 1..Len(vintages[p])
    BY <1>1, RowsTyped, Zenon
  <2> QED
    BY <2>1, Positions, Zenon
<1>4. CASE At("assert cancel")
  <2>6. ~At("assert")
    BY <1>4 DEF At
  <2>1. InHand = CHOOSE i \in DOMAIN vintages[p] : vintages[p][i].status = "CANCELLED"
    BY <1>4, <2>6, Zenon DEF InHand
  <2>2. \E i \in DOMAIN vintages[p] : vintages[p][i].status = "CANCELLED"
    BY <1>4, Zenon DEF Standing
  <2>3. InHand \in DOMAIN vintages[p] /\ vintages[p][InHand].status = "CANCELLED"
    BY <2>1, <2>2, Zenon
  <2>4. ~Own(p, InHand) /\ ~Old(p, InHand)
    BY <2>3 DEF Own, Old, LegacyAssumption
  <2>5. IsLapse(p) /\ vintages[p][InHand].known = family.lapse.cancelled
    BY <1>1, <2>3, <2>4, Zenon DEF Origins, Ending
  <2> QED
    BY <1>1, <1>3, <2>3, <2>4, <2>5, <2>6, Zenon
<1>5. CASE At("assert")
  <2>1. ~At("assert cancel")
    BY <1>5 DEF At
  <2>2. InHand \in DOMAIN vintages[p] /\ vintages[p][InHand].known = Dated(p)
        /\ Dated(p) \in TellingDays(family)
    <3>1. CASE IsLapse(p)
      <4>1. InHand = CHOOSE i \in DOMAIN vintages[p] : vintages[p][i].known = family.lapse.known
        BY <1>5, <2>1, <3>1, Zenon DEF InHand
      <4>2. \E i \in DOMAIN vintages[p] : vintages[p][i].known = family.lapse.known
        BY <1>5, <3>1, Zenon DEF Standing
      <4>3. InHand \in DOMAIN vintages[p] /\ vintages[p][InHand].known = family.lapse.known
        BY <4>1, <4>2, Zenon
      <4>4. Dated(p) = family.lapse.known
        BY <3>1, Zenon DEF Dated
      <4>5. Dated(p) \in TellingDays(family)
        BY <1>1, <1>2, <3>1, Dating, Zenon
      <4> QED
        BY <4>3, <4>4, <4>5
    <3>2. CASE ~IsLapse(p)
      <4>1. InHand = Len(vintages[p])
        BY <1>5, <2>1, <3>2, Zenon DEF InHand
      <4>2. vintages[p] # <<>> /\ vintages[p][Len(vintages[p])].known = Dated(p)
            /\ Dated(p) \in TellingDays(family)
        BY <1>5, <3>2, Zenon DEF Standing
      <4> QED
        BY <1>1, <4>1, <4>2, RowsTyped, Zenon
    <3> QED
      BY <3>1, <3>2
  <2>4. ~Old(p, InHand)
    BY <1>1, <2>2, Zenon DEF Old, LegacyAssumption
  <2> QED
    BY <1>1, <1>3, <2>1, <2>2, <2>4, Zenon
<1> QED
  BY <1>4, <1>5

\* A recorded announcement is a row of the command's own.
LEMMA RecordedIsOwn ==
    ASSUME MacroTypeOK, Origins, NEW p \in Periods, OnRecord(p, Dated(p))
    PROVE  \E i \in DOMAIN vintages[p] : Own(p, i)
<1>1. PICK i \in DOMAIN vintages[p] :
          vintages[p][i].known = Dated(p) /\ [period |-> p, no |-> i] \in assertions
  BY Zenon DEF OnRecord
<1>2. ~Old(p, i)
  BY <1>1, Zenon DEF Old
<1>3. ~Ending(p, i)
  <2>1. SUFFICES ASSUME Ending(p, i) PROVE FALSE
    OBVIOUS
  <2>2. family.lapse # Unset /\ Dated(p) = family.lapse.known /\ Dated(p) = family.lapse.cancelled
    BY <1>1, <2>1, Zenon DEF Ending, Dated, IsLapse
  <2>3. family.lapse.known < family.lapse.cancelled /\ family.lapse \in LapseSet
    BY <2>2, FamilyFacts, Zenon DEF MacroTypeOK
  <2>4. family.lapse.known \in Nat
    BY <2>3, LapseFields, DaysFacts
  <2> QED
    BY <2>2, <2>3, <2>4
<1> QED
  BY <1>1, <1>2, <1>3, Zenon DEF Origins

\* What a run writes down of a period.
LEMMA Observing ==
    ASSUME MacroTypeOK, Kept, Standing, At("observe")
    PROVE  LET p == run.period
           IN  /\ p \in Periods /\ Observation(p) \in ObservationSet
               /\ ~IsLapse(p) => Observation(p).known = Due(p)
               /\ IsLapse(p) => family.lapse.cancelled <= Observation(p).known
               /\ Observation(p).figure = "VALUE" => family.released[p] <= Observation(p).known
<1> DEFINE p == run.period
<1>1. p \in Periods /\ family \in Families
  BY DEF MacroTypeOK
<1>2. Settled /\ ~Unlisted(p) /\ Sources \subseteq Fetched
  BY Zenon DEF Standing, Settled, Sources, Running, At
<1>3. CASE IsLapse(p)
  <2>1. /\ family.lapse # Unset /\ family.lapse.period = p /\ family.lapse \in LapseSet
        /\ family.lapse.cancelled <= family.lapse.published
        /\ family.lapse.figure = "VALUE" => family.released[p] <= family.lapse.published
    BY <1>1, <1>3, FamilyFacts, Zenon DEF IsLapse
  <2>2. family.lapse.cancelled \in Nat
    BY <2>1, LapseFields, DaysFacts
  <2>3. CASE family.lapse.figure = "VALUE"
    <3>1. Observation(p) = [known |-> family.lapse.published, figure |-> "VALUE"]
      BY <1>3, <2>3, Zenon DEF Observation
    <3>2. family.lapse.published \in Days
      BY <2>1, LapseFields
    <3> QED
      BY <1>1, <1>3, <2>1, <2>3, <3>1, <3>2 DEF ObservationSet, Figures
  <2>4. CASE family.lapse.figure = "NOT_PUBLISHED"
    <3>1. Observation(p) = [known |-> family.lapse.cancelled, figure |-> "NOT_PUBLISHED"]
      BY <1>3, <2>4 DEF Observation
    <3>2. family.lapse.cancelled \in Days
      BY <2>1, LapseFields
    <3> QED
      BY <1>1, <1>3, <2>2, <3>1, <3>2 DEF ObservationSet, Figures
  <2> QED
    BY <2>1, <2>3, <2>4, LapseFields
<1>4. CASE ~IsLapse(p)
  <2>1. p \in DOMAIN Calendar /\ Due(p) = Calendar[p]
    BY <1>2, <1>4, Zenon DEF Unlisted, Due
  <2>2. Calendar[p] \in Days
    BY <1>2, <2>1, Listing, Zenon
  <2>3. CASE family.monthly
    <3>1. Observation(p) = [known |-> Calendar[p],
                            figure |-> IF p \in snapshots[Series(Calendar[p])] THEN "VALUE" ELSE "N/A"]
      BY <1>4, <2>3, Zenon DEF Observation
    <3>2. Series(Calendar[p]) \in Fetched
      BY <1>4, <2>3, Zenon DEF Standing
    <3>3. p \in snapshots[Series(Calendar[p])] => family.released[p] <= Calendar[p]
      BY <2>2, <3>2, Zenon DEF Kept
    <3> QED
      BY <1>1, <1>4, <2>1, <2>2, <3>1, <3>3 DEF ObservationSet, Figures
  <2>4. CASE ~family.monthly
    <3>1. Observation(p) = [known |-> Calendar[p],
                            figure |-> IF p \in snapshots[Series(LastDay)] THEN "VALUE" ELSE "RATE_DECISION"]
      BY <1>4, <2>4, Zenon DEF Observation
    <3>2. family.released[p] <= Calendar[p]
      BY <1>1, <2>1, <2>4, FamilyFacts, Zenon DEF Calendar
    <3> QED
      BY <1>1, <1>4, <2>1, <2>2, <3>1, <3>2 DEF ObservationSet, Figures
  <2> QED
    BY <1>1, <2>3, <2>4, FamilyFacts
<1> QED
  BY <1>3, <1>4

-----------------------------------------------------------------------------
(* The invariant is inductive.                                             *)

LEMMA RecordedStays ==
    ASSUME MacroTypeOK, Kept, Standing, [MacroNext]_macroVars,
           NEW p \in Periods, NEW k, OnRecord(p, k)
    PROVE  \E i \in DOMAIN vintages'[p] :
              vintages'[p][i].known = k /\ [period |-> p, no |-> i] \in assertions'
<1>1. PICK i \in DOMAIN vintages[p] : vintages[p][i].known = k /\ [period |-> p, no |-> i] \in assertions
  BY Zenon DEF OnRecord
<1>2. i \in DOMAIN vintages'[p] /\ vintages'[p][i] = vintages[p][i]
  BY <1>1, RowsGrow, Zenon
<1>3. [period |-> p, no |-> i] \in assertions'
  BY <1>1, RestGrows, Zenon
<1> QED
  BY <1>1, <1>2, <1>3, Zenon

LEMMA TypesKept ==
    ASSUME Sound, [MacroNext]_macroVars
    PROVE  MacroTypeOK'
<1> USE DEF Sound
<1>1. vintages' \in [Periods -> Seq(VintageSet)] /\ family' \in Families
  BY RowsGrow, RestGrows, Zenon DEF MacroTypeOK
<1>2. today' \in Days
  <2>1. CASE DayPasses
    BY <2>1, MacroAssumption DEF DayPasses, MacroTypeOK, Days, MacroAssumption
  <2> QED
    BY <2>1, Zenon
       DEF MacroTypeOK, MacroNext, macroVars, Begin, FetchSource, FetchAnnouncement, PassOver,
           RecordSchedule, RecordAssertion, RecordCancellation, FetchFigure, RecordObservation, BreakOff
<1>3. run' \in [step: Steps, period: Periods]
  <2>1. run \in [step: Steps, period: Periods] /\ Idle \in [step: Steps, period: Periods]
    BY DaysFacts DEF MacroTypeOK, Idle, Steps
  <2>2. \A step \in Steps : Goto(step) => run' \in [step: Steps, period: Periods]
    BY <2>1 DEF Goto
  <2>3. NextPeriod => run' \in [step: Steps, period: Periods]
    <3>1. \A p \in Periods : p # Final => p + 1 \in Periods
      BY MacroAssumption DEF MacroAssumption, Periods
    <3>2. run.period \in Periods
      BY <2>1
    <3>3. NextPeriod => run' = Idle \/ (run.period # Final /\ run' = [step |-> "announce", period |-> run.period + 1])
      BY Zenon DEF NextPeriod
    <3>4. run.period # Final => run.period + 1 \in Periods
      BY <3>1, <3>2, Zenon
    <3>5. "announce" \in Steps
      BY DEF Steps
    <3>6. run.period # Final =>
             [step |-> "announce", period |-> run.period + 1] \in [step: Steps, period: Periods]
      BY <3>4, <3>5, Zenon
    <3> QED
      BY <2>1, <3>3, <3>6, Zenon
  <2>4. CASE RecordAssertion
    <3>1. \/ Goto("cancel") \/ Goto("fetch") \/ Goto("observe")
      BY <2>4, Zenon DEF RecordAssertion
    <3> QED
      BY <2>2, <3>1 DEF Steps
  <2>5. CASE FetchSource
    <3>1. UNCHANGED run \/ Goto("announce")
      BY <2>5, Zenon DEF FetchSource
    <3> QED
      BY <2>1, <2>2, <3>1 DEF Steps
  <2>6. CASE \/ Begin
             \/ FetchAnnouncement
             \/ RecordSchedule
             \/ RecordCancellation
             \/ FetchFigure
    <3>1. \/ Goto("sources") \/ Goto("schedule") \/ Goto("assert") \/ Goto("assert cancel")
          \/ Goto("observe")
      BY <2>6, Zenon DEF Begin, FetchAnnouncement, RecordSchedule, RecordCancellation, FetchFigure
    <3> QED
      BY <2>2, <3>1 DEF Steps
  <2> QED
    BY <2>1, <2>3, <2>4, <2>5, <2>6, Zenon
       DEF MacroNext, macroVars, PassOver, RecordObservation, BreakOff, DayPasses
<1>4. observations' \in [Periods -> ObservationSet \cup {Unset}]
  <2>1. CASE RecordObservation
    <3>1. At("observe")
      BY <2>1, Zenon DEF RecordObservation
    <3>2. run.period \in Periods /\ Observation(run.period) \in ObservationSet
      BY <3>1, Observing, Zenon
    <3> QED
      BY <2>1, <3>2 DEF RecordObservation, MacroTypeOK
  <2> QED
    BY <2>1, Zenon
       DEF MacroTypeOK, MacroNext, macroVars, Begin, FetchSource, FetchAnnouncement, PassOver,
           RecordSchedule, RecordAssertion, RecordCancellation, FetchFigure, BreakOff, DayPasses
<1>5. assertions' \subseteq [period: Periods, no: Nat \ {0}]
  <2>1. CASE RecordAssertion
    <3>1. At("assert") \/ At("assert cancel")
      BY <2>1, Zenon DEF RecordAssertion
    <3>2. run.period \in Periods /\ InHand \in Nat \ {0}
      BY <3>1, InHandIs, Zenon
    <3>3. assertions' = assertions \cup {[period |-> run.period, no |-> InHand]}
      BY <2>1, Zenon DEF RecordAssertion
    <3> QED
      BY <3>2, <3>3 DEF MacroTypeOK
  <2> QED
    BY <2>1, Zenon
       DEF MacroTypeOK, MacroNext, macroVars, Begin, FetchSource, FetchAnnouncement, PassOver,
           RecordSchedule, RecordObservation, RecordCancellation, FetchFigure, BreakOff, DayPasses
<1> QED
  BY <1>1, <1>2, <1>3, <1>4, <1>5, Zenon DEF MacroTypeOK

LEMMA BodiesKept ==
    ASSUME Sound, [MacroNext]_macroVars
    PROVE  Kept'
<1> USE DEF Sound
<1>1. family' = family /\ family \in Families /\ today \in Days
  BY RestGrows, Zenon DEF MacroTypeOK
<1>2. CASE UNCHANGED snapshots
  BY <1>1, <1>2, Zenon DEF Kept, Fetched
<1>3. ASSUME NEW url, FetchOrReuse(url) PROVE Kept'
  <2>1. Answer(Page) = family.calendar[today]
    BY DEF Answer, Page
  <2>2. \A d \in Days : /\ Answer(Series(d)) \subseteq {p \in Periods : family.released[p] <= d}
                        /\ Refusal(Series(d)) \subseteq {p \in Periods : family.released[p] <= d}
    BY DEF Answer, Refusal, Series
  <2>3. Page \in Fetched' => \/ \E d \in Days : snapshots'[Page] = family.calendar[d]
                            \/ snapshots'[Page] = Refusal(Page)
    <3>1. SUFFICES ASSUME Page \in Fetched'
                   PROVE  \/ \E d \in Days : snapshots'[Page] = family.calendar[d]
                          \/ snapshots'[Page] = Refusal(Page)
      OBVIOUS
    <3>2. CASE Page \in Fetched
      <4>1. snapshots'[Page] = snapshots[Page]
        BY <1>3, <3>2, Reuse, Zenon
      <4>2. \/ \E d \in Days : snapshots[Page] = family.calendar[d]
            \/ snapshots[Page] = Refusal(Page)
        BY <3>2, Zenon DEF Kept
      <4> QED
        BY <4>1, <4>2, Zenon
    <3>3. CASE Page \notin Fetched
      <4>1. url = Page
        <5>1. Fetched' = Fetched \cup {url}
          BY <1>3, Reuse, Zenon
        <5> QED
          BY <3>1, <3>3, <5>1
      <4>2. snapshots'[Page] = Answer(Page) \/ snapshots'[Page] = Refusal(Page)
        BY <1>3, <3>3, <4>1, Reuse, Zenon
      <4> QED
        BY <1>1, <2>1, <4>2, Zenon
    <3> QED
      BY <3>2, <3>3
  <2>4. ASSUME NEW d \in Days, Series(d) \in Fetched'
        PROVE  snapshots'[Series(d)] \subseteq {p \in Periods : family.released[p] <= d}
    <3>1. Series(d) \in Fetched \/ (Series(d) = url /\ url \notin Fetched)
      BY <1>3, <2>4, Reuse, Zenon
    <3>2. CASE Series(d) \in Fetched
      <4>1. snapshots'[Series(d)] = snapshots[Series(d)]
        BY <1>3, <3>2, Reuse, Zenon
      <4> QED
        BY <3>2, <4>1, Zenon DEF Kept
    <3>3. CASE Series(d) = url /\ url \notin Fetched
      <4>1. snapshots'[Series(d)] = Answer(Series(d)) \/ snapshots'[Series(d)] = Refusal(Series(d))
        BY <1>3, <3>3, Reuse, Zenon
      <4> QED
        BY <2>2, <4>1, Zenon
    <3> QED
      BY <3>1, <3>2, <3>3
  <2> QED
    BY <1>1, <2>3, <2>4, Zenon DEF Kept
<1>4. CASE FetchSource
  BY <1>2, <1>3, <1>4, Zenon DEF FetchSource
<1>5. CASE FetchAnnouncement
  BY <1>2, <1>3, <1>5, Zenon DEF FetchAnnouncement
<1>6. CASE FetchFigure
  BY <1>3, <1>6, Zenon DEF FetchFigure
<1> QED
  BY <1>2, <1>4, <1>5, <1>6, Zenon
     DEF MacroNext, macroVars, Begin, PassOver, RecordSchedule, RecordAssertion,
         RecordCancellation, RecordObservation, BreakOff, DayPasses

\* A row is added by the command only: of the announcement or of the cancellation.
LEMMA NewRow ==
    ASSUME MacroTypeOK, Kept, Standing, [MacroNext]_macroVars,
           NEW p \in Periods, NEW i \in DOMAIN vintages'[p], i \notin DOMAIN vintages[p]
    PROVE  /\ Settled
           /\ \/ /\ ~Unlisted(p) /\ vintages'[p][i].status = "SCHEDULED"
                 /\ vintages'[p][i].known = Dated(p) /\ vintages'[p][i].at = Due(p)
              \/ /\ IsLapse(p) /\ vintages'[p][i].status = "CANCELLED"
                 /\ vintages'[p][i].known = family.lapse.cancelled
<1>1. RecordSchedule \/ RecordCancellation
  BY Zenon DEF MacroNext, macroVars, Begin, FetchSource, FetchAnnouncement, PassOver, RecordAssertion,
               FetchFigure, RecordObservation, BreakOff, DayPasses
<1>2. ASSUME NEW q \in Periods, NEW v \in VintageSet, Supersede(q, v)
      PROVE  p = q /\ vintages'[p][i] = v
  <2>1. p = q
    BY <1>2, Superseding, Zenon
  <2>2. /\ Len(vintages[p]) \in Nat /\ DOMAIN vintages[p] = 1..Len(vintages[p])
        /\ DOMAIN vintages'[p] = 1..(Len(vintages[p]) + 1)
        /\ vintages'[p][Len(vintages[p]) + 1] = v
    BY <1>2, <2>1, Superseding, Zenon
  <2>3. i = Len(vintages[p]) + 1
    BY <2>2
  <2> QED
    BY <2>1, <2>2, <2>3, Zenon
<1>3. CASE RecordSchedule
  <2>1. PICK v \in VintageSet :
            /\ Supersede(run.period, v) /\ v.known = Dated(run.period)
            /\ v.at = Due(run.period) /\ v.status = "SCHEDULED"
    BY <1>3, Scheduling, Zenon
  <2>2. run.period \in Periods /\ Settled /\ ~Unlisted(run.period)
    BY <1>3, Scheduling, Zenon
  <2>3. p = run.period /\ vintages'[p][i] = v
    BY <1>2, <2>1, <2>2, Zenon
  <2> QED
    BY <2>1, <2>2, <2>3, Zenon
<1>4. CASE RecordCancellation
  <2>1. PICK v \in VintageSet : /\ Supersede(run.period, v) /\ v.known = family.lapse.cancelled
                                /\ v.status = "CANCELLED"
    BY <1>4, Cancelling, Zenon
  <2>2. run.period \in Periods /\ Settled /\ IsLapse(run.period)
    BY <1>4, Cancelling, Zenon
  <2>3. p = run.period /\ vintages'[p][i] = v
    BY <1>2, <2>1, <2>2, Zenon
  <2> QED
    BY <2>1, <2>2, <2>3, Zenon
<1> QED
  BY <1>1, <1>3, <1>4

LEMMA OriginsKept ==
    ASSUME Sound, [MacroNext]_macroVars
    PROVE  Origins'
<1> USE DEF Sound
<1> SUFFICES ASSUME NEW p \in Periods, NEW i \in DOMAIN vintages'[p]
             PROVE  (Old(p, i) \/ Own(p, i) \/ Ending(p, i))'
  BY Zenon DEF Origins
<1>1. family' = family
  BY RestGrows
<1>2. CASE i \in DOMAIN vintages[p]
  <2>1. vintages'[p][i] = vintages[p][i]
    BY <1>2, RowsGrow, Zenon
  <2>2. CASE Old(p, i)
    <3>1. SUFFICES ASSUME [period |-> p, no |-> i] \in assertions' PROVE FALSE
      BY <2>1, <2>2, Zenon DEF Old
    <3>2. RecordAssertion
      BY <2>2, <3>1, Zenon
         DEF Old, MacroNext, macroVars, Begin, FetchSource, FetchAnnouncement, PassOver, RecordSchedule,
             RecordCancellation, FetchFigure, RecordObservation, BreakOff, DayPasses
    <3>3. assertions' = assertions \cup {[period |-> run.period, no |-> InHand]}
      BY <3>2, Zenon DEF RecordAssertion
    <3>4. [period |-> p, no |-> i] = [period |-> run.period, no |-> InHand]
      BY <2>2, <3>1, <3>3, Zenon DEF Old
    <3>5. p = run.period /\ i = InHand
      BY <3>4
    <3>6. At("assert") \/ At("assert cancel")
      BY <3>2, Zenon DEF RecordAssertion
    <3>7. ~Old(run.period, InHand)
      BY <3>6, InHandIs, Zenon
    <3> QED
      BY <2>2, <3>5, <3>7, Zenon
  <2>3. CASE Own(p, i)
    BY <2>1, <2>3, Steady, Zenon DEF Own
  <2>4. CASE Ending(p, i)
    BY <1>1, <2>1, <2>4, Zenon DEF Ending, IsLapse
  <2> QED
    BY <1>2, <2>2, <2>3, <2>4, Zenon DEF Origins
<1>3. CASE i \notin DOMAIN vintages[p]
  <2>1. Settled
    BY <1>3, NewRow, Zenon
  <2>2. CASE /\ ~Unlisted(p) /\ vintages'[p][i].status = "SCHEDULED"
             /\ vintages'[p][i].known = Dated(p) /\ vintages'[p][i].at = Due(p)
    BY <2>1, <2>2, Steady, Zenon DEF Own
  <2>3. CASE /\ IsLapse(p) /\ vintages'[p][i].status = "CANCELLED"
             /\ vintages'[p][i].known = family.lapse.cancelled
    BY <1>1, <2>3, Zenon DEF Ending, IsLapse
  <2> QED
    BY <1>3, <2>2, <2>3, NewRow, Zenon
<1> QED
  BY <1>2, <1>3

LEMMA FoundedKept ==
    ASSUME Sound, [MacroNext]_macroVars
    PROVE  Founded'
<1> USE DEF Sound
<1> SUFFICES ASSUME NEW p \in Periods, observations'[p] # Unset
             PROVE  /\ \E i \in DOMAIN vintages'[p] : Own(p, i)'
                    /\ ~IsLapse(p)' => observations'[p].known = Due(p)'
                    /\ IsLapse(p)' => family'.lapse.cancelled <= observations'[p].known
                    /\ observations'[p].figure = "VALUE" => family'.released[p] <= observations'[p].known
  BY Zenon DEF Founded
<1>1. /\ \E i \in DOMAIN vintages[p] : Own(p, i)
      /\ ~IsLapse(p) => observations'[p].known = Due(p)
      /\ IsLapse(p) => family.lapse.cancelled <= observations'[p].known
      /\ observations'[p].figure = "VALUE" => family.released[p] <= observations'[p].known
  <2>1. CASE observations[p] # Unset
    <3>1. observations'[p] = observations[p]
      BY <2>1, RestGrows, Zenon DEF MacroTypeOK
    <3> QED
      BY <2>1, <3>1, Zenon DEF Founded
  <2>2. CASE observations[p] = Unset
    <3>1. RecordObservation
      BY <2>2, Zenon
         DEF MacroNext, macroVars, Begin, FetchSource, FetchAnnouncement, PassOver, RecordSchedule,
             RecordAssertion, RecordCancellation, FetchFigure, BreakOff, DayPasses
    <3>2. At("observe") /\ run.period \in Periods
      BY <3>1, Zenon DEF RecordObservation, MacroTypeOK
    <3>3. p = run.period /\ observations'[p] = Observation(p)
      BY <2>2, <3>1 DEF RecordObservation, MacroTypeOK
    <3>4. OnRecord(p, Dated(p))
      BY <3>2, <3>3, Zenon DEF Standing, At
    <3>5. \E i \in DOMAIN vintages[p] : Own(p, i)
      BY <3>4, RecordedIsOwn, Zenon
    <3> QED
      BY <3>2, <3>3, <3>5, Observing, Zenon
  <2> QED
    BY <2>1, <2>2
<1>2. PICK i \in DOMAIN vintages[p] : Own(p, i)
  BY <1>1
<1>3. i \in DOMAIN vintages'[p] /\ vintages'[p][i] = vintages[p][i]
  BY RowsGrow, Zenon
<1>4. Settled
  BY <1>2, Zenon DEF Own
<1>5. Own(p, i)'
  BY <1>2, <1>3, <1>4, Steady, Zenon DEF Own
<1>6. Due(p)' = Due(p) /\ IsLapse(p)' = IsLapse(p) /\ family' = family
  BY <1>4, Steady, Zenon
<1> QED
  BY <1>1, <1>3, <1>5, <1>6, Zenon

LEMMA Going ==
    ASSUME MacroTypeOK, NEW step, Goto(step)
    PROVE  run'.step = step /\ run'.period = run.period
  BY DEF MacroTypeOK, Goto

LEMMA StandingFrame ==
    ASSUME Standing, UNCHANGED <<family, snapshots, vintages, assertions, run>>
    PROVE  Standing'
  BY Zenon DEF Standing, Running, At, Sources, Page, Archive, Series, Fetched, Unlisted, IsLapse,
               Calendar, Dated, Announced, Previous, OnRecord

LEMMA StandingKept ==
    ASSUME Sound, [MacroNext]_macroVars
    PROVE  Standing'
<1> USE DEF Sound
<1> PICK p \in Periods : p = run.period
  BY DEF MacroTypeOK
<1>1. Sources' = Sources /\ Fetched \subseteq Fetched'
  BY RestGrows, SnapshotsGrow, Zenon DEF Sources
<1>2. Running => Settled
  BY Zenon DEF Standing, Settled, Sources
<1>3. Running => /\ Dated(p)' = Dated(p) /\ IsLapse(p)' = IsLapse(p) /\ Unlisted(p)' = Unlisted(p)
                 /\ Calendar' = Calendar /\ family' = family
  BY <1>2, Steady, Zenon
<1>4. \A k : OnRecord(p, k) => \E i \in DOMAIN vintages'[p] :
              vintages'[p][i].known = k /\ [period |-> p, no |-> i] \in assertions'
  BY RecordedStays, Zenon
<1>5. CASE FetchAnnouncement
  <2>1. run'.step = "schedule" /\ run'.period = p
    BY <1>5, Going, Zenon DEF FetchAnnouncement
  <2>2. Running /\ ~Unlisted(p) /\ Sources \subseteq Fetched
    <3>1. Running
      BY <1>5 DEF FetchAnnouncement, Running, At
    <3> QED
      BY <1>5, <3>1, Zenon DEF FetchAnnouncement, Standing
  <2>3. Sources' \subseteq Fetched' /\ ~Unlisted(p)'
    BY <1>1, <1>3, <2>2, Zenon
  <2>4. /\ ~At("cancel")' /\ ~At("assert cancel")' /\ ~At("fetch")' /\ ~At("observe")' /\ ~At("assert")'
        /\ ~(run'.step \in {"cancel", "assert cancel", "fetch", "observe"})
        /\ Running'
    BY <2>1 DEF At, Running
  <2> QED
    BY <2>1, <2>3, <2>4, Zenon DEF Standing
<1>6. CASE RecordSchedule
  <2>1. run'.step = "assert" /\ run'.period = p
    BY <1>6, Going, Zenon DEF RecordSchedule
  <2>2. Running
    BY <1>6 DEF RecordSchedule, Running, At
  <2>3. Sources' \subseteq Fetched' /\ ~Unlisted(p)'
    BY <1>1, <1>3, <1>6, <2>2, Scheduling, Zenon DEF Standing
  <2>4. /\ ~At("cancel")' /\ ~At("assert cancel")' /\ ~At("fetch")' /\ ~At("observe")'
        /\ ~(run'.step \in {"cancel", "assert cancel", "fetch", "observe"})
        /\ Running'
    BY <2>1 DEF At, Running
  <2>5. /\ IsLapse(p)' => \E i \in DOMAIN vintages'[p] : vintages'[p][i].known = family'.lapse.known
        /\ ~IsLapse(p)' => /\ vintages'[p] # <<>>
                           /\ vintages'[p][Len(vintages'[p])].known = Dated(p)'
                           /\ Dated(p)' \in TellingDays(family)'
    <3>1. CASE /\ UNCHANGED vintages
               /\ Dated(p) \in TellingDays(family)
               /\ IF IsLapse(p) THEN \E i \in DOMAIN vintages[p] : vintages[p][i].known = family.lapse.known
                  ELSE vintages[p] # <<>> /\ vintages[p][Len(vintages[p])].known = Announced(p)
      <4>1. ~IsLapse(p) => Dated(p) = Announced(p)
        BY Zenon DEF Dated
      <4> QED
        BY <1>3, <2>2, <3>1, <4>1, Zenon
    <3>2. CASE \E v \in VintageSet : /\ Supersede(p, v) /\ v.known = Dated(p)
                                      /\ Dated(p) \in TellingDays(family)
      <4> PICK v \in VintageSet : Supersede(p, v) /\ v.known = Dated(p) /\ Dated(p) \in TellingDays(family)
        BY <3>2, Zenon
      <4>1. Len(vintages[p]) \in Nat /\ DOMAIN vintages'[p] = 1..(Len(vintages[p]) + 1)
            /\ Len(vintages'[p]) = Len(vintages[p]) + 1 /\ vintages'[p][Len(vintages[p]) + 1] = v
        BY Superseding, Zenon
      <4>2. Len(vintages[p]) + 1 \in DOMAIN vintages'[p]
        BY <4>1
      <4>3. vintages'[p] # <<>>
        BY <4>1
      <4>4. IsLapse(p) => Dated(p) = family.lapse.known
        BY Zenon DEF Dated
      <4> QED
        BY <1>3, <2>2, <4>1, <4>2, <4>3, <4>4, Zenon
    <3>3. \/ /\ UNCHANGED vintages
             /\ Dated(p) \in TellingDays(family)
             /\ IF IsLapse(p) THEN \E i \in DOMAIN vintages[p] : vintages[p][i].known = family.lapse.known
                ELSE vintages[p] # <<>> /\ vintages[p][Len(vintages[p])].known = Announced(p)
          \/ \E v \in VintageSet : /\ Supersede(p, v) /\ v.known = Dated(p)
                                   /\ Dated(p) \in TellingDays(family)
      BY <1>6, Scheduling, Zenon
    <3> QED
      BY <3>1, <3>2, <3>3, Zenon
  <2> QED
    BY <2>1, <2>3, <2>4, <2>5, Zenon DEF Standing
<1>7. CASE RecordAssertion
  <2>1. At("assert") \/ At("assert cancel")
    BY <1>7, Zenon DEF RecordAssertion
  <2>2. Running /\ ~At("announce")
    BY <2>1 DEF Running, At
  <2>3. Sources' \subseteq Fetched' /\ ~Unlisted(p)'
    BY <1>1, <1>3, <2>2, Zenon DEF Standing
  <2>4. /\ assertions' = assertions \cup {[period |-> p, no |-> InHand]}
        /\ vintages' = vintages
    BY <1>7, Zenon DEF RecordAssertion
  <2>5. /\ InHand \in DOMAIN vintages[p]
        /\ At("assert") => vintages[p][InHand].known = Dated(p)
        /\ At("assert cancel") => IsLapse(p) /\ vintages[p][InHand].known = family.lapse.cancelled
    BY <2>1, InHandIs, Zenon
  <2>6. CASE At("assert")
    <3>1. run'.step = (IF IsLapse(p) THEN "cancel" ELSE "fetch") /\ run'.period = p
      <4>1. ~At("assert cancel")
        BY <2>6 DEF At
      <4> QED
        BY <1>7, <4>1, Going, Zenon DEF RecordAssertion
    <3>2. OnRecord(p, Dated(p))'
      BY <1>3, <2>2, <2>4, <2>5, <2>6, Zenon DEF OnRecord
    <3>3. Dated(p)' \in TellingDays(family)'
      <4>1. CASE IsLapse(p)
        BY <1>2, <1>3, <2>2, <4>1, Dating, Zenon DEF Standing
      <4>2. CASE ~IsLapse(p)
        BY <1>3, <2>2, <2>6, <4>2, Zenon DEF Standing
      <4> QED
        BY <4>1, <4>2
    <3>4. /\ ~At("assert cancel")' /\ ~At("observe")' /\ ~At("assert")' /\ Running'
          /\ At("cancel")' => IsLapse(p)
          /\ At("fetch")' => ~IsLapse(p)
      BY <3>1 DEF At, Running
    <3> QED
      BY <1>3, <2>2, <2>3, <3>1, <3>2, <3>3, <3>4, Zenon DEF Standing
  <2>7. CASE At("assert cancel")
    <3>1. run'.step = "observe" /\ run'.period = p
      <4>1. ~At("assert")
        BY <2>7 DEF At
      <4> QED
        BY <1>7, <4>1, Going, Zenon DEF RecordAssertion
    <3>2. OnRecord(p, Dated(p)) /\ Dated(p) \in TellingDays(family)
      BY <2>7, Zenon DEF Standing, At
    <3>3. OnRecord(p, Dated(p))'
      BY <1>3, <1>4, <2>2, <3>2, Zenon DEF OnRecord
    <3>4. OnRecord(p, family.lapse.cancelled)'
      BY <1>3, <2>2, <2>4, <2>5, <2>7, Zenon DEF OnRecord
    <3>5. /\ ~At("cancel")' /\ ~At("fetch")' /\ ~At("assert cancel")' /\ ~At("assert")' /\ Running'
      BY <3>1 DEF At, Running
    <3> QED
      BY <1>3, <2>2, <2>3, <2>5, <2>7, <3>1, <3>2, <3>3, <3>4, <3>5, Zenon DEF Standing
  <2> QED
    BY <2>1, <2>6, <2>7
<1>8. CASE RecordCancellation
  <2>1. run'.step = "assert cancel" /\ run'.period = p
    BY <1>8, Going, Zenon DEF RecordCancellation
  <2>2. Running /\ At("cancel") /\ ~At("announce")
    BY <1>8 DEF RecordCancellation, Running, At
  <2>3. Sources' \subseteq Fetched' /\ ~Unlisted(p)' /\ IsLapse(p)'
    BY <1>1, <1>3, <1>8, <2>2, Cancelling, Zenon DEF Standing
  <2>4. OnRecord(p, Dated(p)) /\ Dated(p) \in TellingDays(family)
    BY <2>2, Zenon DEF Standing, At
  <2>5. OnRecord(p, Dated(p))'
    BY <1>3, <1>4, <2>2, <2>4, Zenon DEF OnRecord
  <2>6. \E i \in DOMAIN vintages'[p] : vintages'[p][i].status = "CANCELLED"
    <3>1. ASSUME NEW v \in VintageSet, Supersede(p, v), v.status = "CANCELLED"
          PROVE  \E i \in DOMAIN vintages'[p] : vintages'[p][i].status = "CANCELLED"
      <4>1. Len(vintages[p]) \in Nat /\ DOMAIN vintages'[p] = 1..(Len(vintages[p]) + 1)
            /\ vintages'[p][Len(vintages[p]) + 1] = v
        BY <3>1, Superseding, Zenon
      <4>2. Len(vintages[p]) + 1 \in DOMAIN vintages'[p]
        BY <4>1
      <4> QED
        BY <3>1, <4>1, <4>2, Zenon
    <3>2. \/ UNCHANGED vintages /\ \E i \in DOMAIN vintages[p] : vintages[p][i].status = "CANCELLED"
          \/ \E v \in VintageSet : Supersede(p, v) /\ v.status = "CANCELLED"
      BY <1>8, Cancelling, Zenon
    <3> QED
      BY <3>1, <3>2, Zenon
  <2>7. /\ ~At("cancel")' /\ ~At("fetch")' /\ ~At("observe")' /\ ~At("assert")' /\ Running'
    BY <2>1 DEF At, Running
  <2> QED
    BY <1>3, <2>1, <2>2, <2>3, <2>4, <2>5, <2>6, <2>7, Zenon DEF Standing
<1>9. CASE FetchFigure
  <2>1. run'.step = "observe" /\ run'.period = p
    BY <1>9, Going, Zenon DEF FetchFigure
  <2>2. Running /\ At("fetch") /\ ~At("announce")
    BY <1>9 DEF FetchFigure, Running, At
  <2>3. Sources' \subseteq Fetched' /\ ~Unlisted(p)' /\ ~IsLapse(p)'
    BY <1>1, <1>3, <2>2, Zenon DEF Standing
  <2>4. OnRecord(p, Dated(p)) /\ Dated(p) \in TellingDays(family)
    BY <2>2, Zenon DEF Standing, At
  <2>5. OnRecord(p, Dated(p))'
    BY <1>3, <1>4, <2>2, <2>4, Zenon DEF OnRecord
  <2>6. family.monthly => Series(Calendar[p]) \in Fetched'
    <3>1. family.monthly => FetchOrReuse(Series(Calendar[p]))
      BY <1>9, Zenon DEF FetchFigure
    <3> QED
      BY <3>1, Reuse, Zenon
  <2>7. Series(Calendar[p])' = Series(Calendar[p])
    BY <1>3, <2>2, Zenon DEF Series
  <2>8. /\ ~At("cancel")' /\ ~At("fetch")' /\ ~At("assert cancel")' /\ ~At("assert")' /\ Running'
    BY <2>1 DEF At, Running
  <2> QED
    BY <1>3, <2>1, <2>2, <2>3, <2>4, <2>5, <2>6, <2>7, <2>8, Zenon DEF Standing
<1>10. CASE PassOver \/ RecordObservation
  <2>1. NextPeriod
    BY <1>10, Zenon DEF PassOver, RecordObservation
  <2>2. Running
    BY <1>10 DEF PassOver, RecordObservation, Running, At
  <2>3. Sources' \subseteq Fetched'
    BY <1>1, <2>2, Zenon DEF Standing
  <2>4. run' = Idle \/ run' = [step |-> "announce", period |-> run.period + 1]
    BY <2>1, Zenon DEF NextPeriod
  <2>5. (~Running' /\ run'.period = First) \/ (Running' /\ At("announce")')
    BY <2>4 DEF Idle, Running, At
  <2>6. run'.step \in {"idle", "announce"}
    BY <2>4 DEF Idle
  <2>7. /\ ~At("cancel")' /\ ~At("assert cancel")' /\ ~At("fetch")' /\ ~At("observe")' /\ ~At("assert")'
        /\ ~(run'.step \in {"cancel", "assert cancel", "fetch", "observe"})
    BY <2>6 DEF At
  <2> QED
    BY <2>3, <2>5, <2>7, Zenon DEF Standing
<1>11. CASE BreakOff
  <2>1. ~Running' /\ run'.period = First
    BY <1>11 DEF BreakOff, Idle, Running
  <2>2. /\ ~At("cancel")' /\ ~At("assert cancel")' /\ ~At("fetch")' /\ ~At("observe")' /\ ~At("assert")'
        /\ ~(run'.step \in {"cancel", "assert cancel", "fetch", "observe"})
    BY <1>11 DEF BreakOff, Idle, At
  <2> QED
    BY <2>1, <2>2, Zenon DEF Standing
<1>12. CASE Begin
  <2>1. run'.step = "sources" /\ run'.period = p
    BY <1>12, Going, Zenon DEF Begin
  <2>2. ~Running
    BY <1>12 DEF Begin, Running, At
  <2>3. ~Running' /\ run'.period = First
    BY <2>1, <2>2 DEF Running, Standing
  <2>4. /\ ~At("cancel")' /\ ~At("assert cancel")' /\ ~At("fetch")' /\ ~At("observe")' /\ ~At("assert")'
        /\ ~(run'.step \in {"cancel", "assert cancel", "fetch", "observe"})
    BY <2>1 DEF At
  <2> QED
    BY <2>3, <2>4, Zenon DEF Standing
<1>13. CASE FetchSource
  <2>1. run.step = "sources" /\ ~Running
    BY <1>13 DEF FetchSource, Running, At
  <2>2. CASE UNCHANGED run
    <3>1. ~Running' /\ run'.period = First
      BY <2>1, <2>2, Zenon DEF Running, Standing
    <3>2. /\ ~At("cancel")' /\ ~At("assert cancel")' /\ ~At("fetch")' /\ ~At("observe")' /\ ~At("assert")'
          /\ ~(run'.step \in {"cancel", "assert cancel", "fetch", "observe"})
      BY <2>1, <2>2 DEF At
    <3> QED
      BY <3>1, <3>2, Zenon DEF Standing
  <2>3. CASE Sources \subseteq Fetched /\ Goto("announce")
    <3>1. run'.step = "announce"
      BY <2>3, Going, Zenon
    <3>2. /\ ~At("cancel")' /\ ~At("assert cancel")' /\ ~At("fetch")' /\ ~At("observe")' /\ ~At("assert")'
          /\ ~(run'.step \in {"cancel", "assert cancel", "fetch", "observe"})
          /\ Running' /\ At("announce")'
      BY <3>1 DEF At, Running
    <3> QED
      BY <1>1, <2>3, <3>2, Zenon DEF Standing
  <2> QED
    BY <1>13, <2>2, <2>3, Zenon DEF FetchSource
<1>14. CASE UNCHANGED <<family, snapshots, vintages, assertions, run>>
  BY <1>14, StandingFrame, Zenon
<1> QED
  BY <1>5, <1>6, <1>7, <1>8, <1>9, <1>10, <1>11, <1>12, <1>13, <1>14, Zenon
     DEF MacroNext, macroVars, DayPasses

\* Where a step leads.
LEMMA Onward ==
    ASSUME Sound, [MacroNext]_macroVars, Running'
    PROVE  \/ Running /\ run'.period = run.period
           \/ run'.period = First
           \/ /\ Running /\ run'.period = run.period + 1
              /\ PassOver \/ RecordObservation
<1>1. CASE UNCHANGED run
  BY <1>1, Zenon DEF Running
<1>2. MacroTypeOK /\ Standing
  BY DEF Sound
<1>3. CASE \/ FetchAnnouncement
           \/ RecordSchedule
           \/ RecordAssertion
           \/ RecordCancellation
           \/ FetchFigure
  <2>1. Running
    BY <1>3 DEF FetchAnnouncement, RecordSchedule, RecordAssertion, RecordCancellation, FetchFigure,
                Running, At
  <2>2. \E step : Goto(step)
    BY <1>3, Zenon DEF FetchAnnouncement, RecordSchedule, RecordAssertion, RecordCancellation, FetchFigure
  <2> QED
    BY <1>2, <2>1, <2>2, Going, Zenon
<1>4. CASE PassOver \/ RecordObservation
  <2>1. Running
    BY <1>4 DEF PassOver, RecordObservation, Running, At
  <2>2. run' = Idle \/ run' = [step |-> "announce", period |-> run.period + 1]
    BY <1>4, Zenon DEF PassOver, RecordObservation, NextPeriod
  <2>3. run'.period = First \/ run'.period = run.period + 1
    BY <2>2 DEF Idle
  <2> QED
    BY <1>4, <2>1, <2>3, Zenon
<1>5. CASE BreakOff
  BY <1>5 DEF BreakOff, Idle
<1>6. CASE Begin
  <2>1. ~Running
    BY <1>6 DEF Begin, Running, At
  <2>2. run.period = First
    BY <1>2, <2>1, Zenon DEF Standing
  <2> QED
    BY <1>2, <1>6, <2>2, Going, Zenon DEF Begin
<1>7. CASE FetchSource
  <2>1. ~Running
    BY <1>7 DEF FetchSource, Running, At
  <2>2. run.period = First
    BY <1>2, <2>1, Zenon DEF Standing
  <2>3. UNCHANGED run \/ Goto("announce")
    BY <1>7, Zenon DEF FetchSource
  <2> QED
    BY <1>1, <1>2, <2>2, <2>3, Going, Zenon
<1> QED
  BY <1>1, <1>3, <1>4, <1>5, <1>6, <1>7, Zenon DEF MacroNext, macroVars, DayPasses

LEMMA HealsKept ==
    ASSUME Sound, [MacroNext]_macroVars
    PROVE  RerunHeals'
<1> USE DEF Sound
<1>1. RerunHeals' <=>
        (Running' => \A q \in Periods : q < run'.period /\ ~Unlisted(q)' =>
                        /\ observations'[q] # Unset
                        /\ OnRecord(q, Dated(q))'
                        /\ IsLapse(q)' => OnRecord(q, family.lapse.cancelled)')
  <2>1. run'.step \in Steps
    BY TypesKept DEF MacroTypeOK
  <2>2. Running' <=> run'.step \in Steps \ {"idle", "sources"}
    BY <2>1, Zenon DEF Running
  <2> QED
    BY <2>2, Zenon DEF RerunHeals
<1> SUFFICES ASSUME Running', NEW q \in Periods, q < run'.period, ~Unlisted(q)'
             PROVE  /\ observations'[q] # Unset
                    /\ OnRecord(q, Dated(q))'
                    /\ IsLapse(q)' => OnRecord(q, family.lapse.cancelled)'
  BY <1>1, Zenon
<1>2. run'.period # First
  BY DaysFacts DEF Periods
<1>3. Running
  BY <1>2, Onward, Zenon
<1>4. Settled
  BY <1>3, Zenon DEF Standing, Settled, Sources
<1>5. Dated(q)' = Dated(q) /\ IsLapse(q)' = IsLapse(q) /\ Unlisted(q)' = Unlisted(q) /\ family' = family
  BY <1>4, Steady, Zenon
<1>6. /\ OnRecord(q, Dated(q)) => OnRecord(q, Dated(q))'
      /\ OnRecord(q, family.lapse.cancelled) => OnRecord(q, family.lapse.cancelled)'
  BY <1>5, RecordedStays, Zenon DEF OnRecord
<1>7. CASE q < run.period
  <2>1. run.step \in Steps \ {"idle", "sources"}
    BY <1>3, Zenon DEF Running, MacroTypeOK
  <2>2. /\ observations[q] # Unset
        /\ OnRecord(q, Dated(q))
        /\ IsLapse(q) => OnRecord(q, family.lapse.cancelled)
    BY <1>5, <1>7, <2>1, Zenon DEF RerunHeals
  <2>3. observations'[q] # Unset
    BY <2>2, RestGrows, Zenon DEF MacroTypeOK
  <2> QED
    BY <1>5, <1>6, <2>2, <2>3, Zenon
<1>8. CASE ~(q < run.period)
  <2>1. run.period \in Periods
    BY DEF MacroTypeOK
  <2>2. run'.period # run.period
    BY <1>8, Zenon
  <2>3. /\ run'.period = run.period + 1
        /\ PassOver \/ RecordObservation
    BY <1>2, <2>2, Onward, Zenon
  <2>4. q = run.period
    <3>1. q \in Nat /\ run.period \in Nat
      BY <2>1, DaysFacts, Zenon
    <3>2. q < run.period + 1
      BY <2>3, Zenon
    <3> HIDE DEF Sound
    <3> QED
      BY <1>8, <3>1, <3>2
  <2>5. ~PassOver
    BY <1>5, <2>4, Zenon DEF PassOver
  <2>6. RecordObservation
    BY <2>3, <2>5
  <2>7. At("observe")
    BY <2>6, Zenon DEF RecordObservation
  <2>8. /\ OnRecord(q, Dated(q))
        /\ IsLapse(q) => OnRecord(q, family.lapse.cancelled)
    BY <2>4, <2>7, Zenon DEF Standing, At
  <2>9. Observation(q) # Unset
    BY <2>4, <2>7, Observing, MacroAssumption, Zenon DEF MacroAssumption
  <2>10. observations'[q] # Unset
    BY <2>4, <2>6, <2>9 DEF RecordObservation, MacroTypeOK
  <2> QED
    BY <1>5, <1>6, <2>8, <2>10, Zenon
<1> QED
  BY <1>7, <1>8

LEMMA SoundAtFirst == MacroInit => Sound
<1> SUFFICES ASSUME MacroInit PROVE Sound
  OBVIOUS
<1>1. vintages \in [Periods -> Seq(VintageSet)]
      /\ \A p \in Periods : \A i \in DOMAIN vintages[p] : i = 1 /\ LegacyAssumption(p, vintages[p][i])
  <2>1. /\ vintages \in [Periods -> Seq(VintageSet)]
        /\ \A p \in Periods : /\ Len(vintages[p]) <= 1
                              /\ \A i \in DOMAIN vintages[p] : LegacyAssumption(p, vintages[p][i])
    BY MacroAssumption, Zenon DEF MacroInit, MacroAssumption
  <2>2. ASSUME NEW p \in Periods, NEW i \in DOMAIN vintages[p] PROVE i = 1
    <3>1. vintages[p] \in Seq(VintageSet) /\ Len(vintages[p]) <= 1
      BY <2>1
    <3>2. i \in 1..Len(vintages[p]) /\ Len(vintages[p]) \in Nat
      BY <3>1
    <3> QED
      BY <3>1, <3>2
  <2> QED
    BY <2>1, <2>2, Zenon
<1>2. Fetched = {} /\ ~Running /\ run.period = First /\ run.step = "idle"
  BY DEF MacroInit, Fetched, Running, Idle
<1>3. MacroTypeOK
  <2>1. today \in Days /\ family \in Families /\ assertions \subseteq [period: Periods, no: Nat \ {0}]
    BY DaysFacts DEF MacroInit
  <2>2. observations \in [Periods -> ObservationSet \cup {Unset}]
    BY DEF MacroInit
  <2>3. run \in [step: Steps, period: Periods]
    BY DaysFacts DEF MacroInit, Idle, Steps
  <2> QED
    BY <1>1, <2>1, <2>2, <2>3, Zenon DEF MacroTypeOK
<1>4. Origins
  BY <1>1, Zenon DEF Origins, Old, MacroInit
<1>5. Kept
  BY <1>2, Zenon DEF Kept
<1>6. Founded
  <2>1. \A p \in Periods : observations[p] = Unset
    BY DEF MacroInit
  <2> QED
    BY <2>1, Zenon DEF Founded
<1>7. Standing
  <2>1. /\ ~At("cancel") /\ ~At("assert cancel") /\ ~At("fetch") /\ ~At("observe") /\ ~At("assert")
        /\ ~(run.step \in {"cancel", "assert cancel", "fetch", "observe"})
    BY <1>2 DEF At
  <2> QED
    BY <1>2, <2>1, Zenon DEF Standing
<1>8. RerunHeals
  BY <1>2 DEF RerunHeals
<1> QED
  BY <1>3, <1>4, <1>5, <1>6, <1>7, <1>8 DEF Sound

LEMMA SoundKept == Sound /\ [MacroNext]_macroVars => Sound'
<1> SUFFICES ASSUME Sound, [MacroNext]_macroVars PROVE Sound'
  OBVIOUS
<1> QED
  BY TypesKept, OriginsKept, BodiesKept, FoundedKept, StandingKept, HealsKept, Zenon DEF Sound

LEMMA AlwaysSound == MacroSpec => []Sound
  BY SoundAtFirst, SoundKept, PTL DEF MacroSpec

-----------------------------------------------------------------------------
(* The theorems.                                                           *)

\* The tables, the archive of bodies and the command's place are of their types: every row that a
\* broken-off or repeated run writes is a complete one.
THEOREM MacroTyped == MacroSpec => []MacroTypeOK
  BY AlwaysSound, PTL DEF Sound

\* Whatever earlier runs left undone, a run has only whole periods behind it.
THEOREM RunsHeal == MacroSpec => []RerunHeals
  BY AlwaysSound, PTL DEF Sound

LEMMA EventSays ==
    ASSUME NEW p, NEW i, NEW T
    PROVE  /\ Event(p, i, T).period = p
           /\ Released(p, T) => /\ Event(p, i, T).released = observations[p].known
                                /\ Event(p, i, T).figure = observations[p].figure
           /\ ~Released(p, T) => Event(p, i, T).released = Unset /\ Event(p, i, T).figure = Unset
<1>1. CASE Released(p, T)
  BY <1>1 DEF Event
<1>2. CASE ~Released(p, T)
  BY <1>2 DEF Event
<1> QED
  BY <1>1, <1>2

LEMMA ReplayIs ==
    ASSUME NEW T, NEW e
    PROVE  e \in Replay(T) <=> \E p \in Periods : \E i \in Shown(p, T) : e = Event(p, i, T)
  BY DEF Replay

LEMMA ObservationFields ==
    ASSUME NEW o \in ObservationSet
    PROVE  o.known \in Days /\ o.known \in Nat /\ o.figure \in Figures
  BY DaysFacts DEF ObservationSet

\* A replay shows no figure before it came out.
LEMMA SoundSeesNoFuture == Sound => NoLookahead
<1> SUFFICES ASSUME Sound, NEW T \in Days, NEW e \in Replay(T), e.figure = "VALUE"
             PROVE  family.released[e.period] <= T
  BY DEF NoLookahead
<1> USE DEF Sound
<1> PICK p \in Periods : \E i \in Shown(p, T) : e = Event(p, i, T)
  BY ReplayIs, Zenon
<1>1. PICK i \in Shown(p, T) : e = Event(p, i, T)
  OBVIOUS
<1>2. Released(p, T)
  BY <1>1, EventSays, MacroAssumption DEF MacroAssumption, Figures
<1>3. e.period = p /\ observations[p].figure = "VALUE"
  BY <1>1, <1>2, EventSays
<1>4. family.released[p] <= observations[p].known /\ observations[p].known <= T
  BY <1>2, <1>3, Zenon DEF Founded, Released
<1>5. observations[p] \in ObservationSet /\ family \in Families
  BY <1>2 DEF Released, MacroTypeOK
<1>6. family.released[p] \in Nat
  BY <1>5, FamilyFacts
<1>7. observations[p].known \in Nat /\ T \in Nat
  BY <1>5, ObservationFields, DaysFacts
<1> QED
  BY <1>3, <1>4, <1>6, <1>7

\* No replay ever shows a figure that was not out by the day replayed.
THEOREM NothingSeenEarly == MacroSpec => []NoLookahead
  BY AlwaysSound, SoundSeesNoFuture, PTL

\* In front of its release a covered event is replayed at the right day.
LEMMA SoundForesees == Sound => CoveredIsForeseen
<1> SUFFICES ASSUME Sound, Covered, NEW p \in Periods, NEW T \in Days,
                    Dated(p) <= T, T < Due(p), ~Withdrawn(p, T)
             PROVE  [period |-> p, at |-> Due(p), released |-> Unset, figure |-> Unset] \in Replay(T)
  BY DEF CoveredIsForeseen
<1> USE DEF Sound
<1>1. observations[p] # Unset
  BY Zenon DEF Covered
<1>2. PICK own \in DOMAIN vintages[p] : Own(p, own)
  BY <1>1, Zenon DEF Founded
<1>3. Settled /\ ~Unlisted(p) /\ family \in Families /\ observations[p] \in ObservationSet
  BY <1>1, <1>2, Zenon DEF Own, MacroTypeOK
<1>4. \A i \in DOMAIN vintages[p] : vintages[p][i].known \in Int
  BY RowsTyped DEF VintageSet
<1>5. Dated(p) \in Int /\ Due(p) \in Nat /\ T \in Nat
  <2>1. Dated(p) \in Int
    BY <1>2, <1>4, Zenon DEF Own
  <2>2. Due(p) \in Nat /\ T \in Nat
    BY <1>3, Dating, DaysFacts, Zenon
  <2> QED
    BY <2>1, <2>2
<1>6. IsLapse(p) => /\ family.lapse.cancelled \in Nat
                    /\ ~(family.lapse.cancelled <= T)
                    /\ Due(p) = family.lapse.at
  <2>1. IsLapse(p) => family.lapse \in LapseSet
    BY <1>3, FamilyFacts, Zenon DEF IsLapse
  <2>2. IsLapse(p) => family.lapse.cancelled \in Nat
    BY <2>1, LapseFields, DaysFacts
  <2> QED
    BY <2>2, Zenon DEF Withdrawn, Due
<1>7. ~Released(p, T)
  <2>1. SUFFICES ASSUME observations[p].known <= T PROVE FALSE
    BY Zenon DEF Released
  <2>2. observations[p].known \in Nat
    BY <1>3, ObservationFields
  <2>3. CASE IsLapse(p)
    <3>1. family.lapse.cancelled <= observations[p].known
      BY <1>1, <2>3, Zenon DEF Founded
    <3> QED
      BY <1>5, <1>6, <2>1, <2>2, <2>3, <3>1
  <2>4. CASE ~IsLapse(p)
    <3>1. observations[p].known = Due(p)
      BY <1>1, <2>4, Zenon DEF Founded
    <3> QED
      BY <1>5, <2>1, <3>1
  <2> QED
    BY <2>3, <2>4
<1>8. \E i \in Latest(p, KnownBy(p, T)) : vintages[p][i].at = Due(p) /\ vintages[p][i].status = "SCHEDULED"
  <2>1. own \in KnownBy(p, T) /\ vintages[p][own].known = Dated(p)
        /\ vintages[p][own].at = Due(p) /\ vintages[p][own].status = "SCHEDULED"
    BY <1>2, Zenon DEF Own, KnownBy
  <2>2. \A i \in KnownBy(p, T) : Old(p, i) \/ vintages[p][i].known = Dated(p)
    <3> TAKE i \in KnownBy(p, T)
    <3>1. i \in DOMAIN vintages[p] /\ vintages[p][i].known <= T
      BY DEF KnownBy
    <3>2. ~Ending(p, i)
      BY <1>6, <3>1, Zenon DEF Ending
    <3> QED
      BY <3>1, <3>2, Zenon DEF Origins, Own
  <2>3. CASE \E i \in KnownBy(p, T) : Old(p, i) /\ ~(vintages[p][i].known <= Dated(p))
    <3>1. PICK i \in KnownBy(p, T) : Old(p, i) /\ ~(vintages[p][i].known <= Dated(p))
      BY <2>3
    <3>2. i \in DOMAIN vintages[p] /\ vintages[p][i].known \in Int
      BY <1>4 DEF KnownBy
    <3>3. \A j \in KnownBy(p, T) : vintages[p][j].known <= vintages[p][i].known
      <4> TAKE j \in KnownBy(p, T)
      <4>1. CASE j = i
        BY <3>2, <4>1
      <4>2. CASE j # i
        <5>1. vintages[p][j].known = Dated(p)
          BY <2>2, <3>1, <4>2, Zenon DEF Old
        <5> QED
          BY <1>5, <3>1, <3>2, <5>1
      <4> QED
        BY <4>1, <4>2
    <3>4. CASE IsLapse(p)
      <4>1. vintages[p][i].status = "SCHEDULED" /\ vintages[p][i].at = family.lapse.at
        BY <1>3, <3>1, <3>4, Zenon DEF Old, LegacyAssumption, IsLapse
      <4> QED
        BY <1>6, <3>3, <3>4, <4>1, Zenon DEF Latest
    <3>5. CASE ~IsLapse(p)
      <4>1. \A j \in DOMAIN vintages[p] : vintages[p][j].known <= vintages[p][i].known
        <5> TAKE j \in DOMAIN vintages[p]
        <5>1. CASE j = i
          BY <3>2, <5>1
        <5>2. CASE j # i
          <6>1. vintages[p][j].known = Dated(p)
            BY <3>1, <3>5, <5>2, Zenon DEF Origins, Old, Own, Ending
          <6> QED
            BY <1>5, <3>1, <3>2, <6>1
        <5> QED
          BY <5>1, <5>2
      <4>2. Defensible(p, i)
        BY <3>2, <4>1, Zenon DEF Covered, Latest
      <4> QED
        BY <3>1, <4>2, Zenon DEF Defensible, Old, LegacyAssumption
    <3> QED
      BY <3>4, <3>5
  <2>4. CASE \A i \in KnownBy(p, T) : Old(p, i) => vintages[p][i].known <= Dated(p)
    <3>1. \A i \in KnownBy(p, T) : vintages[p][i].known <= Dated(p)
      BY <1>5, <2>2, <2>4
    <3> QED
      BY <2>1, <3>1, Zenon DEF Latest
  <2> QED
    BY <2>3, <2>4, Zenon
<1>9. PICK i \in Latest(p, KnownBy(p, T)) : vintages[p][i].at = Due(p) /\ vintages[p][i].status = "SCHEDULED"
  BY <1>8
<1>10. i \in Shown(p, T)
  BY <1>9 DEF Shown
<1>11. Event(p, i, T) = [period |-> p, at |-> Due(p), released |-> Unset, figure |-> Unset]
  BY <1>7, <1>9 DEF Event
<1> QED
  BY <1>10, <1>11, ReplayIs, Zenon

\* A complete report means that every release is foreseen, at the right day.
THEOREM CompleteIsForeseen == MacroSpec => []CoveredIsForeseen
  BY AlwaysSound, SoundForesees, PTL

\* Of one period a step adds at most one row.
LEMMA OneRowAStep ==
    ASSUME Sound, [MacroNext]_macroVars, NEW p \in Periods
    PROVE  \/ vintages'[p] = vintages[p]
           \/ \E n \in DOMAIN vintages'[p] : /\ DOMAIN vintages'[p] = DOMAIN vintages[p] \cup {n}
                                            /\ vintages'[p][n].known \in Int
<1> USE DEF Sound
<1>1. CASE UNCHANGED vintages
  BY <1>1
<1>2. ASSUME NEW q \in Periods, NEW v \in VintageSet, Supersede(q, v) 
      PROVE  \/ vintages'[p] = vintages[p]
             \/ \E n \in DOMAIN vintages'[p] : /\ DOMAIN vintages'[p] = DOMAIN vintages[p] \cup {n}
                                              /\ vintages'[p][n].known \in Int
  <2>1. CASE p # q
    BY <1>2, <2>1, Superseding, Zenon
  <2>2. CASE p = q
    <3>1. Len(vintages[p]) \in Nat /\ DOMAIN vintages[p] = 1..Len(vintages[p])
          /\ DOMAIN vintages'[p] = 1..(Len(vintages[p]) + 1)
          /\ vintages'[p][Len(vintages[p]) + 1] = v
      BY <1>2, <2>2, Superseding, Zenon
    <3>2. 1..(Len(vintages[p]) + 1) = (1..Len(vintages[p])) \cup {Len(vintages[p]) + 1}
      BY <3>1
    <3>3. v.known \in Int
      BY DEF VintageSet
    <3> QED
      BY <3>1, <3>2, <3>3, Zenon
  <2> QED
    BY <2>1, <2>2
<1>3. CASE RecordSchedule
  <2>1. run.period \in Periods /\ (UNCHANGED vintages \/ \E v \in VintageSet : Supersede(run.period, v))
    BY <1>3, Scheduling, Zenon
  <2> QED
    BY <1>1, <1>2, <2>1, Zenon
<1>4. CASE RecordCancellation
  <2>1. run.period \in Periods /\ (UNCHANGED vintages \/ \E v \in VintageSet : Supersede(run.period, v))
    BY <1>4, Cancelling, Zenon
  <2> QED
    BY <1>1, <1>2, <2>1, Zenon
<1> QED
  BY <1>1, <1>3, <1>4, Zenon
     DEF MacroNext, macroVars, Begin, FetchSource, FetchAnnouncement, PassOver, RecordAssertion,
         FetchFigure, RecordObservation, BreakOff, DayPasses

LEMMA SoundKeepsTold ==
    ASSUME Sound, [MacroNext]_macroVars, NEW T \in Days, NEW e \in Replay(T), e.released # Unset
    PROVE  \E f \in Replay(T)' : f.period = e.period /\ f.released = e.released /\ f.figure = e.figure
<1> PICK p \in Periods : \E i \in Shown(p, T) : e = Event(p, i, T)
  BY ReplayIs, Zenon
<1>1. PICK i \in Shown(p, T) : e = Event(p, i, T)
  OBVIOUS
<1>2. Released(p, T)
  BY <1>1, EventSays
<1>3. observations'[p] = observations[p] /\ observations[p] # Unset
  BY <1>2, RestGrows, Zenon DEF Released, Sound, MacroTypeOK
<1>4. Released(p, T)'
  BY <1>2, <1>3, Zenon DEF Released
<1>5. /\ i \in DOMAIN vintages[p] /\ vintages[p][i].known <= T /\ vintages[p][i].known \in Int
      /\ \A j \in KnownBy(p, T) : vintages[p][j].known <= vintages[p][i].known
  <2>1. i \in KnownBy(p, T) /\ \A j \in KnownBy(p, T) : vintages[p][j].known <= vintages[p][i].known
    BY Zenon DEF Shown, Latest
  <2>2. i \in DOMAIN vintages[p] /\ vintages[p][i].known <= T
    BY <2>1, Zenon DEF KnownBy
  <2>3. vintages[p][i] \in VintageSet
    BY <2>2, RowsTyped, Zenon DEF Sound
  <2>4. vintages[p][i].known \in Int
    BY <2>3 DEF VintageSet
  <2> QED
    BY <2>1, <2>2, <2>4
<1>6. \A j \in DOMAIN vintages[p] : j \in DOMAIN vintages'[p] /\ vintages'[p][j] = vintages[p][j]
  BY RowsGrow, Zenon DEF Sound
<1>7. \A j \in DOMAIN vintages[p] : j \in KnownBy(p, T)' => j \in KnownBy(p, T)
  BY <1>6, Zenon DEF KnownBy
<1>8. i \in KnownBy(p, T)'
  BY <1>5, <1>6, Zenon DEF KnownBy
<1>9. \A j \in KnownBy(p, T)' : j \in DOMAIN vintages'[p] /\ vintages'[p][j].known <= T
  BY Zenon DEF KnownBy
<1>10. \E j : j \in Latest(p, KnownBy(p, T))'
  <2>1. CASE \A j \in KnownBy(p, T)' : vintages'[p][j].known <= vintages'[p][i].known
    BY <1>8, <2>1, Zenon DEF Latest
  <2>2. CASE \E n \in KnownBy(p, T)' : ~(vintages'[p][n].known <= vintages'[p][i].known)
    <3>1. PICK n \in KnownBy(p, T)' : ~(vintages'[p][n].known <= vintages'[p][i].known)
      BY <2>2
    <3>2. n \notin DOMAIN vintages[p]
      BY <1>5, <1>6, <1>7, <3>1, Zenon
    <3>3. \E m \in DOMAIN vintages'[p] : /\ DOMAIN vintages'[p] = DOMAIN vintages[p] \cup {m}
                                         /\ vintages'[p][m].known \in Int
      BY <1>9, <3>1, <3>2, OneRowAStep, Zenon
    <3>4. DOMAIN vintages'[p] = DOMAIN vintages[p] \cup {n} /\ vintages'[p][n].known \in Int
      BY <1>9, <3>1, <3>2, <3>3, Zenon
    <3>5. \A j \in KnownBy(p, T)' : vintages'[p][j].known <= vintages'[p][n].known
      <4> TAKE j \in KnownBy(p, T)'
      <4>1. CASE j = n
        BY <3>4, <4>1
      <4>2. CASE j # n
        <5>1. j \in DOMAIN vintages[p] /\ j \in KnownBy(p, T)
          BY <1>7, <1>9, <3>4, <4>2, Zenon
        <5>2. vintages'[p][j].known <= vintages'[p][i].known
          BY <1>5, <1>6, <5>1, Zenon
        <5>3. vintages'[p][j].known \in Int /\ vintages'[p][i].known \in Int
          <6>1. vintages[p][j] \in VintageSet /\ vintages'[p][j] = vintages[p][j]
                /\ vintages'[p][i] = vintages[p][i]
            BY <1>5, <1>6, <5>1, RowsTyped, Zenon DEF Sound
          <6> QED
            BY <1>5, <6>1 DEF VintageSet
        <5> QED
          BY <3>1, <3>4, <5>2, <5>3
      <4> QED
        BY <4>1, <4>2
    <3> QED
      BY <3>1, <3>5, Zenon DEF Latest
  <2> QED
    BY <2>1, <2>2, Zenon
<1>11. PICK j : j \in Latest(p, KnownBy(p, T))'
  BY <1>10
<1>12. j \in Shown(p, T)'
  BY <1>4, <1>11, Zenon DEF Shown
<1> DEFINE f == Event(p, j, T)'
<1>13. f \in Replay(T)'
  <2>1. f \in {Event(p, k, T)' : k \in Shown(p, T)'}
    BY <1>12
  <2> HIDE DEF f
  <2> QED
    BY <2>1, Zenon DEF Replay
<1>14. f.period = p /\ f.released = observations'[p].known /\ f.figure = observations'[p].figure
  BY <1>4 DEF Event
<1>15. e.period = p /\ e.released = observations[p].known /\ e.figure = observations[p].figure
  BY <1>1, <1>2, EventSays
<1> HIDE DEF f
<1> QED
  BY <1>3, <1>13, <1>14, <1>15, Zenon

\* What a replay of a day has told, every later replay of that day tells.
THEOREM WhatIsToldStays == MacroSpec => ToldStays
<1>1. Sound /\ [MacroNext]_macroVars =>
        [\A T \in Days : \A e \in Replay(T) :
           e.released # Unset =>
              \E f \in Replay(T)' : /\ f.period = e.period
                                    /\ f.released = e.released /\ f.figure = e.figure]_macroVars
  BY SoundKeepsTold, Zenon
<1> QED
  BY <1>1, AlwaysSound, PTL DEF MacroSpec, ToldStays
=============================================================================
