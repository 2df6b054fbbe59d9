--------------------------- MODULE LiveView_proofs ---------------------------
(***************************************************************************)
(* Theorems about LiveView, for any quotes, decisions and limits: the      *)
(* shapes, the zone beside the plan, one alert an incident, what stands    *)
(* behind a zone alert, what a quiet page shows, and the page's own state. *)
(***************************************************************************)
EXTENDS LiveView, FiniteSetTheorems, SequenceTheorems, TLAPS

-----------------------------------------------------------------------------
(* Shapes.                                                                 *)

Shaped ==
    /\ TypeOK
    /\ \A s \in outbox : s # <<>>
    /\ page.failures <= troubles

LEMMA BoundsType ==
    /\ MaxAttempts \in Nat /\ MaxClock \in Nat /\ MaxTroubles \in Nat
    /\ StaleAfter \in Nat /\ Skew \in Nat /\ MaxEvents \in Nat
  BY BoundsAssumption

LEMMA QuoteType ==
    ASSUME NEW q \in Quotes
    PROVE  q.seq \in Nat \cup {None} /\ q.ts \in Nat /\ q.bid \in Nat \ {0} /\ q.ask \in Nat \ {0}
  BY QuotesAssumption

LEMMA DecisionsType == Len(Decisions) \in Nat
  BY DecisionsAssumption, LenProperties

LEMMA ZoneType == \A d, b, a : Zone(d, b, a) \in Zones
  BY DEF Zone, Zones

LEMMA StaleType == \A q : IsStale(q) \in BOOLEAN
  BY DEF IsStale, Skewed

LEMMA DecisionType ==
    ASSUME NEW d \in 0..Len(Decisions)
    PROVE  /\ Decision(d).side \in {"LONG", "SHORT", None}
           /\ Decision(d).usable \in BOOLEAN
           /\ Decision(d).healthy \in BOOLEAN
           /\ Decision(d).gated \in BOOLEAN
<1>1. CASE d = 0
  BY <1>1 DEF Decision, NoDecision
<1>2. CASE d # 0
  <2>1. d \in 1..Len(Decisions)
    BY <1>2, DecisionsType
  <2>2. Decisions[d] \in [side: {"LONG", "SHORT", None}, lo: Nat, hi: Nat, stop: Nat,
                          usable: BOOLEAN, healthy: BOOLEAN, gated: BOOLEAN]
    BY <2>1, DecisionsAssumption, ElementOfSeq
  <2> QED
    BY <1>2, <2>2 DEF Decision
<1> QED
  BY <1>1, <1>2

\* The page after its socket closed: waiting for the timer, or done.
LEMMA ClosedShape ==
    ASSUME TypeOK
    PROVE  /\ Closed \in Pages
           /\ Closed.failures = page.failures
           /\ Closed.shows = page.shows
           /\ Closed.closed = page.closed
           /\ \/ Closed.phase = "waiting" /\ page.closed /\ Closed.attempts = page.attempts
              \/ /\ Closed.phase = "waiting" /\ ~page.closed /\ page.attempts < MaxAttempts
                 /\ Closed.attempts = page.attempts + 1
              \/ /\ Closed.phase = "gave up" /\ ~page.closed /\ ~Closed.reconnecting
                 /\ page.attempts = MaxAttempts /\ Closed.attempts = MaxAttempts
<1>1. page \in Pages
  BY DEF TypeOK
<1>2. page.attempts \in 0..MaxAttempts
  BY <1>1 DEF Pages
<1>3. CASE page.closed
  <2>1. Closed = [page EXCEPT !.phase = "waiting", !.reconnecting = FALSE]
    BY <1>3, Zenon DEF Closed
  <2> QED
    BY <1>1, <1>3, <2>1 DEF Pages, Phases
<1>4. CASE ~page.closed /\ page.attempts < MaxAttempts
  <2> DEFINE a == page.attempts + 1
  <2>1. a \in 0..MaxAttempts
    BY <1>2, <1>4, BoundsType
  <2>2. Closed = [page EXCEPT !.phase = "waiting", !.reconnecting = TRUE, !.attempts = a]
    BY <1>4, Zenon DEF Closed
  <2> HIDE DEF a
  <2>3. Closed \in Pages /\ Closed.failures = page.failures /\ Closed.shows = page.shows
        /\ Closed.closed = page.closed /\ Closed.phase = "waiting" /\ Closed.attempts = a
    BY <1>1, <2>1, <2>2 DEF Pages, Phases
  <2> QED
    BY <1>4, <2>3 DEF a
<1>5. CASE ~page.closed /\ ~(page.attempts < MaxAttempts)
  <2>1. Closed = [page EXCEPT !.phase = "gave up", !.reconnecting = FALSE, !.feedError = TRUE]
    BY <1>5, Zenon DEF Closed
  <2>2. page.attempts = MaxAttempts
    BY <1>2, <1>5, BoundsType
  <2> QED
    BY <1>1, <1>5, <2>1, <2>2 DEF Pages, Phases
<1> QED
  BY <1>3, <1>4, <1>5

\* Closing counts an attempt in an open market, and gives up only when all are used.
LEMMA ClosedCounts ==
    ASSUME TypeOK
    PROVE  /\ Closed.attempts \in {page.attempts, page.attempts + 1}
           /\ Closed.phase = "gave up" => page.attempts = MaxAttempts /\ Closed.attempts = page.attempts
<1>1. CASE Closed.phase = "gave up"
  BY <1>1, ClosedShape
<1>2. CASE Closed.phase = "waiting"
  BY <1>2, ClosedShape
<1> QED
  BY <1>1, <1>2, ClosedShape

LEMMA ClosedSocket ==
    ASSUME TypeOK
    PROVE  /\ Closed.phase \notin Connected
           /\ Closed.reconnecting => Closed.phase \in {"waiting", "connecting", "stopped"}
  BY ClosedShape DEF Connected

LEMMA InitShaped == Init => Shaped
<1> SUFFICES ASSUME Init PROVE Shaped
  OBVIOUS
<1>1. row \in Rows
  BY DecisionsType DEF Init, Rows, Zones
<1>2. page \in Pages
  BY BoundsType DEF Init, Pages, Phases, NoSnapshot
<1>3. accepted \in Seq([q: Quotes, stale: BOOLEAN])
  BY DEF Init
<1>4. published \in [Kinds -> Nat]
  BY DEF Init
<1>5. /\ clock \in 0..MaxClock /\ troubles \in 0..MaxTroubles
      /\ recorded \in 0..Len(Decisions) /\ rebuild \in 0..Len(Decisions) \cup {None}
  BY BoundsType, DecisionsType DEF Init
<1>6. page.failures <= troubles
  BY DEF Init
<1>7. /\ closed \in BOOLEAN /\ rebuilt \in BOOLEAN /\ alerts \subseteq Alerts
      /\ incident \in Nat /\ lost \subseteq Kinds /\ outbox = {}
  BY DEF Init
<1> QED
  BY <1>1, <1>2, <1>3, <1>4, <1>5, <1>6, <1>7 DEF Shaped, TypeOK

LEMMA AlertsType ==
    ASSUME Shaped, NEW q \in Quotes
    PROVE  IncidentAlerts(q) \cup ZoneAlerts(q) \subseteq Alerts
<1>1. q.ts \in Nat /\ row.plan \in Nat
  BY QuoteType, DecisionsType DEF Shaped, TypeOK, Rows
<1>2. IncidentAlerts(q) \subseteq [type: {"stale", "unhealthy"}, of: {q.ts}]
  BY DEF IncidentAlerts
<1>3. ZoneAlerts(q) \subseteq [type: {"entry", "invalidated"}, of: {row.plan}]
  BY DEF ZoneAlerts
<1> QED
  BY <1>1, <1>2, <1>3 DEF Alerts

\* A quote opens at most one incident of its own.
LEMMA StaleAlerts ==
    ASSUME NEW q \in Quotes, NEW a \in IncidentAlerts(q) \cup ZoneAlerts(q), a.type = "stale"
    PROVE  /\ a = [type |-> "stale", of |-> q.ts]
           /\ a \in IncidentAlerts(q) /\ IsStale(q) /\ ~row.staleOpen
<1>1. \A z \in ZoneAlerts(q) : z.type \in {"entry", "invalidated"}
  BY DEF ZoneAlerts
<1>2. a \in IncidentAlerts(q)
  BY <1>1
<1>3. a \in [type: {"stale", "unhealthy"}, of: {q.ts}]
  BY <1>2 DEF IncidentAlerts
<1>4. a.of = q.ts
  BY <1>3
<1>5. a = [type |-> "stale", of |-> q.ts]
  BY <1>3, <1>4
<1> QED
  BY <1>2, <1>5 DEF IncidentAlerts

LEMMA StepShaped == Shaped /\ [Next]_vars => Shaped'
<1> SUFFICES ASSUME Shaped, [Next]_vars PROVE Shaped'
  OBVIOUS
<1> USE DEF Shaped
<1>p. page \in Pages
  BY DEF TypeOK
<1>r. row \in Rows
  BY DEF TypeOK
<1>1. ASSUME NEW q \in Quotes, TakeQuote(q) PROVE Shaped'
  <2> DEFINE new == {a \in IncidentAlerts(q) \cup ZoneAlerts(q): a \notin alerts}
             z == Zone(Decision(row.plan), q.bid, q.ask)
             s == IsStale(q)
             h == ~Decision(row.plan).healthy
             e == [q |-> q, stale |-> s]
  <2>1. z \in Zones /\ s \in BOOLEAN /\ h \in BOOLEAN
    BY ZoneType, StaleType
  <2>2. row' \in Rows
    <3>1. row' = [row EXCEPT !.seq = q.seq, !.ts = q.ts, !.bid = q.bid, !.ask = q.ask,
                             !.stale = s, !.zone = z, !.staleOpen = s, !.sickOpen = h]
      BY <1>1, Zenon DEF TakeQuote
    <3> HIDE DEF s, z, h
    <3> QED
      BY <1>r, <2>1, <3>1, QuoteType DEF Rows
  <2>3. accepted' \in Seq([q: Quotes, stale: BOOLEAN]) /\ accepted' = Append(accepted, e)
    <3>1. accepted' = Append(accepted, e)
      BY <1>1 DEF TakeQuote
    <3>2. e \in [q: Quotes, stale: BOOLEAN]
      BY <2>1
    <3> HIDE DEF e
    <3> QED
      BY <3>1, <3>2, AppendProperties DEF TypeOK
  <2>4. alerts' \subseteq Alerts
    BY <1>1, AlertsType, Zenon DEF TypeOK, TakeQuote
  <2>5. incident' \in Nat
    <3>1. IsFiniteSet({a \in new: a.type = "stale"})
      <4>1. {a \in new: a.type = "stale"} \subseteq {[type |-> "stale", of |-> q.ts]}
        BY StaleAlerts
      <4> DEFINE one == [type |-> "stale", of |-> q.ts]
                 S == {a \in new: a.type = "stale"}
      <4>2. S \subseteq {one}
        BY <4>1
      <4> HIDE DEF one, S
      <4>3. IsFiniteSet({one})
        BY FS_Singleton
      <4>4. IsFiniteSet(S)
        BY <4>2, <4>3, FS_Subset
      <4> QED
        BY <4>4 DEF S
    <3>2. Cardinality({a \in new: a.type = "stale"}) \in Nat
      BY <3>1, FS_CardinalityType
    <3>3. incident' = IF s THEN incident + Cardinality({a \in new: a.type = "stale"}) ELSE 0
      BY <1>1, Zenon DEF TakeQuote
    <3> HIDE DEF new, s
    <3> QED
      BY <3>2, <3>3 DEF TypeOK
  <2>6. outbox' \subseteq Seq(Events) /\ \A x \in outbox' : x # <<>>
    <3> DEFINE m == [kind |-> "quote", n |-> Len(accepted) + 1]
    <3>1. outbox' = outbox \cup {<<m>>}
      BY <1>1, Zenon DEF TakeQuote, QuoteEvents
    <3>2. m \in Events
      <4>1. Len(accepted) \in Nat
        BY LenProperties DEF TypeOK
      <4> QED
        BY <4>1 DEF Events, Kinds
    <3> HIDE DEF m
    <3>3. <<m>> \in Seq(Events) /\ <<m>> # <<>>
      BY <3>2
    <3> QED
      BY <3>1, <3>3 DEF TypeOK
  <2> QED
    BY <1>1, <2>2, <2>3, <2>4, <2>5, <2>6 DEF TakeQuote, TypeOK
<1>2. CASE RecordDecision
  <2>1. recorded' \in 0..Len(Decisions)
    BY <1>2, DecisionsType DEF RecordDecision, TypeOK
  <2> QED
    BY <1>2, <2>1 DEF RecordDecision, TypeOK
<1>3. CASE ProjectDecision
  <2> DEFINE d == row.decided + 1
             z == DecidedZone(d)
  <2>1. d \in 0..Len(Decisions) /\ d \in Nat \ {0}
    <3>1. row.decided < recorded
      BY <1>3 DEF ProjectDecision
    <3>2. row.decided \in 0..Len(Decisions) /\ recorded \in 0..Len(Decisions)
      BY <1>r DEF TypeOK, Rows
    <3> QED
      BY <3>1, <3>2, DecisionsType
  <2>2. z \in Zones
    BY ZoneType DEF DecidedZone
  <2>3. row' = [row EXCEPT !.signal = d, !.plan = d, !.decided = d, !.zone = z]
    BY <1>3, Zenon DEF ProjectDecision
  <2>4. outbox' = outbox \cup {<<[kind |-> "signal", n |-> d], [kind |-> "plan", n |-> d]>>}
    BY <1>3, Zenon DEF ProjectDecision, DecisionEvents
  <2> HIDE DEF d, z
  <2>5. row' \in Rows
    BY <1>r, <2>1, <2>2, <2>3 DEF Rows
  <2>6. outbox' \subseteq Seq(Events) /\ \A x \in outbox' : x # <<>>
    <3> DEFINE one == [kind |-> "signal", n |-> d]
               two == [kind |-> "plan", n |-> d]
    <3>1. one \in Events /\ two \in Events
      BY <2>1 DEF Events, Kinds
    <3>2. outbox' = outbox \cup {<<one, two>>}
      BY <2>4
    <3> HIDE DEF one, two
    <3>3. <<one, two>> \in Seq(Events) /\ <<one, two>> # <<>>
      BY <3>1
    <3> QED
      BY <3>2, <3>3 DEF TypeOK
  <2> QED
    BY <1>3, <2>5, <2>6 DEF ProjectDecision, TypeOK
<1>t. ASSUME Trouble PROVE troubles' \in 0..MaxTroubles /\ troubles' = troubles + 1
  BY <1>t, BoundsType DEF Trouble, TypeOK
<1>f. page.failures \in 0..MaxTroubles
  BY <1>p DEF Pages
<1>4. CASE RebuildRead
  <2>1. page' = page /\ page.failures <= troubles'
    BY <1>4, <1>t, <1>f, BoundsType DEF RebuildRead, TypeOK
  <2> QED
    BY <1>4, <1>t, <2>1 DEF RebuildRead, TypeOK
<1>5. CASE RebuildWrite
  <2>1. rebuild \in 0..Len(Decisions)
    BY <1>5 DEF RebuildWrite, TypeOK
  <2>2. row' \in Rows
    <3> DEFINE g == IF rebuild = 0 THEN row.signal ELSE rebuild
    <3>1. g \in 0..Len(Decisions)
      BY <1>r, <2>1 DEF Rows
    <3>2. row' = [row EXCEPT !.signal = g, !.plan = rebuild]
      BY <1>5, Zenon DEF RebuildWrite, RebuiltRow
    <3> HIDE DEF g
    <3> QED
      BY <1>r, <2>1, <3>1, <3>2 DEF Rows
  <2> QED
    BY <1>5, <2>2 DEF RebuildWrite, TypeOK
<1>6. ASSUME NEW s \in outbox, NEW ok \in BOOLEAN, Publish(s, ok) PROVE Shaped'
  <2> DEFINE m == Head(s)
  <2>1. s \in Seq(Events) /\ s # <<>>
    BY DEF TypeOK
  <2>2. m \in Events /\ Tail(s) \in Seq(Events) /\ Len(Tail(s)) = Len(s) - 1 /\ Len(s) \in Nat
    BY <2>1, HeadTailProperties, LenProperties
  <2>3. m.kind \in Kinds /\ m.n \in Nat
    BY <2>2 DEF Events
  <2>4. outbox' \subseteq Seq(Events) /\ \A x \in outbox' : x # <<>>
    <3>1. outbox' = (outbox \ {s}) \cup (IF Len(s) = 1 THEN {} ELSE {Tail(s)})
      BY <1>6, Zenon DEF Publish
    <3>2. Len(s) # 1 => Tail(s) # <<>>
      <4>1. Len(s) # 1 => Len(Tail(s)) # 0
        BY <2>2
      <4>2. Len(<<>>) = 0
        BY EmptySeq
      <4> QED
        BY <4>1, <4>2, Zenon
    <3>3. \A x \in outbox : x \in Seq(Events) /\ x # <<>>
      BY DEF TypeOK
    <3> QED
      BY <2>2, <3>1, <3>2, <3>3, Zenon
  <2>5. published' \in [Kinds -> Nat]
    <3> DEFINE v == IF m.n < published[m.kind] THEN published[m.kind] ELSE m.n
    <3>1. v \in Nat
      BY <2>3 DEF TypeOK
    <3>2. published' = [published EXCEPT ![m.kind] = v]
      BY <1>6, Zenon DEF Publish
    <3> HIDE DEF v
    <3> QED
      BY <2>3, <3>1, <3>2 DEF TypeOK
  <2>6. page' \in Pages /\ page'.failures = page.failures
    <3> DEFINE shown == [page.shows EXCEPT ![m.kind] = m.n]
               err == page.feedError /\ m.kind # "quote"
    <3>1. page' = page \/ page' = [page EXCEPT !.shows = shown, !.feedError = err]
      BY <1>6, Zenon DEF Publish
    <3>2. shown \in [Kinds -> Nat] /\ err \in BOOLEAN
      BY <1>p, <2>3 DEF Pages
    <3> HIDE DEF shown, err
    <3> QED
      BY <1>p, <3>1, <3>2 DEF Pages
  <2>7. lost' \subseteq Kinds
    <3>1. lost' \in {lost, lost \cup {m.kind}, lost \ {m.kind}}
      BY <1>6, Zenon DEF Publish
    <3> QED
      BY <2>3, <3>1 DEF TypeOK
  <2>8. troubles' \in 0..MaxTroubles /\ troubles <= troubles'
    <3>1. troubles' = troubles \/ Trouble
      BY <1>6, Zenon DEF Publish
    <3> QED
      BY <1>t, <3>1, BoundsType DEF TypeOK
  <2>9. page'.failures <= troubles'
    BY <1>f, <2>6, <2>8, BoundsType DEF TypeOK
  <2> QED
    BY <1>6, <2>4, <2>5, <2>6, <2>7, <2>8, <2>9 DEF Publish, TypeOK
<1>7. CASE Retry
  <2>1. page' \in Pages /\ page'.failures = page.failures
    BY <1>7, <1>p DEF Retry, PageStep, Pages, Phases
  <2> QED
    BY <1>7, <2>1 DEF Retry, PageStep, TypeOK
<1>8. CASE Open
  <2>1. page' \in Pages /\ page'.failures = 0
    <3>1. page' = [page EXCEPT !.phase = "open", !.attempts = 0, !.failures = 0,
                               !.reconnecting = FALSE]
      BY <1>8, Zenon DEF Open, PageStep, Opened
    <3>2. 0 \in 0..MaxAttempts /\ 0 \in 0..MaxTroubles /\ "open" \in Phases
      BY BoundsType DEF Phases, Connected
    <3> QED
      BY <1>p, <3>1, <3>2 DEF Pages
  <2>2. page'.failures <= troubles'
    <3>1. troubles' = troubles /\ troubles \in 0..MaxTroubles
      BY <1>8 DEF Open, TypeOK
    <3> QED
      BY <2>1, <3>1, BoundsType
  <2> QED
    BY <1>8, <2>1, <2>2 DEF Open, PageStep, TypeOK
<1>9. CASE ReadSnapshot
  <2> DEFINE snap == [quote |-> Len(accepted),
                      fault |-> row.plan # 0 /\ ~Decision(row.plan).healthy,
                      closed |-> closed]
  <2>1. page' = [page EXCEPT !.phase = "read", !.snapshot = snap]
    BY <1>9, Zenon DEF ReadSnapshot, PageStep
  <2>2. snap \in [quote: Nat, fault: BOOLEAN, closed: BOOLEAN]
    BY LenProperties DEF TypeOK
  <2> HIDE DEF snap
  <2>3. page' \in Pages /\ page'.failures = page.failures
    BY <1>p, <2>1, <2>2 DEF Pages, Phases, Connected
  <2> QED
    BY <1>9, <2>3 DEF ReadSnapshot, PageStep, TypeOK
<1>10. ASSUME NEW ok \in BOOLEAN, Subscribe(ok) PROVE Shaped'
  <2> DEFINE shown == [page.shows EXCEPT !["quote"] = page.snapshot.quote]
             next == IF ok THEN "subscribed" ELSE "deaf"
  <2>1. page' = [page EXCEPT !.phase = next, !.snapshot = NoSnapshot,
                             !.closed = page.snapshot.closed, !.fault = page.snapshot.fault,
                             !.shows = shown]
    BY <1>10, Zenon DEF Subscribe, PageStep
  <2>2. shown \in [Kinds -> Nat] /\ next \in Phases
    BY <1>p DEF Pages, Phases, Connected
  <2> HIDE DEF shown, next
  <2>3. page' \in Pages /\ page'.failures = page.failures
    BY <1>p, <2>1, <2>2 DEF Pages, NoSnapshot
  <2>4. troubles' \in 0..MaxTroubles /\ page'.failures <= troubles'
    BY <1>10, <1>f, <1>t, <2>3, BoundsType DEF Subscribe, TypeOK, Pages
  <2> QED
    BY <1>10, <2>3, <2>4 DEF Subscribe, PageStep, TypeOK
<1>16. CASE MissSnapshot
  <2> DEFINE snap == [quote |-> page.shows["quote"], fault |-> page.fault,
                      closed |-> page.closed]
  <2>1. page' = [page EXCEPT !.phase = "read", !.snapshot = snap]
    BY <1>16, Zenon DEF MissSnapshot, PageStep
  <2>2. snap \in [quote: Nat, fault: BOOLEAN, closed: BOOLEAN]
    BY <1>p DEF Pages, Kinds
  <2> HIDE DEF snap
  <2>3. page' \in Pages /\ page'.failures = page.failures
    BY <1>p, <2>1, <2>2 DEF Pages, Phases, Connected
  <2>4. page'.failures <= troubles'
    BY <1>16, <1>f, <1>t, <2>3 DEF MissSnapshot, TypeOK
  <2>5. lost' \subseteq Kinds
    BY <1>16 DEF MissSnapshot, TypeOK, Kinds
  <2> QED
    BY <1>16, <1>t, <2>3, <2>4, <2>5 DEF MissSnapshot, PageStep, TypeOK
<1>17. CASE ListenerEnds
  <2>1. page' = [page EXCEPT !.phase = "deaf"]
    BY <1>17, Zenon DEF ListenerEnds, PageStep
  <2>2. page' \in Pages /\ page'.failures = page.failures
    BY <1>p, <2>1 DEF Pages, Phases, Connected
  <2>3. page'.failures <= troubles'
    BY <1>17, <1>f, <1>t, <2>2 DEF ListenerEnds, TypeOK
  <2> QED
    BY <1>17, <1>t, <2>2, <2>3 DEF ListenerEnds, PageStep, TypeOK
<1>18. CASE Throw
  <2> DEFINE rec == page.reconnecting \/ ~page.closed
  <2>1. page' = [page EXCEPT !.phase = "stopped", !.reconnecting = rec]
    BY <1>18, Zenon DEF Throw, PageStep
  <2>2. rec \in BOOLEAN
    OBVIOUS
  <2> HIDE DEF rec
  <2>3. page' \in Pages /\ page'.failures = page.failures
    BY <1>p, <2>1, <2>2 DEF Pages, Phases
  <2>4. page'.failures <= troubles'
    BY <1>18, <1>f, <1>t, <2>3 DEF Throw, TypeOK
  <2> QED
    BY <1>18, <1>t, <2>3, <2>4 DEF Throw, PageStep, TypeOK
<1>11. CASE Drop
  <2>1. page' = [Closed EXCEPT !.snapshot = NoSnapshot]
    BY <1>11 DEF Drop, PageStep
  <2>2. page' \in Pages /\ page'.failures = page.failures
    BY <2>1, ClosedShape DEF Pages, NoSnapshot
  <2>3. page'.failures <= troubles'
    BY <1>11, <1>f, <1>t, <2>2 DEF Drop, TypeOK
  <2> QED
    BY <1>11, <1>t, <2>2, <2>3 DEF Drop, PageStep, TypeOK
<1>12. CASE Fail
  <2> DEFINE f == Closed.failures + 1
  <2>1. page' = [Closed EXCEPT !.failures = f]
    BY <1>12, Zenon DEF Fail, PageStep
  <2>2. f \in 0..MaxTroubles /\ f <= troubles'
    <3>1. Trouble
      BY <1>12, Zenon DEF Fail
    <3>2. troubles \in 0..MaxTroubles /\ Closed.failures = page.failures
      BY ClosedShape DEF TypeOK
    <3> QED
      BY <3>1, <3>2, <1>f, <1>t, BoundsType
  <2> HIDE DEF f
  <2>3. page' \in Pages /\ page'.failures = f
    BY <2>1, <2>2, ClosedShape DEF Pages
  <2> QED
    BY <1>12, <1>t, <2>2, <2>3 DEF Fail, PageStep, TypeOK
<1>13. CASE Tick
  BY <1>13, BoundsType DEF Tick, TypeOK
<1>14. CASE ChangeSession
  <2>1. page.failures <= troubles'
    BY <1>14, <1>f, <1>t DEF ChangeSession, TypeOK
  <2> QED
    BY <1>14, <1>t, <2>1 DEF ChangeSession, TypeOK
<1>15. CASE UNCHANGED vars
  BY <1>15 DEF vars, TypeOK
<1> QED
  BY <1>1, <1>2, <1>3, <1>4, <1>5, <1>6, <1>7, <1>8, <1>9, <1>10, <1>11, <1>12, <1>13, <1>14,
     <1>15, <1>16, <1>17, <1>18 DEF Next

THEOREM AlwaysShaped == Spec => []Shaped
  BY InitShaped, StepShaped, PTL DEF Spec

\* The row, the alerts, the events and the page keep the shapes the code gives them, whatever
\* quotes and decisions come and however often the socket closes.
THEOREM TypeCorrect == Spec => []TypeOK
<1>1. Shaped => TypeOK
  BY DEF Shaped
<1> QED
  BY <1>1, AlwaysShaped, PTL

-----------------------------------------------------------------------------
(* The row.                                                                *)

PageSteps ==
    \/ Retry \/ Open \/ ReadSnapshot \/ MissSnapshot
    \/ \E ok \in BOOLEAN : Subscribe(ok)
    \/ ListenerEnds \/ Drop \/ Fail \/ Throw

\* Who writes the row, and what it leaves alone.
LEMMA RowKept ==
    ASSUME [Next]_vars
    PROVE  \/ \E q \in Quotes : TakeQuote(q)
           \/ ProjectDecision
           \/ RebuildWrite
           \/ row' = row /\ rebuilt' = rebuilt /\ incident' = incident /\ alerts' = alerts
              /\ accepted' = accepted
<1>1. CASE UNCHANGED vars
  BY <1>1 DEF vars
<1>2. CASE \E s \in outbox, ok \in BOOLEAN : Publish(s, ok)
  BY <1>2, Zenon DEF Publish
<1>3. CASE RecordDecision \/ RebuildRead \/ Tick \/ ChangeSession
  BY <1>3, Zenon DEF RecordDecision, RebuildRead, Tick, ChangeSession
<1>4. CASE PageSteps
  BY <1>4, Zenon DEF PageSteps, Retry, Open, ReadSnapshot, MissSnapshot, Subscribe,
     ListenerEnds, Drop, Fail, Throw, PageStep
<1> QED
  BY <1>1, <1>2, <1>3, <1>4, Zenon DEF Next, PageSteps

\* What the three writers make of the row.
LEMMA QuoteRow ==
    ASSUME Shaped, NEW q \in Quotes, TakeQuote(q)
    PROVE  /\ row'.zone = Zone(Decision(row.plan), q.bid, q.ask)
           /\ row'.bid = q.bid /\ row'.ask = q.ask
           /\ row'.plan = row.plan /\ row'.signal = row.signal /\ row'.decided = row.decided
           /\ row'.staleOpen = IsStale(q)
  BY DEF TakeQuote, Shaped, TypeOK, Rows

LEMMA DecidedRow ==
    ASSUME Shaped, ProjectDecision
    PROVE  /\ row.decided < recorded
           /\ row'.decided = row.decided + 1 /\ row'.plan = row.decided + 1
           /\ row'.zone = Zone(Decision(row.decided + 1), row.bid, row.ask)
           /\ row'.bid = row.bid /\ row'.ask = row.ask /\ row'.staleOpen = row.staleOpen
  BY DEF ProjectDecision, DecidedZone, Shaped, TypeOK, Rows

LEMMA RebuiltRowKeeps ==
    ASSUME Shaped, RebuildWrite
    PROVE  /\ rebuild # None /\ row'.plan = rebuild
           /\ row'.decided = row.decided /\ row'.staleOpen = row.staleOpen
  BY DEF RebuildWrite, RebuiltRow, Shaped, TypeOK, Rows

LEMMA StepZoneAgrees == Shaped /\ ZoneAgrees /\ [Next]_vars => ZoneAgrees'
<1> SUFFICES ASSUME Shaped, ZoneAgrees, [Next]_vars, ~rebuilt' PROVE ZoneAgrees'
  BY DEF ZoneAgrees
<1>1. ASSUME NEW q \in Quotes, TakeQuote(q) PROVE ZoneAgrees'
  BY <1>1, QuoteRow, Zenon DEF ZoneAgrees, Zone, Price, Decision, NoDecision
<1>2. CASE ProjectDecision
  <2>1. row'.zone = Zone(Decision(row'.plan), row'.bid, row'.ask)
    BY <1>2, DecidedRow
  <2> QED
    BY <2>1 DEF ZoneAgrees, Zone, Price, Decision, NoDecision
<1>3. CASE RebuildWrite
  BY <1>3 DEF RebuildWrite
<1>4. CASE row' = row /\ rebuilt' = rebuilt
  BY <1>4, Zenon DEF ZoneAgrees, Zone, Price, Decision, NoDecision
<1> QED
  BY <1>1, <1>2, <1>3, <1>4, RowKept

\* Whichever of quote task and decision task wrote the row last, the zone status in it is the
\* one that the plan and the quote in it give; only a rebuild leaves another.
THEOREM ZoneFollows == Spec => []ZoneAgrees
<1>1. Init => ZoneAgrees
  BY DEF Init, ZoneAgrees, Zone, Decision, NoDecision
<1> QED
  BY <1>1, StepZoneAgrees, AlwaysShaped, PTL DEF Spec

\* An incident that raised its alert is open in the row, and every writer keeps it open.
IncidentOpen == incident <= 1 /\ (incident # 0 => row.staleOpen)

LEMMA StepIncident == Shaped /\ IncidentOpen /\ [Next]_vars => IncidentOpen'
<1> SUFFICES ASSUME Shaped, IncidentOpen, [Next]_vars PROVE IncidentOpen'
  OBVIOUS
<1>1. ASSUME NEW q \in Quotes, TakeQuote(q) PROVE IncidentOpen'
  <2> DEFINE new == {a \in IncidentAlerts(q) \cup ZoneAlerts(q): a \notin alerts}
             S == {a \in new: a.type = "stale"}
             one == [type |-> "stale", of |-> q.ts]
  <2>1. incident' = IF IsStale(q) THEN incident + Cardinality(S) ELSE 0
    BY <1>1, Zenon DEF TakeQuote
  <2>2. row'.staleOpen = IsStale(q)
    BY <1>1, QuoteRow
  <2>3. CASE ~IsStale(q)
    BY <2>1, <2>3 DEF IncidentOpen
  <2>4. CASE IsStale(q) /\ row.staleOpen
    <3>1. S = {}
      BY <2>4, StaleAlerts
    <3>2. Cardinality(S) = 0
      BY <3>1, FS_EmptySet
    <3>3. incident \in Nat
      BY DEF Shaped, TypeOK
    <3> QED
      BY <2>1, <2>2, <2>4, <3>2, <3>3 DEF IncidentOpen
  <2>5. CASE IsStale(q) /\ ~row.staleOpen
    <3>1. S \subseteq {one}
      BY StaleAlerts
    <3> HIDE DEF S, one
    <3>2. IsFiniteSet({one}) /\ Cardinality({one}) = 1
      BY FS_Singleton
    <3>3. IsFiniteSet(S) /\ Cardinality(S) <= 1 /\ Cardinality(S) \in Nat
      <4>1. IsFiniteSet(S) /\ Cardinality(S) <= Cardinality({one})
        BY <3>1, <3>2, FS_Subset
      <4> QED
        BY <4>1, <3>2, FS_CardinalityType
    <3>4. incident = 0
      BY <2>5 DEF IncidentOpen
    <3> QED
      BY <2>1, <2>2, <2>5, <3>3, <3>4 DEF IncidentOpen
  <2> QED
    BY <2>3, <2>4, <2>5
<1>2. CASE ProjectDecision
  <2>1. row'.staleOpen = row.staleOpen /\ incident' = incident
    BY <1>2, DecidedRow DEF ProjectDecision
  <2> QED
    BY <2>1 DEF IncidentOpen
<1>3. CASE RebuildWrite
  <2>1. row'.staleOpen = row.staleOpen /\ incident' = incident
    BY <1>3, RebuiltRowKeeps DEF RebuildWrite
  <2> QED
    BY <2>1 DEF IncidentOpen
<1>4. CASE row' = row /\ incident' = incident
  BY <1>4 DEF IncidentOpen
<1> QED
  BY <1>1, <1>2, <1>3, <1>4, RowKept

\* One stale incident raises one alert: a decision or a rebuild in the middle of it does not
\* open it again.
THEOREM OneAlertAnIncident == Spec => []IncidentAlertedOnce
<1>1. Init => IncidentOpen
  BY DEF Init, IncidentOpen
<1>2. IncidentOpen => IncidentAlertedOnce
  BY DEF IncidentOpen, IncidentAlertedOnce
<1> QED
  BY <1>1, <1>2, StepIncident, AlwaysShaped, PTL DEF Spec

\* What stands behind the alerts is recorded, and so is what the row or a rebuild holds.
Backed ==
    /\ ZoneAlertIsBacked
    /\ row.plan <= recorded /\ row.decided <= recorded
    /\ rebuild # None => rebuild <= recorded

AlertBacked(a, acc, rec) ==
    a.type \in {"entry", "invalidated"} =>
        /\ a.of \in 1..rec
        /\ Decision(a.of).usable /\ Decision(a.of).healthy
        /\ \E i \in 1..Len(acc):
              /\ ~acc[i].stale
              /\ IF a.type = "entry"
                 THEN Zone(Decision(a.of), acc[i].q.bid, acc[i].q.ask) = "inside"
                 ELSE Invalidates(Decision(a.of), acc[i].q)

LEMMA BackedMeans == ZoneAlertIsBacked <=> \A a \in alerts : AlertBacked(a, accepted, recorded)
  BY Zenon DEF ZoneAlertIsBacked, AlertBacked

LEMMA BackedMeansNext ==
    (\A a \in alerts' : AlertBacked(a, accepted', recorded')) => ZoneAlertIsBacked'
  BY Zenon DEF ZoneAlertIsBacked, AlertBacked, Decision, Zone, Price, Invalidates, NoDecision

LEMMA NewAlertBacked ==
    ASSUME Shaped, Backed, NEW q \in Quotes, NEW a \in ZoneAlerts(q)
    PROVE  AlertBacked(a, Append(accepted, [q |-> q, stale |-> IsStale(q)]), recorded)
<1> DEFINE e == [q |-> q, stale |-> IsStale(q)]
           acc == Append(accepted, e)
           d == Decision(row.plan)
<1>1. /\ a \in [type: {"entry", "invalidated"}, of: {row.plan}]
      /\ ~IsStale(q) /\ d.healthy /\ d.usable
      /\ IF a.type = "entry" THEN Zone(d, q.bid, q.ask) = "inside" ELSE Invalidates(d, q)
  BY DEF ZoneAlerts
<1>2. a.of = row.plan /\ a.type \in {"entry", "invalidated"}
  BY <1>1
<1>3. row.plan \in 1..recorded
  <2>1. row.plan # 0
    BY <1>1 DEF Decision, NoDecision
  <2>2. row.plan \in 0..Len(Decisions) /\ recorded \in 0..Len(Decisions) /\ row.plan <= recorded
    BY DEF Shaped, TypeOK, Rows, Backed
  <2> QED
    BY <2>1, <2>2, DecisionsType
<1>4. Len(acc) \in 1..Len(acc) /\ acc[Len(acc)] = e
  <2>1. accepted \in Seq([q: Quotes, stale: BOOLEAN])
    BY DEF Shaped, TypeOK
  <2>2. e \in [q: Quotes, stale: BOOLEAN]
    BY StaleType
  <2> HIDE DEF e
  <2>3. Len(acc) = Len(accepted) + 1 /\ acc[Len(accepted) + 1] = e /\ Len(accepted) \in Nat
    BY <2>1, <2>2, AppendProperties, LenProperties
  <2> QED
    BY <2>3
<1>5. e.stale = IsStale(q) /\ e.q = q
  OBVIOUS
<1> HIDE DEF acc, e
<1>6. AlertBacked(a, acc, recorded)
  BY <1>1, <1>2, <1>3, <1>4, <1>5, Zenon DEF AlertBacked
<1> QED
  BY <1>6 DEF acc, e

LEMMA BackedStays ==
    ASSUME Shaped, NEW a, NEW e \in [q: Quotes, stale: BOOLEAN], AlertBacked(a, accepted, recorded)
    PROVE  AlertBacked(a, Append(accepted, e), recorded)
<1> DEFINE acc == Append(accepted, e)
<1>1. accepted \in Seq([q: Quotes, stale: BOOLEAN])
  BY DEF Shaped, TypeOK
<1>2. /\ Len(accepted) \in Nat /\ Len(acc) = Len(accepted) + 1
      /\ \A i \in 1..Len(accepted) : acc[i] = accepted[i]
  BY <1>1, AppendProperties, LenProperties
<1>3. 1..Len(accepted) \subseteq 1..Len(acc)
  BY <1>2
<1> HIDE DEF acc
<1>4. AlertBacked(a, acc, recorded)
  BY <1>2, <1>3, Zenon DEF AlertBacked
<1> QED
  BY <1>4 DEF acc

LEMMA StepBacked == Shaped /\ Backed /\ [Next]_vars => Backed'
<1> SUFFICES ASSUME Shaped, Backed, [Next]_vars PROVE Backed'
  OBVIOUS
<1>a. \A a \in alerts : AlertBacked(a, accepted, recorded)
  BY BackedMeans DEF Backed
<1>t. recorded \in Nat /\ row.decided \in Nat /\ row.plan \in Nat
  BY DecisionsType DEF Shaped, TypeOK, Rows
<1>1. ASSUME NEW q \in Quotes, TakeQuote(q) PROVE Backed'
  <2> DEFINE e == [q |-> q, stale |-> IsStale(q)]
  <2>1. alerts' = alerts \cup {a \in IncidentAlerts(q) \cup ZoneAlerts(q): a \notin alerts}
    BY <1>1, Zenon DEF TakeQuote
  <2>2. accepted' = Append(accepted, e) /\ recorded' = recorded /\ rebuild' = rebuild
    BY <1>1, Zenon DEF TakeQuote
  <2>3. ASSUME NEW a \in alerts' PROVE AlertBacked(a, accepted', recorded')
    <3>1. CASE a \in alerts
      <4>1. e \in [q: Quotes, stale: BOOLEAN]
        BY StaleType
      <4> HIDE DEF e
      <4> QED
        BY <3>1, <4>1, <2>2, <1>a, BackedStays
    <3>2. CASE a \in ZoneAlerts(q)
      BY <3>2, <2>2, NewAlertBacked
    <3>3. CASE a \in IncidentAlerts(q)
      <4>1. a.type \in {"stale", "unhealthy"}
        BY <3>3 DEF IncidentAlerts
      <4> QED
        BY <4>1 DEF AlertBacked
    <3> QED
      BY <2>1, <3>1, <3>2, <3>3
  <2>4. row'.plan = row.plan /\ row'.decided = row.decided
    BY <1>1, QuoteRow
  <2> QED
    BY <2>2, <2>3, <2>4, BackedMeansNext DEF Backed
<1>2. CASE ProjectDecision
  <2>1. alerts' = alerts /\ accepted' = accepted /\ recorded' = recorded /\ rebuild' = rebuild
    BY <1>2, Zenon DEF ProjectDecision
  <2>2. row'.plan <= recorded /\ row'.decided <= recorded
    BY <1>2, <1>t, DecidedRow
  <2> QED
    BY <1>a, <2>1, <2>2, BackedMeansNext DEF Backed
<1>3. CASE RebuildWrite
  <2>1. alerts' = alerts /\ accepted' = accepted /\ recorded' = recorded /\ rebuild' = None
    BY <1>3, Zenon DEF RebuildWrite
  <2>2. row'.plan <= recorded /\ row'.decided <= recorded
    BY <1>3, RebuiltRowKeeps DEF Backed
  <2> QED
    BY <1>a, <2>1, <2>2, BackedMeansNext DEF Backed
<1>4. ASSUME row' = row, alerts' = alerts, accepted' = accepted,
             recorded' \in Nat, recorded <= recorded', rebuild' # None => rebuild' <= recorded'
      PROVE  Backed'
  <2>1. ASSUME NEW a \in alerts' PROVE AlertBacked(a, accepted', recorded')
    <3>1. AlertBacked(a, accepted, recorded)
      BY <1>4, <1>a
    <3>2. \A n \in 1..recorded : n \in 1..recorded'
      BY <1>4, <1>t
    <3> QED
      BY <1>4, <3>1, <3>2, Zenon DEF AlertBacked
  <2>2. row'.plan <= recorded' /\ row'.decided <= recorded'
    BY <1>4, <1>t DEF Backed
  <2> QED
    BY <1>4, <2>1, <2>2, BackedMeansNext DEF Backed
<1>5. CASE RecordDecision
  <2>1. row' = row /\ alerts' = alerts /\ accepted' = accepted /\ recorded' = recorded + 1
        /\ rebuild' = rebuild
    BY <1>5, Zenon DEF RecordDecision
  <2>2. rebuild # None => rebuild <= recorded + 1
    <3>1. rebuild # None => rebuild \in Nat /\ rebuild <= recorded
      BY DecisionsType DEF Shaped, TypeOK, Backed
    <3> QED
      BY <1>t, <3>1
  <2> QED
    BY <1>4, <1>t, <2>1, <2>2
<1>6. CASE RebuildRead
  <2>1. row' = row /\ alerts' = alerts /\ accepted' = accepted /\ recorded' = recorded
        /\ rebuild' = recorded
    BY <1>6, Zenon DEF RebuildRead
  <2> QED
    BY <1>4, <1>t, <2>1
<1>7. CASE row' = row /\ alerts' = alerts /\ accepted' = accepted /\ recorded' = recorded
           /\ rebuild' = rebuild
  BY <1>4, <1>t, <1>7 DEF Backed
<1>8. CASE \E s \in outbox, ok \in BOOLEAN : Publish(s, ok)
  BY <1>7, <1>8, Zenon DEF Publish
<1>9. CASE PageSteps
  BY <1>7, <1>9, Zenon DEF PageSteps, Retry, Open, ReadSnapshot, MissSnapshot, Subscribe,
     ListenerEnds, Drop, Fail, Throw, PageStep
<1>10. CASE Tick \/ ChangeSession
  BY <1>7, <1>10, Zenon DEF Tick, ChangeSession
<1>11. CASE UNCHANGED vars
  BY <1>7, <1>11 DEF vars
<1> QED
  BY <1>1, <1>2, <1>3, <1>5, <1>6, <1>8, <1>9, <1>10, <1>11, Zenon DEF Next, PageSteps

\* No zone alert is raised on a stale quote, on an unhealthy or unusable plan, or away from
\* the level it speaks of, in whatever order quotes, decisions and rebuilds write the row.
THEOREM AlertsAreBacked == Spec => []ZoneAlertIsBacked
<1>1. Init => Backed
  BY NoneAssumption DEF Init, Backed, ZoneAlertIsBacked
<1>2. Backed => ZoneAlertIsBacked
  BY DEF Backed
<1> QED
  BY <1>1, <1>2, StepBacked, AlwaysShaped, PTL DEF Spec

-----------------------------------------------------------------------------
(* The page.                                                               *)

\* The attempts still counted are those of failures in a row and of one drop before them.
Counted ==
    /\ page.reconnecting => page.phase \in {"waiting", "connecting", "stopped"}
    /\ page.phase \in Connected => page.attempts = 0
    /\ page.attempts <= page.failures + 1
    /\ page.phase = "gave up" => page.failures >= MaxAttempts

\* The steps of the page; all others leave its socket alone.
LEMMA PageKept ==
    ASSUME Shaped, [Next]_vars
    PROVE  \/ PageSteps
           \/ /\ page'.phase = page.phase /\ page'.attempts = page.attempts
              /\ page'.failures = page.failures /\ page'.reconnecting = page.reconnecting
<1>1. CASE UNCHANGED vars
  BY <1>1 DEF vars
<1>2. ASSUME NEW s \in outbox, NEW ok \in BOOLEAN, Publish(s, ok)
      PROVE  /\ page'.phase = page.phase /\ page'.attempts = page.attempts
             /\ page'.failures = page.failures /\ page'.reconnecting = page.reconnecting
  <2> DEFINE shown == [page.shows EXCEPT ![Head(s).kind] = Head(s).n]
             err == page.feedError /\ Head(s).kind # "quote"
  <2>1. page' = page \/ page' = [page EXCEPT !.shows = shown, !.feedError = err]
    BY <1>2, Zenon DEF Publish
  <2> HIDE DEF shown, err
  <2>2. page \in Pages
    BY DEF Shaped, TypeOK
  <2> QED
    BY <2>1, <2>2 DEF Pages
<1>3. CASE \/ \E q \in Quotes : TakeQuote(q)
           \/ RecordDecision \/ ProjectDecision \/ RebuildRead \/ RebuildWrite
           \/ Tick \/ ChangeSession
  BY <1>3, Zenon DEF TakeQuote, RecordDecision, ProjectDecision, RebuildRead, RebuildWrite, Tick,
     ChangeSession
<1> QED
  BY <1>1, <1>2, <1>3, Zenon DEF Next, PageSteps

LEMMA StepCounted == Shaped /\ Counted /\ [Next]_vars => Counted'
<1> SUFFICES ASSUME Shaped, Counted, [Next]_vars PROVE Counted'
  OBVIOUS
<1>p. page \in Pages /\ page.attempts \in Nat /\ page.failures \in Nat
  BY BoundsType DEF Shaped, TypeOK, Pages
<1>n. page'.attempts \in Nat /\ page'.failures \in Nat
  <2>1. Shaped'
    BY StepShaped
  <2> QED
    BY <2>1, BoundsType DEF Shaped, TypeOK, Pages
<1>c. {"waiting", "connecting", "gave up", "stopped"} \cap Connected = {}
  BY DEF Connected
<1>1. CASE Retry
  <2>1. page' = [page EXCEPT !.phase = "connecting"] /\ page.phase = "waiting"
    BY <1>1 DEF Retry, PageStep
  <2>2. page'.phase = "connecting" /\ page'.attempts = page.attempts
        /\ page'.failures = page.failures /\ page'.reconnecting = page.reconnecting
    BY <1>p, <2>1 DEF Pages
  <2> QED
    BY <1>c, <1>p, <2>2 DEF Counted
<1>2. CASE Open
  <2>1. page' = [page EXCEPT !.phase = "open", !.attempts = 0, !.failures = 0,
                             !.reconnecting = FALSE]
    BY <1>2, Zenon DEF Open, PageStep, Opened
  <2>2. page'.phase = "open" /\ page'.attempts = 0 /\ page'.failures = 0 /\ ~page'.reconnecting
    BY <1>p, <2>1 DEF Pages
  <2>3. page'.phase \notin {"waiting", "connecting", "gave up", "stopped"} /\ page'.attempts <= page'.failures + 1
    BY <2>2
  <2> QED
    BY <2>2, <2>3, Zenon DEF Counted
<1>3. CASE \/ ReadSnapshot \/ MissSnapshot \/ ListenerEnds
            \/ \E ok \in BOOLEAN : Subscribe(ok)
  <2>1. page.phase \in Connected /\ page'.phase \in Connected /\ page'.attempts = page.attempts
        /\ page'.failures = page.failures /\ page'.reconnecting = page.reconnecting
    BY <1>3, <1>p DEF ReadSnapshot, MissSnapshot, ListenerEnds, Subscribe, PageStep, Pages, Connected
  <2> QED
    BY <1>c, <1>p, <2>1 DEF Counted, Connected
<1>4. CASE Drop
  <2>1. page' = [Closed EXCEPT !.snapshot = NoSnapshot] /\ page.phase \in Connected
    BY <1>4 DEF Drop, PageStep
  <2>2. page'.phase = Closed.phase /\ page'.attempts = Closed.attempts
        /\ page'.failures = page.failures /\ page'.reconnecting = Closed.reconnecting
    BY <2>1, ClosedShape DEF Shaped, Pages
  <2>3. page.attempts = 0
    BY <2>1 DEF Counted
  <2>4. /\ page'.attempts <= page'.failures + 1
        /\ page'.phase = "gave up" => page'.failures >= MaxAttempts
    <3>1. page'.attempts = 0 \/ page'.attempts = 0 + 1
      BY <2>2, <2>3, ClosedCounts, Zenon DEF Shaped
    <3>2. page'.phase = "gave up" => MaxAttempts = 0
      BY <2>2, <2>3, ClosedCounts, Zenon DEF Shaped
    <3>3. page'.attempts <= page'.failures + 1
      BY <1>n, <3>1
    <3>4. MaxAttempts = 0 => page'.failures >= MaxAttempts
      BY <1>n
    <3> QED
      BY <3>2, <3>3, <3>4, Zenon
  <2>5. page'.phase \notin Connected /\ (page'.reconnecting => page'.phase \in {"waiting", "connecting", "stopped"})
    BY <2>2, ClosedSocket, Zenon DEF Shaped
  <2> QED
    BY <2>4, <2>5, Zenon DEF Counted
<1>5. CASE Fail
  <2> DEFINE f == Closed.failures + 1
  <2>1. page' = [Closed EXCEPT !.failures = f]
    BY <1>5, Zenon DEF Fail, PageStep
  <2> HIDE DEF f
  <2>2. page'.phase = Closed.phase /\ page'.attempts = Closed.attempts
        /\ page'.failures = f /\ page'.reconnecting = Closed.reconnecting
    BY <2>1, ClosedShape DEF Shaped, Pages
  <2>3. f = page.failures + 1
    BY ClosedShape DEF f, Shaped
  <2>4. page.attempts <= page.failures + 1
    BY DEF Counted
  <2>5. /\ page'.attempts <= page'.failures + 1
        /\ page'.phase = "gave up" => page'.failures >= MaxAttempts
    <3>1. /\ page'.attempts \in {page.attempts, page.attempts + 1}
          /\ page'.phase = "gave up" => page.attempts = MaxAttempts
      BY <2>2, ClosedCounts DEF Shaped
    <3>2. page'.failures = page.failures + 1
      BY <2>2, <2>3
    <3>3. page'.attempts <= page'.failures + 1
      <4>1. page'.attempts = page.attempts \/ page'.attempts = page.attempts + 1
        BY <3>1
      <4> QED
        BY <1>n, <1>p, <2>4, <3>2, <4>1
    <3>4. page'.phase = "gave up" => page'.failures >= MaxAttempts
      BY <1>p, <2>4, <3>1, <3>2
    <3> QED
      BY <3>3, <3>4
  <2>6. page'.phase \notin Connected /\ (page'.reconnecting => page'.phase \in {"waiting", "connecting", "stopped"})
    BY <2>2, ClosedSocket, Zenon DEF Shaped
  <2> QED
    BY <2>5, <2>6, Zenon DEF Counted
<1>6. CASE /\ page'.phase = page.phase /\ page'.attempts = page.attempts
           /\ page'.failures = page.failures /\ page'.reconnecting = page.reconnecting
  BY <1>6 DEF Counted
<1>7. CASE Throw
  <2> DEFINE rec == page.reconnecting \/ ~page.closed
  <2>1. page' = [page EXCEPT !.phase = "stopped", !.reconnecting = rec]
    BY <1>7, Zenon DEF Throw, PageStep
  <2> HIDE DEF rec
  <2>2. page'.phase = "stopped" /\ page'.attempts = page.attempts
        /\ page'.failures = page.failures
    BY <1>p, <2>1 DEF Pages
  <2> QED
    BY <1>c, <1>p, <2>2 DEF Counted
<1> QED
  BY <1>1, <1>2, <1>3, <1>4, <1>5, <1>6, <1>7, PageKept, Zenon DEF PageSteps

THEOREM AlwaysCounted == Spec => []Counted
<1>1. Init => Counted
  BY BoundsType DEF Init, Counted, Connected
<1> QED
  BY <1>1, StepCounted, AlwaysShaped, PTL DEF Spec

\* RECONNECTING is shown only while a retry is under way or after a constructor threw, LIVE
\* only on an open socket with a quote.
THEOREM PillTells == Spec => []PillIsTrue
<1>1. Shaped /\ Counted => PillIsTrue
  BY Zenon DEF PillIsTrue, Pill, Counted
<1> QED
  BY <1>1, AlwaysCounted, AlwaysShaped, PTL

\* No number of drops uses a page's attempts up: it gives up only after that many failures in
\* a row.
THEOREM GivesUpOnlyOnFailures == Spec => []GivesUpLate
<1>1. Counted => GivesUpLate
  BY DEF Counted, GivesUpLate
<1> QED
  BY <1>1, AlwaysCounted, PTL

-----------------------------------------------------------------------------
(* What the page was told.                                                 *)

newest == [k \in Kinds |-> IF k = "quote" THEN Len(accepted) ELSE row.decided]

\* The newest event of a kind is published or still to come, and none is newer.
Holds(ob, k, n) == \E s \in ob : \E i \in 1..Len(s) : s[i].kind = k /\ s[i].n = n

Announced ==
    /\ \A k \in Kinds : published[k] <= newest[k]
    /\ \A s \in outbox : \A i \in 1..Len(s) : s[i].n <= newest[s[i].kind]
    /\ \A k \in Kinds : published[k] = newest[k] \/ Holds(outbox, k, newest[k])

\* Unless it lost track of a kind, a page shows the newest event published.  A snapshot may be
\* ahead of the publications.
Told ==
    /\ \A k \in {"signal", "plan"} : k \notin lost => page.shows[k] = published[k]
    /\ page.phase = "read" /\ "quote" \notin lost =>
          published["quote"] <= page.snapshot.quote /\ page.snapshot.quote <= Len(accepted)
    /\ page.phase = "subscribed" /\ "quote" \notin lost =>
          \/ page.shows["quote"] = published["quote"]
          \/ published["quote"] < page.shows["quote"] /\ page.shows["quote"] <= Len(accepted)

LEMMA NewestType == ASSUME Shaped, NEW k \in Kinds PROVE newest[k] \in Nat
<1>1. Len(accepted) \in Nat
  BY LenProperties DEF Shaped, TypeOK
<1>2. row.decided \in Nat
  BY DecisionsType DEF Shaped, TypeOK, Rows
<1> QED
  BY <1>1, <1>2 DEF newest

\* A transaction that commits newer events and puts them all in the outbox.
LEMMA AnnouncedGrows ==
    ASSUME Shaped, Announced, NEW t,
           outbox' = outbox \cup {t}, published' = published,
           \A k \in Kinds : newest'[k] \in Nat /\ newest[k] <= newest'[k],
           \A i \in 1..Len(t) : t[i].n <= newest'[t[i].kind],
           \A k \in Kinds : newest'[k] = newest[k]
                \/ \E i \in 1..Len(t) : t[i].kind = k /\ t[i].n = newest'[k]
    PROVE  Announced'
<1>1. ASSUME NEW k \in Kinds PROVE published'[k] <= newest'[k]
  <2>1. published[k] <= newest[k] /\ published[k] \in Nat
    BY DEF Announced, Shaped, TypeOK
  <2> QED
    BY <2>1, NewestType
<1>2. ASSUME NEW s \in outbox', NEW i \in 1..Len(s) PROVE s[i].n <= newest'[s[i].kind]
  <2>1. CASE s \in outbox
    <3>1. s \in Seq(Events)
      BY <2>1 DEF Shaped, TypeOK
    <3>2. s[i] \in Events
      BY <3>1, ElementOfSeq
    <3>3. s[i].kind \in Kinds /\ s[i].n \in Nat
      BY <3>2 DEF Events
    <3>4. s[i].n <= newest[s[i].kind]
      BY <2>1 DEF Announced
    <3> QED
      BY <3>3, <3>4, NewestType
  <2>2. CASE s = t
    BY <2>2
  <2> QED
    BY <2>1, <2>2
<1>3. ASSUME NEW k \in Kinds PROVE published'[k] = newest'[k] \/ Holds(outbox', k, newest'[k])
  <2>1. CASE newest'[k] = newest[k]
    <3>1. published[k] = newest[k] \/ Holds(outbox, k, newest[k])
      BY DEF Announced
    <3>2. CASE published[k] = newest[k]
      BY <2>1, <3>2
    <3>3. CASE Holds(outbox, k, newest[k])
      <4>1. PICK s \in outbox : \E i \in 1..Len(s) : s[i].kind = k /\ s[i].n = newest[k]
        BY <3>3 DEF Holds
      <4>2. s \in outbox' /\ \E i \in 1..Len(s) : s[i].kind = k /\ s[i].n = newest'[k]
        BY <2>1, <4>1
      <4> QED
        BY <4>2, Zenon DEF Holds
    <3> QED
      BY <3>1, <3>2, <3>3
  <2>2. CASE \E i \in 1..Len(t) : t[i].kind = k /\ t[i].n = newest'[k]
    BY <2>2, Zenon DEF Holds
  <2> QED
    BY <2>1, <2>2
<1> QED
  BY <1>1, <1>2, <1>3, Zenon DEF Announced, Holds

\* Publishing moves an event from the outbox to the published ones.
LEMMA AnnouncedPublish ==
    ASSUME Shaped, Announced, NEW s \in outbox, NEW ok \in BOOLEAN, Publish(s, ok)
    PROVE  Announced'
<1> DEFINE m == Head(s)
           late == m.n < published[m.kind]
<1>1. s \in Seq(Events) /\ s # <<>>
  BY DEF Shaped, TypeOK
<1>2. /\ m = s[1] /\ 1 \in 1..Len(s) /\ Len(s) \in Nat
      /\ Tail(s) \in Seq(Events) /\ Len(Tail(s)) = Len(s) - 1
      /\ \A i \in 1..Len(Tail(s)) : Tail(s)[i] = s[i + 1]
  BY <1>1, HeadTailProperties, LenProperties
<1>3. s[1] \in Events
  BY <1>1, <1>2, ElementOfSeq
<1>4. m.kind \in Kinds /\ m.n \in Nat
  BY <1>2, <1>3 DEF Events
<1>5. outbox' = (outbox \ {s}) \cup (IF Len(s) = 1 THEN {} ELSE {Tail(s)})
  BY Zenon DEF Publish
<1>6. published' = [published EXCEPT ![m.kind] = IF late THEN published[m.kind] ELSE m.n]
  BY Zenon DEF Publish
<1>7. \A k \in Kinds : newest'[k] = newest[k] /\ newest[k] \in Nat
  <2>1. accepted' = accepted /\ row' = row
    BY Zenon DEF Publish
  <2> QED
    BY <2>1, NewestType DEF newest
<1>8. published \in [Kinds -> Nat]
  BY DEF Shaped, TypeOK
<1>9. /\ \A k \in Kinds : k # m.kind => published'[k] = published[k]
      /\ published'[m.kind] = IF late THEN published[m.kind] ELSE m.n
  BY <1>4, <1>6, <1>8
<1>10. m.n <= newest[m.kind]
  BY <1>2 DEF Announced
<1> HIDE DEF m
<1>11. ASSUME NEW k \in Kinds PROVE published'[k] <= newest'[k]
  <2>1. published[k] <= newest[k]
    BY DEF Announced
  <2> QED
    BY <1>7, <1>9, <1>10, <2>1
<1>12. ASSUME NEW t \in outbox', NEW i \in 1..Len(t) PROVE t[i].n <= newest'[t[i].kind]
  <2>1. CASE t \in outbox
    <3>1. t[i].n <= newest[t[i].kind]
      BY <2>1 DEF Announced
    <3>2. t[i].kind \in Kinds
      <4>1. t \in Seq(Events)
        BY <2>1 DEF Shaped, TypeOK
      <4>2. t[i] \in Events
        BY <4>1, ElementOfSeq
      <4> QED
        BY <4>2 DEF Events
    <3> QED
      BY <1>7, <3>1, <3>2
  <2>2. CASE t = Tail(s)
    <3>1. t[i] = s[i + 1] /\ i + 1 \in 1..Len(s)
      BY <1>2, <2>2
    <3>2. s[i + 1].n <= newest[s[i + 1].kind]
      BY <3>1 DEF Announced
    <3>3. s[i + 1].kind \in Kinds
      <4>1. s[i + 1] \in Events
        BY <1>1, <3>1, ElementOfSeq
      <4> QED
        BY <4>1 DEF Events
    <3> QED
      BY <1>7, <3>1, <3>2, <3>3
  <2> QED
    BY <1>5, <2>1, <2>2
<1>13. ASSUME NEW k \in Kinds PROVE published'[k] = newest'[k] \/ Holds(outbox', k, newest'[k])
  <2>1. CASE published[k] = newest[k]
    <3>1. CASE k # m.kind
      BY <1>7, <1>9, <2>1, <3>1
    <3>2. CASE k = m.kind
      <4>1. m.n \in Nat /\ published[m.kind] \in Nat /\ m.n <= published[m.kind]
        BY <1>4, <1>8, <1>10, <2>1, <3>2
      <4>2. published'[m.kind] = published[m.kind]
        BY <1>9, <4>1
      <4> QED
        BY <1>7, <2>1, <3>2, <4>2
    <3> QED
      BY <3>1, <3>2
  <2>2. ASSUME NEW t \in outbox, NEW i \in 1..Len(t), t[i].kind = k, t[i].n = newest[k]
        PROVE  published'[k] = newest'[k] \/ Holds(outbox', k, newest'[k])
    <3>1. CASE t # s
      <4>1. t \in outbox'
        BY <1>5, <3>1
      <4> QED
        BY <1>7, <2>2, <4>1, Zenon DEF Holds
    <3>2. CASE t = s /\ i = 1
      <4>1. m.kind = k /\ m.n = newest[k]
        BY <1>2, <2>2, <3>2
      <4>2. published[k] <= newest[k] /\ published[k] \in Nat
        BY <1>8 DEF Announced
      <4> QED
        BY <1>7, <1>9, <4>1, <4>2
    <3>3. CASE t = s /\ i # 1
      <4> DEFINE j == i - 1
      <4>1. j \in 1..Len(Tail(s)) /\ Len(s) # 1 /\ j + 1 = i
        BY <1>2, <3>3
      <4> HIDE DEF j
      <4>2. Tail(s)[j] = s[i]
        BY <1>2, <4>1
      <4>3. Tail(s) \in outbox'
        BY <1>5, <4>1
      <4>4. Tail(s)[j].kind = k /\ Tail(s)[j].n = newest'[k]
        BY <1>7, <2>2, <3>3, <4>2
      <4> QED
        BY <4>1, <4>3, <4>4, Zenon DEF Holds
    <3> QED
      BY <3>1, <3>2, <3>3
  <2>3. published[k] = newest[k] \/ Holds(outbox, k, newest[k])
    BY DEF Announced
  <2> QED
    BY <2>1, <2>2, <2>3, Zenon DEF Holds
<1> QED
  BY <1>11, <1>12, <1>13, Zenon DEF Announced, Holds

LEMMA StepAnnounced == Shaped /\ Announced /\ [Next]_vars => Announced'
<1> SUFFICES ASSUME Shaped, Announced, [Next]_vars PROVE Announced'
  OBVIOUS
<1>1. ASSUME NEW q \in Quotes, TakeQuote(q) PROVE Announced'
  <2> DEFINE e == [q |-> q, stale |-> IsStale(q)]
             n == Len(accepted) + 1
             t == <<[kind |-> "quote", n |-> n]>>
  <2>1. accepted' = Append(accepted, e) /\ published' = published /\ outbox' = outbox \cup {t}
    BY <1>1, Zenon DEF TakeQuote, QuoteEvents
  <2>2. row'.decided = row.decided
    BY <1>1, QuoteRow
  <2>3. Len(accepted') = n
    <3>1. accepted \in Seq([q: Quotes, stale: BOOLEAN]) /\ e \in [q: Quotes, stale: BOOLEAN]
      BY StaleType DEF Shaped, TypeOK
    <3> HIDE DEF e
    <3> QED
      BY <2>1, <3>1, AppendProperties
  <2>4. \A k \in Kinds : newest'[k] = IF k = "quote" THEN n ELSE newest[k]
    BY <2>2, <2>3 DEF newest
  <2>5. \A k \in Kinds : newest'[k] \in Nat /\ newest[k] <= newest'[k]
    BY <2>4, NewestType DEF newest
  <2>6. Len(t) = 1 /\ t[1].kind = "quote" /\ t[1].n = n /\ n \in Nat
    BY LenProperties DEF Shaped, TypeOK
  <2> HIDE DEF t, n
  <2>7. \A i \in 1..Len(t) : t[i].n <= newest'[t[i].kind]
    BY <2>4, <2>6 DEF Kinds
  <2>8. \A k \in Kinds : newest'[k] = newest[k]
           \/ \E i \in 1..Len(t) : t[i].kind = k /\ t[i].n = newest'[k]
    BY <2>4, <2>6
  <2> QED
    BY <2>1, <2>5, <2>7, <2>8, AnnouncedGrows
<1>2. CASE ProjectDecision
  <2> DEFINE d == row.decided + 1
             t == <<[kind |-> "signal", n |-> d], [kind |-> "plan", n |-> d]>>
  <2>1. accepted' = accepted /\ published' = published /\ outbox' = outbox \cup {t}
    BY <1>2, Zenon DEF ProjectDecision, DecisionEvents
  <2>2. row'.decided = d
    BY <1>2, DecidedRow
  <2>3. row.decided \in Nat
    BY DecisionsType DEF Shaped, TypeOK, Rows
  <2>4. \A k \in Kinds : newest'[k] = IF k = "quote" THEN newest[k] ELSE d
    BY <2>1, <2>2 DEF newest
  <2>5. \A k \in Kinds : newest'[k] \in Nat /\ newest[k] <= newest'[k]
    BY <2>3, <2>4, NewestType DEF newest
  <2>6. /\ Len(t) = 2 /\ t[1].kind = "signal" /\ t[1].n = d
        /\ t[2].kind = "plan" /\ t[2].n = d /\ d \in Nat
    BY <2>3
  <2> HIDE DEF t, d
  <2>7. \A i \in 1..Len(t) : t[i].n <= newest'[t[i].kind]
    BY <2>4, <2>6 DEF Kinds
  <2>8. \A k \in Kinds : newest'[k] = newest[k]
           \/ \E i \in 1..Len(t) : t[i].kind = k /\ t[i].n = newest'[k]
    <3>1. 1 \in 1..Len(t) /\ 2 \in 1..Len(t)
      BY <2>6
    <3> QED
      BY <2>4, <2>6, <3>1 DEF Kinds
  <2> QED
    BY <2>1, <2>5, <2>7, <2>8, AnnouncedGrows
<1>3. ASSUME accepted' = accepted, row'.decided = row.decided, outbox' = outbox,
             published' = published
      PROVE  Announced'
  <2>1. newest' = newest
    BY <1>3 DEF newest
  <2> QED
    BY <1>3, <2>1, Zenon DEF Announced, Holds
<1>4. CASE \E s \in outbox, ok \in BOOLEAN : Publish(s, ok)
  BY <1>4, AnnouncedPublish
<1>5. CASE RebuildWrite
  BY <1>3, <1>5, RebuiltRowKeeps DEF RebuildWrite
<1>6. CASE RecordDecision \/ RebuildRead \/ Tick \/ ChangeSession
  BY <1>3, <1>6, Zenon DEF RecordDecision, RebuildRead, Tick, ChangeSession
<1>7. CASE PageSteps
  BY <1>3, <1>7, Zenon DEF PageSteps, Retry, Open, ReadSnapshot, MissSnapshot, Subscribe,
     ListenerEnds, Drop, Fail, Throw, PageStep
<1>8. CASE UNCHANGED vars
  BY <1>3, <1>8 DEF vars
<1> QED
  BY <1>1, <1>2, <1>4, <1>5, <1>6, <1>7, <1>8, Zenon DEF Next, PageSteps

THEOREM AlwaysAnnounced == Spec => []Announced
<1>1. Init => Announced
  BY DEF Init, Announced, newest, Holds
<1> QED
  BY <1>1, StepAnnounced, AlwaysShaped, PTL DEF Spec

\* What the page goes by when an event of kind k is published.
LEMMA ToldPublish ==
    ASSUME Shaped, Announced, Told, NEW s \in outbox, NEW ok \in BOOLEAN, Publish(s, ok)
    PROVE  Told'
<1> DEFINE m == Head(s)
           late == m.n < published[m.kind]
           got == ok /\ page.phase = "subscribed"
           covered == m.kind = "quote" /\ page.phase = "read" /\ m.n <= page.snapshot.quote
           missed == ~got /\ ~late /\ ~covered
           shown == [page.shows EXCEPT ![m.kind] = m.n]
           err == page.feedError /\ m.kind # "quote"
<1>1. m \in Events
  <2>1. s \in Seq(Events) /\ s # <<>>
    BY DEF Shaped, TypeOK
  <2> QED
    BY <2>1, HeadTailProperties
<1>2. m.kind \in Kinds /\ m.n \in Nat /\ published \in [Kinds -> Nat]
      /\ page \in Pages /\ page.shows \in [Kinds -> Nat] /\ page.snapshot.quote \in Nat
  BY <1>1 DEF Events, Shaped, TypeOK, Pages
<1>3. published' = [published EXCEPT ![m.kind] = IF late THEN published[m.kind] ELSE m.n]
  BY Zenon DEF Publish
<1>4. page' = IF got THEN [page EXCEPT !.shows = shown, !.feedError = err] ELSE page
  BY Zenon DEF Publish
<1>5. lost' = IF missed \/ (got /\ late) THEN lost \cup {m.kind}
              ELSE IF got THEN lost \ {m.kind} ELSE lost
  BY Zenon DEF Publish
<1>6. accepted' = accepted
  BY Zenon DEF Publish
<1>7. m.n <= newest[m.kind] /\ (m.kind = "quote" => newest[m.kind] = Len(accepted))
  <2>1. m = s[1] /\ 1 \in 1..Len(s)
    <3>1. s \in Seq(Events) /\ s # <<>>
      BY DEF Shaped, TypeOK
    <3> QED
      BY <3>1, HeadTailProperties, LenProperties
  <2> HIDE DEF m
  <2> QED
    BY <1>2, <2>1 DEF Announced, newest
<1>8. Len(accepted) \in Nat
  BY LenProperties DEF Shaped, TypeOK
<1> HIDE DEF m, shown, err
<1>9. /\ \A k \in Kinds : k # m.kind => published'[k] = published[k]
      /\ published'[m.kind] = IF late THEN published[m.kind] ELSE m.n
  BY <1>2, <1>3
<1>10. /\ page'.phase = page.phase /\ page'.snapshot = page.snapshot
       /\ page'.shows = IF got THEN shown ELSE page.shows
  <2>1. shown \in [Kinds -> Nat]
    BY <1>2 DEF shown
  <2>2. CASE got
    <3>1. page' = [page EXCEPT !.shows = shown, !.feedError = err]
      BY <1>4, <2>2
    <3> QED
      BY <1>2, <2>2, <3>1 DEF Pages
  <2>3. CASE ~got
    BY <1>4, <2>3
  <2> QED
    BY <2>2, <2>3
<1>11. \A k \in Kinds : page'.shows[k] = IF got /\ k = m.kind THEN m.n ELSE page.shows[k]
  <2>1. \A k \in Kinds : shown[k] = IF k = m.kind THEN m.n ELSE page.shows[k]
    BY <1>2 DEF shown
  <2> QED
    BY <1>10, <2>1
<1>12. \A k : k # m.kind => (k \in lost' <=> k \in lost)
  BY <1>5
<1>13. m.kind \notin lost' =>
          \/ got /\ ~late
          \/ ~got /\ late /\ m.kind \notin lost
          \/ ~got /\ ~late /\ covered /\ m.kind \notin lost
  BY <1>5
<1> HIDE DEF late, got, covered, missed
<1>14. ASSUME NEW k \in {"signal", "plan"}, k \notin lost' PROVE page'.shows[k] = published'[k]
  <2>1. k \in Kinds
    BY DEF Kinds
  <2>2. CASE k # m.kind
    BY <1>9, <1>11, <1>12, <1>14, <2>1, <2>2 DEF Told
  <2>3. CASE k = m.kind /\ got /\ ~late
    BY <1>9, <1>11, <2>1, <2>3
  <2>4. CASE k = m.kind /\ ~got /\ late /\ m.kind \notin lost
    BY <1>9, <1>11, <2>1, <2>4 DEF Told
  <2>5. k = m.kind => ~covered
    BY DEF covered
  <2> QED
    BY <1>13, <1>14, <2>2, <2>3, <2>4, <2>5
<1>q. "quote" \in Kinds
  BY DEF Kinds
<1>15. ASSUME page'.phase = "read", "quote" \notin lost'
       PROVE  /\ published'["quote"] <= page'.snapshot.quote
              /\ page'.snapshot.quote <= Len(accepted')
  <2>1. page.phase = "read" /\ page'.snapshot = page.snapshot /\ ~got
    BY <1>10, <1>15 DEF got
  <2>2. CASE "quote" # m.kind
    BY <1>6, <1>9, <1>12, <1>15, <1>q, <2>1, <2>2 DEF Told
  <2>3. CASE "quote" = m.kind /\ late /\ m.kind \notin lost
    BY <1>6, <1>9, <2>1, <2>3 DEF Told
  <2>4. CASE "quote" = m.kind /\ ~late /\ covered /\ m.kind \notin lost
    BY <1>6, <1>9, <2>1, <2>4 DEF Told, covered
  <2> QED
    BY <1>13, <1>15, <2>1, <2>2, <2>3, <2>4
<1>16. ASSUME page'.phase = "subscribed", "quote" \notin lost'
       PROVE  \/ page'.shows["quote"] = published'["quote"]
              \/ /\ published'["quote"] < page'.shows["quote"]
                 /\ page'.shows["quote"] <= Len(accepted')
  <2>1. page.phase = "subscribed" /\ ~covered
    BY <1>10, <1>16 DEF covered
  <2>2. CASE "quote" # m.kind
    BY <1>6, <1>9, <1>11, <1>12, <1>16, <1>q, <2>1, <2>2 DEF Told
  <2>3. CASE "quote" = m.kind /\ got /\ ~late
    BY <1>9, <1>11, <1>q, <2>3
  <2>4. CASE "quote" = m.kind /\ ~got /\ late /\ m.kind \notin lost
    BY <1>6, <1>9, <1>11, <1>q, <2>1, <2>4 DEF Told
  <2> QED
    BY <1>13, <1>16, <2>1, <2>2, <2>3, <2>4
<1> QED
  BY <1>14, <1>15, <1>16, Zenon DEF Told

LEMMA StepTold == Shaped /\ Announced /\ Told /\ [Next]_vars => Told'
<1> SUFFICES ASSUME Shaped, Announced, Told, [Next]_vars PROVE Told'
  OBVIOUS
<1>p. page \in Pages
  BY DEF Shaped, TypeOK
<1>1. ASSUME page' = page, published' = published, lost' = lost,
             Len(accepted') \in Nat, Len(accepted) <= Len(accepted')
      PROVE  Told'
  <2>1. page.snapshot.quote \in Nat /\ page.shows["quote"] \in Nat /\ Len(accepted) \in Nat
    BY <1>p, LenProperties DEF Pages, Kinds, Shaped, TypeOK
  <2>2. page.snapshot.quote <= Len(accepted) => page.snapshot.quote <= Len(accepted')
    BY <1>1, <2>1
  <2>3. page.shows["quote"] <= Len(accepted) => page.shows["quote"] <= Len(accepted')
    BY <1>1, <2>1
  <2> QED
    BY <1>1, <2>2, <2>3, Zenon DEF Told
<1>l. Len(accepted) \in Nat /\ Len(accepted) <= Len(accepted)
  BY LenProperties DEF Shaped, TypeOK
<1>2. ASSUME NEW q \in Quotes, TakeQuote(q) PROVE Told'
  <2> DEFINE e == [q |-> q, stale |-> IsStale(q)]
  <2>1. accepted' = Append(accepted, e) /\ page' = page /\ published' = published /\ lost' = lost
    BY <1>2, Zenon DEF TakeQuote
  <2>2. Len(accepted') = Len(accepted) + 1
    <3>1. accepted \in Seq([q: Quotes, stale: BOOLEAN]) /\ e \in [q: Quotes, stale: BOOLEAN]
      BY StaleType DEF Shaped, TypeOK
    <3> HIDE DEF e
    <3> QED
      BY <2>1, <3>1, AppendProperties
  <2> QED
    BY <1>1, <1>l, <2>1, <2>2
<1>3. CASE RecordDecision \/ ProjectDecision \/ RebuildRead \/ RebuildWrite \/ Tick \/ ChangeSession
  <2>1. accepted' = accepted /\ page' = page /\ published' = published /\ lost' = lost
    BY <1>3, Zenon DEF RecordDecision, ProjectDecision, RebuildRead, RebuildWrite, Tick,
       ChangeSession
  <2> QED
    BY <1>1, <1>l, <2>1
<1>4. CASE \E s \in outbox, ok \in BOOLEAN : Publish(s, ok)
  BY <1>4, ToldPublish
<1>5. ASSUME page'.shows = page.shows, published' = published, lost' = lost, accepted' = accepted,
             page'.phase \notin {"read", "subscribed"}
      PROVE  Told'
  BY <1>5, Zenon DEF Told
<1>6. CASE Retry
  <2>1. page' = [page EXCEPT !.phase = "connecting"]
    BY <1>6 DEF Retry, PageStep
  <2>2. page'.shows = page.shows /\ page'.phase = "connecting"
    BY <1>p, <2>1 DEF Pages
  <2>3. published' = published /\ lost' = lost /\ accepted' = accepted
    BY <1>6, Zenon DEF Retry, PageStep
  <2> QED
    BY <1>5, <2>2, <2>3
<1>7. CASE Open
  <2>1. page' = [page EXCEPT !.phase = "open", !.attempts = 0, !.failures = 0,
                             !.reconnecting = FALSE]
    BY <1>7, Zenon DEF Open, PageStep, Opened
  <2>2. page'.shows = page.shows /\ page'.phase = "open"
    BY <1>p, <2>1 DEF Pages
  <2>3. published' = published /\ lost' = lost /\ accepted' = accepted
    BY <1>7, Zenon DEF Open, PageStep
  <2> QED
    BY <1>5, <2>2, <2>3
<1>8. CASE ReadSnapshot
  <2> DEFINE snap == [quote |-> Len(accepted),
                      fault |-> row.plan # 0 /\ ~Decision(row.plan).healthy,
                      closed |-> closed]
  <2>1. page' = [page EXCEPT !.phase = "read", !.snapshot = snap]
    BY <1>8, Zenon DEF ReadSnapshot, PageStep
  <2>2. snap.quote = Len(accepted)
    OBVIOUS
  <2> HIDE DEF snap
  <2>3. page'.shows = page.shows /\ page'.phase = "read" /\ page'.snapshot = snap
    BY <1>p, <2>1 DEF Pages
  <2>4. published' = published /\ lost' = lost \ {"quote"} /\ accepted' = accepted
    BY <1>8, Zenon DEF ReadSnapshot, PageStep
  <2>5. published["quote"] <= Len(accepted)
    BY DEF Announced, newest, Kinds
  <2>6. \A k \in {"signal", "plan"} : k \in lost' <=> k \in lost
    BY <2>4
  <2>7. page'.snapshot.quote = Len(accepted')
    BY <2>2, <2>3, <2>4
  <2>8. page'.snapshot.quote <= Len(accepted') /\ published'["quote"] <= page'.snapshot.quote
    BY <1>l, <2>4, <2>5, <2>7
  <2> QED
    BY <2>3, <2>4, <2>6, <2>8 DEF Told
<1>9. ASSUME NEW ok \in BOOLEAN, Subscribe(ok) PROVE Told'
  <2> DEFINE shown == [page.shows EXCEPT !["quote"] = page.snapshot.quote]
             next == IF ok THEN "subscribed" ELSE "deaf"
  <2>1. page' = [page EXCEPT !.phase = next, !.snapshot = NoSnapshot,
                             !.closed = page.snapshot.closed, !.fault = page.snapshot.fault,
                             !.shows = shown]
    BY <1>9, Zenon DEF Subscribe, PageStep
  <2>2. shown["quote"] = page.snapshot.quote
        /\ \A k \in {"signal", "plan"} : shown[k] = page.shows[k]
    BY <1>p DEF Pages, Kinds
  <2>7. next # "read"
    OBVIOUS
  <2> HIDE DEF shown, next
  <2>3. page'.shows = shown /\ page'.phase = next
    BY <1>p, <2>1 DEF Pages
  <2>4. published' = published /\ lost' = lost /\ accepted' = accepted /\ page.phase = "read"
    BY <1>9, Zenon DEF Subscribe, PageStep
  <2>5. published["quote"] \in Nat /\ page.snapshot.quote \in Nat
    BY <1>p DEF Shaped, TypeOK, Pages, Kinds
  <2>6. "quote" \notin lost =>
          \/ page.snapshot.quote = published["quote"]
          \/ published["quote"] < page.snapshot.quote /\ page.snapshot.quote <= Len(accepted)
    BY <1>l, <2>4, <2>5 DEF Told
  <2> QED
    BY <2>2, <2>3, <2>4, <2>6, <2>7 DEF Told
<1>13. CASE MissSnapshot
  <2> DEFINE snap == [quote |-> page.shows["quote"], fault |-> page.fault,
                      closed |-> page.closed]
  <2>1. page' = [page EXCEPT !.phase = "read", !.snapshot = snap]
    BY <1>13, Zenon DEF MissSnapshot, PageStep
  <2> HIDE DEF snap
  <2>2. page'.shows = page.shows /\ page'.phase = "read"
    BY <1>p, <2>1 DEF Pages
  <2>3. published' = published /\ lost' = lost \cup {"quote"}
    BY <1>13, Zenon DEF MissSnapshot, PageStep
  <2>4. "quote" \in lost' /\ \A k \in {"signal", "plan"} : k \in lost' <=> k \in lost
    BY <2>3
  <2> QED
    BY <2>2, <2>3, <2>4 DEF Told
<1>14. CASE ListenerEnds
  <2>1. page' = [page EXCEPT !.phase = "deaf"]
    BY <1>14, Zenon DEF ListenerEnds, PageStep
  <2>2. page'.shows = page.shows /\ page'.phase = "deaf"
    BY <1>p, <2>1 DEF Pages
  <2>3. published' = published /\ lost' = lost /\ accepted' = accepted
    BY <1>14, Zenon DEF ListenerEnds, PageStep
  <2> QED
    BY <1>5, <2>2, <2>3
<1>15. CASE Throw
  <2> DEFINE rec == page.reconnecting \/ ~page.closed
  <2>1. page' = [page EXCEPT !.phase = "stopped", !.reconnecting = rec]
    BY <1>15, Zenon DEF Throw, PageStep
  <2> HIDE DEF rec
  <2>2. page'.shows = page.shows /\ page'.phase = "stopped"
    BY <1>p, <2>1 DEF Pages
  <2>3. published' = published /\ lost' = lost /\ accepted' = accepted
    BY <1>15, Zenon DEF Throw, PageStep
  <2> QED
    BY <1>5, <2>2, <2>3
<1>10. CASE Drop
  <2>1. page' = [Closed EXCEPT !.snapshot = NoSnapshot]
    BY <1>10 DEF Drop, PageStep
  <2>2. page'.shows = page.shows /\ page'.phase = Closed.phase
    BY <2>1, ClosedShape DEF Shaped, Pages
  <2>3. published' = published /\ lost' = lost /\ accepted' = accepted
    BY <1>10, Zenon DEF Drop, PageStep
  <2>4. Closed.phase \notin {"read", "subscribed"}
    BY ClosedSocket DEF Shaped, Connected
  <2> QED
    BY <1>5, <2>2, <2>3, <2>4
<1>11. CASE Fail
  <2> DEFINE f == Closed.failures + 1
  <2>1. page' = [Closed EXCEPT !.failures = f]
    BY <1>11, Zenon DEF Fail, PageStep
  <2> HIDE DEF f
  <2>2. page'.shows = page.shows /\ page'.phase = Closed.phase
    BY <2>1, ClosedShape DEF Shaped, Pages
  <2>3. published' = published /\ lost' = lost /\ accepted' = accepted
    BY <1>11, Zenon DEF Fail, PageStep
  <2>4. Closed.phase \notin {"read", "subscribed"}
    BY ClosedSocket DEF Shaped, Connected
  <2> QED
    BY <1>5, <2>2, <2>3, <2>4
<1>12. CASE UNCHANGED vars
  BY <1>1, <1>l, <1>12 DEF vars
<1> QED
  BY <1>2, <1>3, <1>4, <1>6, <1>7, <1>8, <1>9, <1>10, <1>11, <1>12, <1>13, <1>14, <1>15,
     Zenon DEF Next

\* A page that is subscribed and has nothing more to come shows the newest quote, signal and
\* plan, unless it missed the newest event of the kind or saw events out of order.
THEOREM QuietPagesConverge == Spec => []ConvergesWhenQuiet
<1>1. Init => Told
  BY DEF Init, Told, Kinds
<1>2. Shaped /\ Announced /\ Told => ConvergesWhenQuiet
  <2> SUFFICES ASSUME Shaped, Announced, Told, page.phase = "subscribed", outbox = {}
               PROVE  ConvergesWhenQuiet
    BY DEF ConvergesWhenQuiet
  <2>1. \A k \in Kinds : published[k] = newest[k]
    BY DEF Announced, Holds
  <2>2. published["quote"] = Len(accepted) /\ published["signal"] = row.decided
        /\ published["plan"] = row.decided
    BY <2>1 DEF newest, Kinds
  <2>3. Len(accepted) \in Nat /\ page.shows["quote"] \in Nat
    BY LenProperties DEF Shaped, TypeOK, Pages, Kinds
  <2>4. "quote" \notin lost => page.shows["quote"] = Len(accepted)
    BY <2>2, <2>3 DEF Told
  <2> QED
    BY <2>2, <2>4 DEF Told, ConvergesWhenQuiet
<1> QED
  BY <1>1, <1>2, StepTold, AlwaysAnnounced, AlwaysShaped, PTL DEF Spec
=============================================================================
