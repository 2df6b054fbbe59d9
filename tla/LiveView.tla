------------------------------ MODULE LiveView ------------------------------
(***************************************************************************)
(* The live view of XAUUSD: the one LiveMonitorState row, which quote      *)
(* tasks (LiveQuoteService.process_quote), decision tasks and dashboard    *)
(* requests (reconstruct_xauusd_state) write under its row lock; the       *)
(* typed events each writer publishes after its commit; the WebSocket      *)
(* consumer, which sends a snapshot of the row and then subscribes; and    *)
(* the dashboard page with its reconnect logic.                            *)
(*                                                                         *)
(* A transaction on the row is one step.  Its events are published one by  *)
(* one afterwards, so those of two processes may overtake one another.  A  *)
(* subscribed page receives an event as it is published: the socket keeps  *)
(* the order, and what is under way when it closes is lost with it.        *)
(***************************************************************************)
EXTENDS Naturals, Sequences, FiniteSets

CONSTANTS
    Quotes,        \* quote events: [seq, ts, bid, ask], seq a number or None
    Decisions,     \* decisions in order: [side, lo, hi, stop, usable, healthy, gated]
    StaleAfter,    \* XAUUSD_QUOTE_STALE_SECONDS
    Skew,          \* XAUUSD_QUOTE_FUTURE_SKEW_SECONDS
    MaxAttempts,   \* maxReconnectAttempts of the page
    MaxClock,      \* bound: ticks of the clock
    MaxEvents,     \* bound: quotes and decisions together
    MaxTroubles,   \* bound: drops, failed attempts, snapshots, listeners and publications,
                   \* rebuilds and market openings or closings together
    None           \* SQL NULL

ASSUME BoundsAssumption ==
    {StaleAfter, Skew, MaxAttempts, MaxClock, MaxEvents, MaxTroubles} \subseteq Nat
ASSUME QuotesAssumption ==
    Quotes \subseteq [seq: Nat \cup {None}, ts: Nat, bid: Nat \ {0}, ask: Nat \ {0}]
ASSUME DecisionsAssumption ==
    Decisions \in Seq([side: {"LONG", "SHORT", None}, lo: Nat, hi: Nat, stop: Nat,
                       usable: BOOLEAN, healthy: BOOLEAN, gated: BOOLEAN])
ASSUME NoneAssumption == None \notin Nat

\* The row before any decision: no plan, feed health never written.
NoDecision == [side |-> None, lo |-> 0, hi |-> 0, stop |-> 0,
               usable |-> FALSE, healthy |-> FALSE, gated |-> FALSE]

VARIABLES
    clock,      \* datetime.now
    closed,     \* governed market closure
    troubles,   \* history: disturbances so far
    accepted,   \* history: the quotes the row took, with their freshness when taken
    row,        \* LiveMonitorState
    recorded,   \* decisions saved as SignalRecord and LiveRiskPlanRecord
    rebuild,    \* a request inside reconstruct_xauusd_state: the decision it read
    rebuilt,    \* history: a rebuild is the row's last write
    alerts,     \* AlertEvent rows: [type, of]
    incident,   \* history: LIVE_DATA_STALE alerts since the last fresh quote
    outbox,     \* events committed and not yet published, one sequence per transaction
    published,  \* history: newest event of each kind published
    page,       \* the dashboard page and its socket
    lost        \* history: kinds whose newest event the page missed or got out of order

vars == <<clock, closed, troubles, accepted, row, recorded, rebuild, rebuilt, alerts, incident,
          outbox, published, page, lost>>

Kinds == {"quote", "signal", "plan"}
Zones == {"none", "inside", "above", "below"}
\* A socket: waiting for the retry timer, opening, accepted, snapshot read, subscribed,
\* without its listener; or no socket and no timer, after the limit or after an exception.
Connected == {"open", "read", "subscribed", "deaf"}
Phases == {"waiting", "connecting", "gave up", "stopped"} \cup Connected

Decision(d) == IF d = 0 THEN NoDecision ELSE Decisions[d]

NoSnapshot == [quote |-> 0, fault |-> FALSE, closed |-> FALSE]

Init ==
    /\ clock = 0
    /\ closed = FALSE
    /\ troubles = 0
    /\ accepted = <<>>
    /\ row = [seq |-> None, ts |-> None, bid |-> None, ask |-> None, stale |-> FALSE,
              zone |-> "none", signal |-> 0, plan |-> 0, decided |-> 0,
              staleOpen |-> FALSE, sickOpen |-> FALSE]
    /\ recorded = 0
    /\ rebuild = None
    /\ rebuilt = FALSE
    /\ alerts = {}
    /\ incident = 0
    /\ outbox = {}
    /\ published = [k \in Kinds |-> 0]
    /\ page = [phase |-> "connecting", attempts |-> 0, failures |-> 0,
               reconnecting |-> FALSE, feedError |-> FALSE, snapshot |-> NoSnapshot,
               closed |-> FALSE, fault |-> FALSE, shows |-> [k \in Kinds |-> 0]]
    /\ lost = {}

-----------------------------------------------------------------------------
Trouble ==
    /\ troubles < MaxTroubles
    /\ troubles' = troubles + 1

(* Quotes. *)

\* Sequence numbers decide when both have one, source times otherwise.
Ignored(q) ==
    IF q.seq # None /\ row.seq # None
    THEN q.seq <= row.seq
    ELSE row.ts # None /\ q.ts < row.ts

Skewed(q) == q.ts > clock + Skew
IsStale(q) == Skewed(q) \/ clock > q.ts + StaleAfter

\* LONG buys at the ask, SHORT sells at the bid.
Price(side, bid, ask) == IF side = "LONG" THEN ask ELSE bid

Zone(d, bid, ask) ==
    LET p == Price(d.side, bid, ask)
    IN IF ~d.usable \/ d.side \notin {"LONG", "SHORT"} \/ bid = None THEN "none"
       ELSE IF p < d.lo THEN "below"
       ELSE IF p > d.hi THEN "above" ELSE "inside"

Invalidates(d, q) ==
    \/ d.side = "LONG" /\ q.bid <= d.stop
    \/ d.side = "SHORT" /\ q.ask >= d.stop

\* Incident alerts are keyed by the quote's time and raised when an incident opens.
IncidentAlerts(q) ==
    {a \in [type: {"stale", "unhealthy"}, of: {q.ts}]:
        IF a.type = "stale"
        THEN IsStale(q) /\ ~row.staleOpen
        ELSE ~Decision(row.plan).healthy /\ ~row.sickOpen}

\* Zone alerts are keyed by the decision and its plan.
ZoneAlertsOfStale(q) ==
    LET d == Decision(row.plan)
    IN {a \in [type: {"entry", "invalidated"}, of: {row.plan}]:
          /\ d.usable /\ d.healthy /\ ~Decision(row.signal).gated
          /\ IF a.type = "entry" THEN Zone(d, q.bid, q.ask) = "inside" ELSE Invalidates(d, q)}

ZoneAlerts(q) ==
    LET d == Decision(row.plan)
    IN {a \in [type: {"entry", "invalidated"}, of: {row.plan}]:
          /\ ~IsStale(q) /\ d.healthy /\ ~Decision(row.signal).gated
          /\ d.usable
          /\ IF a.type = "entry" THEN Zone(d, q.bid, q.ask) = "inside" ELSE Invalidates(d, q)}

QuoteEventsIfFresh(q) ==
    IF IsStale(q) THEN {} ELSE {<<[kind |-> "quote", n |-> Len(accepted) + 1]>>}

QuoteEvents(q) == {<<[kind |-> "quote", n |-> Len(accepted) + 1]>>}

MoreEvents == Len(accepted) + recorded < MaxEvents

\* process_quote: one transaction under the row lock.  A quote arrives once, at any time
\* from its source time less any skew, in any order with the others.
TakeQuote(q) ==
    /\ MoreEvents
    /\ ~\E i \in 1..Len(accepted): accepted[i].q = q
    /\ ~Ignored(q)
    /\ LET new == {a \in IncidentAlerts(q) \cup ZoneAlerts(q): a \notin alerts}
       IN /\ alerts' = alerts \cup new
          /\ incident' = IF IsStale(q)
                         THEN incident + Cardinality({a \in new: a.type = "stale"})
                         ELSE 0
    /\ accepted' = Append(accepted, [q |-> q, stale |-> IsStale(q)])
    /\ row' = [row EXCEPT !.seq = q.seq, !.ts = q.ts, !.bid = q.bid, !.ask = q.ask,
                          !.stale = IsStale(q),
                          !.zone = Zone(Decision(row.plan), q.bid, q.ask),
                          !.staleOpen = IsStale(q),
                          !.sickOpen = ~Decision(row.plan).healthy]
    /\ rebuilt' = FALSE
    /\ outbox' = outbox \cup QuoteEvents(q)
    /\ UNCHANGED <<clock, closed, troubles, recorded, rebuild, published, page, lost>>

-----------------------------------------------------------------------------
(* Decisions and rebuilds. *)

\* The signal and its plan are saved before the row's transaction begins.
RecordDecision ==
    /\ MoreEvents
    /\ recorded < Len(Decisions)
    /\ recorded' = recorded + 1
    /\ UNCHANGED <<clock, closed, troubles, accepted, row, rebuild, rebuilt, alerts, incident,
                   outbox, published, page, lost>>

DecisionEvents(d) == {<<[kind |-> "signal", n |-> d], [kind |-> "plan", n |-> d]>>}

DecidedZoneKept(d) == row.zone
DecidedZone(d) == Zone(Decision(d), row.bid, row.ask)

\* Steps 10-12 of process_closed_candle: the decision-owned fields, the zone of the new
\* plan at the quote the row holds, and two events.
ProjectDecision ==
    /\ row.decided < recorded
    /\ LET d == row.decided + 1
       IN /\ row' = [row EXCEPT !.signal = d, !.plan = d, !.decided = d,
                                !.zone = DecidedZone(d)]
          /\ outbox' = outbox \cup DecisionEvents(d)
    /\ rebuilt' = FALSE
    /\ UNCHANGED <<clock, closed, troubles, accepted, recorded, rebuild, alerts, incident,
                   published, page, lost>>

\* reconstruct_xauusd_state reads the newest records before it takes the lock.
RebuildRead ==
    /\ rebuild = None
    /\ Trouble
    /\ rebuild' = recorded
    /\ UNCHANGED <<clock, closed, accepted, row, recorded, rebuilt, alerts, incident,
                   outbox, published, page, lost>>

RebuiltRowForgetting(d) ==
    [row EXCEPT !.signal = IF d = 0 THEN @ ELSE d, !.plan = d,
                !.staleOpen = FALSE, !.sickOpen = FALSE]

\* No signal leaves the signal's fields alone; no plan clears the plan's.  The incident
\* flags and the zone stay, and nothing is published.
RebuiltRow(d) == [row EXCEPT !.signal = IF d = 0 THEN @ ELSE d, !.plan = d]

RebuildWrite ==
    /\ rebuild # None
    /\ row' = RebuiltRow(rebuild)
    /\ rebuild' = None
    /\ rebuilt' = TRUE
    /\ UNCHANGED <<clock, closed, troubles, accepted, recorded, alerts, incident, outbox,
                   published, page, lost>>

-----------------------------------------------------------------------------
(* Publication, the WebSocket consumer and the page. *)

\* LiveEventBroadcaster.broadcast after a commit.  A failing publish is swallowed.
Publish(s, ok) ==
    LET m == Head(s)
        late == m.n < published[m.kind]
        got == ok /\ page.phase = "subscribed"
        missed == ~got /\ ~late
                  /\ ~(m.kind = "quote" /\ page.phase = "read" /\ m.n <= page.snapshot.quote)
    IN /\ IF ok THEN UNCHANGED troubles ELSE Trouble
       /\ outbox' = (outbox \ {s}) \cup (IF Len(s) = 1 THEN {} ELSE {Tail(s)})
       /\ published' = [published EXCEPT ![m.kind] = IF late THEN @ ELSE m.n]
       /\ page' = IF got
                  THEN [page EXCEPT !.shows[m.kind] = m.n,
                                    !.feedError = @ /\ m.kind # "quote"]
                  ELSE page
       /\ lost' = IF missed \/ (got /\ late) THEN lost \cup {m.kind}
                  ELSE IF got THEN lost \ {m.kind} ELSE lost
       /\ UNCHANGED <<clock, closed, accepted, row, recorded, rebuild, rebuilt, alerts,
                      incident>>

PageStep(p) ==
    /\ page' = p
    /\ UNCHANGED <<clock, closed, accepted, row, recorded, rebuild, rebuilt, alerts,
                   incident, outbox, published>>

\* setTimeout(connectWebSocket, ...)
Retry ==
    /\ page.phase = "waiting"
    /\ PageStep([page EXCEPT !.phase = "connecting"])
    /\ UNCHANGED <<lost, troubles>>

OpenedKeepingAttempts == [page EXCEPT !.phase = "open", !.failures = 0, !.reconnecting = FALSE]

\* ws.onopen
Opened == [page EXCEPT !.phase = "open", !.attempts = 0, !.failures = 0,
                       !.reconnecting = FALSE]

Open ==
    /\ page.phase = "connecting"
    /\ PageStep(Opened)
    /\ UNCHANGED <<lost, troubles>>

\* The consumer reads the row and the session in a thread ...
ReadSnapshot ==
    /\ page.phase = "open"
    /\ PageStep([page EXCEPT !.phase = "read",
                             !.snapshot = [quote |-> Len(accepted),
                                           fault |-> row.plan # 0 /\ ~Decision(row.plan).healthy,
                                           closed |-> closed]])
    /\ lost' = lost \ {"quote"}
    /\ UNCHANGED troubles

\* ... or fails to and goes on without: the page keeps what it shows.
MissSnapshot ==
    /\ page.phase = "open"
    /\ Trouble
    /\ PageStep([page EXCEPT !.phase = "read",
                             !.snapshot = [quote |-> page.shows["quote"], fault |-> page.fault,
                                           closed |-> page.closed]])
    /\ lost' = lost \cup {"quote"}

\* ... sends it, and only then starts the listener, which subscribes to the channel or ends
\* there, without a Redis client or on its exception.
Subscribe(ok) ==
    /\ page.phase = "read"
    /\ IF ok THEN UNCHANGED troubles ELSE Trouble
    /\ PageStep([page EXCEPT !.phase = IF ok THEN "subscribed" ELSE "deaf",
                             !.snapshot = NoSnapshot,
                             !.closed = page.snapshot.closed, !.fault = page.snapshot.fault,
                             !.shows["quote"] = page.snapshot.quote])
    /\ UNCHANGED lost

\* An exception ends the listener later on.  Nothing starts it again on this socket, which
\* stays open: the page hears no more until the socket closes.
ListenerEnds ==
    /\ page.phase = "subscribed"
    /\ Trouble
    /\ PageStep([page EXCEPT !.phase = "deaf"])
    /\ UNCHANGED lost

ClosedStillReconnecting ==
    IF page.closed
    THEN [page EXCEPT !.phase = "waiting", !.reconnecting = FALSE]
    ELSE IF page.attempts < MaxAttempts
    THEN [page EXCEPT !.phase = "waiting", !.reconnecting = TRUE, !.attempts = @ + 1]
    ELSE [page EXCEPT !.phase = "gave up", !.reconnecting = TRUE, !.feedError = TRUE]

ClosedForGood ==
    IF page.closed
    THEN [page EXCEPT !.phase = "gave up", !.reconnecting = FALSE]
    ELSE IF page.attempts < MaxAttempts
    THEN [page EXCEPT !.phase = "waiting", !.reconnecting = TRUE, !.attempts = @ + 1]
    ELSE [page EXCEPT !.phase = "gave up", !.reconnecting = FALSE, !.feedError = TRUE]

ClosedUnlimited ==
    IF page.closed
    THEN [page EXCEPT !.phase = "waiting", !.reconnecting = FALSE]
    ELSE [page EXCEPT !.phase = "waiting", !.reconnecting = TRUE, !.attempts = @ + 1]

\* ws.onclose: behind a closure a retry every 15 s without end, otherwise up to the limit.
Closed ==
    IF page.closed
    THEN [page EXCEPT !.phase = "waiting", !.reconnecting = FALSE]
    ELSE IF page.attempts < MaxAttempts
    THEN [page EXCEPT !.phase = "waiting", !.reconnecting = TRUE, !.attempts = @ + 1]
    ELSE [page EXCEPT !.phase = "gave up", !.reconnecting = FALSE, !.feedError = TRUE]

Drop ==
    /\ page.phase \in Connected
    /\ Trouble
    /\ PageStep([Closed EXCEPT !.snapshot = NoSnapshot])
    /\ UNCHANGED lost

Fail ==
    /\ page.phase = "connecting"
    /\ Trouble
    /\ PageStep([Closed EXCEPT !.failures = @ + 1])
    /\ UNCHANGED lost

\* new WebSocket throws: the catch sets no timer, and no onclose follows.
Throw ==
    /\ page.phase = "connecting"
    /\ Trouble
    /\ PageStep([page EXCEPT !.phase = "stopped", !.reconnecting = @ \/ ~page.closed])
    /\ UNCHANGED lost

\* updateConnectionStatus
Pill ==
    CASE page.closed -> "MARKET CLOSED"
      [] ~page.closed /\ page.reconnecting -> "RECONNECTING"
      [] ~page.closed /\ ~page.reconnecting /\ page.phase \notin Connected -> "CONNECTING"
      [] OTHER -> IF page.feedError \/ page.fault THEN "FEED ERROR"
                  ELSE IF page.shows["quote"] # 0 THEN "LIVE" ELSE "REFERENCE LIVE"

-----------------------------------------------------------------------------
Tick ==
    /\ clock < MaxClock
    /\ clock' = clock + 1
    /\ UNCHANGED <<closed, troubles, accepted, row, recorded, rebuild, rebuilt, alerts,
                   incident, outbox, published, page, lost>>

ChangeSession ==
    /\ Trouble
    /\ closed' = ~closed
    /\ UNCHANGED <<clock, accepted, row, recorded, rebuild, rebuilt, alerts, incident,
                   outbox, published, page, lost>>

Next ==
    \/ \E q \in Quotes: TakeQuote(q)
    \/ RecordDecision
    \/ ProjectDecision
    \/ RebuildRead
    \/ RebuildWrite
    \/ \E s \in outbox, ok \in BOOLEAN: Publish(s, ok)
    \/ Retry
    \/ Open
    \/ ReadSnapshot
    \/ MissSnapshot
    \/ \E ok \in BOOLEAN: Subscribe(ok)
    \/ ListenerEnds
    \/ Drop
    \/ Fail
    \/ Throw
    \/ Tick
    \/ ChangeSession

\* Workers run what they began and timers fire.  An attempt to connect, the reading of a
\* snapshot, the start of a listener and a publication end, well or badly: none is fair to
\* succeed.  Nothing makes quotes arrive or decisions be made.
Fairness ==
    /\ WF_vars(ProjectDecision)
    /\ WF_vars(RebuildWrite)
    /\ WF_vars(\E s \in outbox, ok \in BOOLEAN: Publish(s, ok))
    /\ WF_vars(Retry)
    /\ WF_vars(Open \/ Fail \/ Throw)
    /\ WF_vars(ReadSnapshot \/ MissSnapshot)
    /\ WF_vars(\E ok \in BOOLEAN: Subscribe(ok))
    /\ WF_vars(Tick)

Spec == Init /\ [][Next]_vars /\ Fairness

-----------------------------------------------------------------------------
(* Properties. *)

Rows ==
    [seq: Nat \cup {None}, ts: Nat \cup {None}, bid: Nat \cup {None}, ask: Nat \cup {None},
     stale: BOOLEAN, zone: Zones, signal: 0..Len(Decisions), plan: 0..Len(Decisions),
     decided: 0..Len(Decisions), staleOpen: BOOLEAN, sickOpen: BOOLEAN]
Alerts == [type: {"stale", "unhealthy", "entry", "invalidated"}, of: Nat]
Events == [kind: Kinds, n: Nat \ {0}]
Pages ==
    [phase: Phases, attempts: 0..MaxAttempts, failures: 0..MaxTroubles, reconnecting: BOOLEAN,
     feedError: BOOLEAN, snapshot: [quote: Nat, fault: BOOLEAN, closed: BOOLEAN],
     closed: BOOLEAN, fault: BOOLEAN, shows: [Kinds -> Nat]]

\* The row, the alerts, the events and the page have the shapes the code gives them.
TypeOK ==
    /\ clock \in 0..MaxClock
    /\ closed \in BOOLEAN
    /\ troubles \in 0..MaxTroubles
    /\ accepted \in Seq([q: Quotes, stale: BOOLEAN])
    /\ row \in Rows
    /\ recorded \in 0..Len(Decisions)
    /\ rebuild \in 0..Len(Decisions) \cup {None}
    /\ rebuilt \in BOOLEAN
    /\ alerts \subseteq Alerts
    /\ incident \in Nat
    /\ outbox \subseteq Seq(Events)
    /\ published \in [Kinds -> Nat]
    /\ page \in Pages
    /\ lost \subseteq Kinds

\* Whichever of the two writers wrote last, quote task or decision task, the zone status
\* beside the plan and the quote is the one these two give (services.py:184 and :1000).
\* Only a rebuild replaces the plan and leaves the zone of the one before.
ZoneAgrees == ~rebuilt => row.zone = Zone(Decision(row.plan), row.bid, row.ask)

\* However many stale quotes arrive, and whatever decisions and rebuilds rewrite the feed
\* health in between, one stale incident raises one alert (alerts/services.py:203).
IncidentAlertedOnce == incident <= 1

\* A zone alert stands on a recorded plan that may be executed, decided while the
\* provider was healthy, and on a quote that was fresh and at the level when the row took
\* it (alerts/services.py:268): a stale quote, an unhealthy feed or a plan replaced
\* meanwhile raises none.
ZoneAlertIsBacked ==
    \A a \in alerts: a.type \in {"entry", "invalidated"} =>
        /\ a.of \in 1..recorded
        /\ Decision(a.of).usable /\ Decision(a.of).healthy
        /\ \E i \in 1..Len(accepted):
              /\ ~accepted[i].stale
              /\ IF a.type = "entry"
                 THEN Zone(Decision(a.of), accepted[i].q.bid, accepted[i].q.ask) = "inside"
                 ELSE Invalidates(Decision(a.of), accepted[i].q)

\* Once a subscribed page has nothing more to come, it shows the newest quote, signal and
\* plan, unless one was published while it was not subscribed (a snapshot mends that for
\* the quote only), the snapshot or the publication failed, or an older event overtook it
\* (consumers.py:318-346).
ConvergesWhenQuiet ==
    page.phase = "subscribed" /\ outbox = {} =>
        /\ "quote" \notin lost => page.shows["quote"] = Len(accepted)
        /\ "signal" \notin lost => page.shows["signal"] = row.decided
        /\ "plan" \notin lost => page.shows["plan"] = row.decided

\* RECONNECTING is shown only while a retry is under way or after a constructor threw, which
\* leaves it on with no retry to come; LIVE only on an open socket with a quote, with or
\* without its listener (dashboard.js:4-8, 205-212).
PillIsTrue ==
    /\ Pill = "RECONNECTING" => page.phase \in {"waiting", "connecting", "stopped"}
    /\ Pill = "LIVE" => page.phase \in Connected /\ page.shows["quote"] # 0

\* A page gives up only after the permitted number of connection attempts failed in a
\* row: no number of drops in its life uses the attempts up (dashboard.js:163, 186).
GivesUpLate == page.phase = "gave up" => page.failures >= MaxAttempts

\* The ways a page may stay as it is: its listener runs; its listener ended and its socket
\* is still open (consumers.py:339-341, 359-360); its attempts are used up; its constructor
\* threw (dashboard.js:205-212).
AtRest ==
    \/ page.phase \in {"subscribed", "deaf", "stopped"}
    \/ page.phase = "gave up" /\ page.attempts = MaxAttempts

\* While disturbances stay finite in number, a page that lost its socket never rests between
\* these: a closure it knows of, begun or ended at any moment, does not end its retries, and
\* no order of drops and failures leaves it waiting for a timer nobody set
\* (dashboard.js:178-194).
Resubscribes == TRUE ~> AtRest
=============================================================================
