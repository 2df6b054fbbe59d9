----------------------------- MODULE Phase8Gate -----------------------------
(***************************************************************************)
(* The Phase 8 continuity gate: one Phase8OperationalState row that the    *)
(* paper observation task, the phase8_observer command and the watchdog    *)
(* each read, compute on and save as a whole, without a row lock.  Their   *)
(* reads and saves are separate steps, so a save can put back what another *)
(* process has changed since the read.                                     *)
(*                                                                         *)
(* Time counts 15 minute slots; the candle named c closes at time c.  The  *)
(* moment a signal is saved is of no consequence before it is observed, so *)
(* a signal exists here from the moment an observation of it begins.       *)
(***************************************************************************)
EXTENDS Integers, FiniteSets

CONSTANTS
    MaxTime,       \* bound: last slot of a behaviour
    Closed,        \* slots at which is_expected_market_closure holds
    WindowLength,  \* OBSERVATION_WINDOW_CALENDAR_DAYS, in slots
    Grace,         \* grace_minutes of the watchdog, in slots
    MaxStale,      \* max_stale_seconds of the tracker, in slots
    Variants,      \* distinguishes the signals of one candle
    Tasks,         \* processes that may observe or interrupt at once
    TaskLimit,     \* CELERY_TASK_TIME_LIMIT, in slots
    MaxKills,      \* bound: processes killed, in a behaviour
    MaxCount,      \* bound: the failure counters saturate here
    Null           \* SQL NULL

Times == 0..MaxTime
Slots == 1..MaxTime
Signals == [close: Slots, variant: Variants]

ASSUME TimeAssumption ==
    /\ MaxTime \in Nat
    /\ Closed \subseteq Times
    /\ WindowLength \in Nat \ {0}
    /\ Grace \in Nat
    /\ MaxStale \in Nat
    /\ MaxCount \in Nat \ {0}
    /\ TaskLimit \in Nat
    /\ MaxKills \in Nat
ASSUME NullAssumption == Null \notin Times

VARIABLES
    now,
    candles,    \* closed 15m MarketCandle rows
    records,    \* PaperObservationRecord rows, by their signal
    row,        \* the Phase8OperationalState row
    task,       \* what each observing process has read and not yet saved
    audit,      \* the same for the watchdog
    kills,      \* history: processes killed so far
    failed      \* history: an operational failure was recorded in this window

gateVars == <<now, candles, records, row, task, audit, kills, failed>>

Statuses == {"NOT_STARTED", "OBSERVING", "INTERRUPTED", "COMPLETE"}

InitialRow ==
    [status |-> "NOT_STARTED", start |-> Null, failures |-> 0,
     expected |-> 0, observed |-> 0, missing |-> 0, lastEval |-> Null]

Idle == [kind |-> "idle"]

GateInit ==
    /\ now = 0
    /\ candles = {}
    /\ records = {}
    /\ row = InitialRow
    /\ task = [t \in Tasks |-> Idle]
    /\ audit = Idle
    /\ kills = 0
    /\ failed = FALSE

-----------------------------------------------------------------------------
(* Phase8ContinuityTracker.                                                *)

Bump(n) == IF n < MaxCount THEN n + 1 ELSE n
AtLeast(m, n) == IF m < n THEN n ELSE m

\* is_expected_market_interval_closed of the 15 minutes that end at c.
IntervalClosed(c) == c - 1 \in Closed

\* Conditions D and E of evaluate_gate_status: the expected cycles were observed,
\* and the last evaluation is fresh while the market is open.
Covered(r) == r.expected > 0 => r.observed >= r.expected
Fresh(r, t) ==
    t \notin Closed => IF r.lastEval = Null THEN r.expected = 0 ELSE t - r.lastEval <= MaxStale

\* Faulty variant: failures and missing cycles are forgotten once the window is old.
GateForgiving(r, t) ==
    IF r.start = Null THEN "NOT_STARTED"
    ELSE IF t - r.start < WindowLength
         THEN IF r.failures > 0 \/ r.missing > 0 THEN "INTERRUPTED" ELSE "OBSERVING"
    ELSE IF Covered(r) /\ Fresh(r, t) THEN "COMPLETE"
    ELSE "INTERRUPTED"

\* evaluate_gate_status of a row.
GateStatus(r, t) ==
    IF r.start = Null THEN "NOT_STARTED"
    ELSE IF r.failures > 0 \/ r.missing > 0 THEN "INTERRUPTED"
    ELSE IF t - r.start < WindowLength THEN "OBSERVING"
    ELSE IF Covered(r) /\ Fresh(r, t) THEN "COMPLETE"
    ELSE "INTERRUPTED"

-----------------------------------------------------------------------------
(* The surroundings: time and stored candles.                              *)

\* A task that lasts longer than the time limit is killed, so none is older.
Tick ==
    /\ now < MaxTime
    /\ \A t \in Tasks : task[t] # Idle => now < task[t].at + TaskLimit
    /\ audit # Idle => now < audit.at + TaskLimit
    /\ now' = now + 1
    /\ UNCHANGED <<candles, records, row, task, audit, kills, failed>>

\* Ingestion rejects candles wholly inside closure, may be late, and may miss one.
StoreCandle(c) ==
    /\ c \in 1..now \ candles
    /\ ~IntervalClosed(c)
    /\ candles' = candles \cup {c}
    /\ UNCHANGED <<now, records, row, task, audit, kills, failed>>

-----------------------------------------------------------------------------
(* process_production_signal_observation, one transaction: the record is   *)
(* got or created, the row is read; later the row is saved and committed.  *)

\* A second get_or_create of a key that is not committed yet waits for it.
Uncommitted(s) == \E t \in Tasks : task[t].kind = "observe" /\ task[t].created /\ task[t].signal = s

\* Faulty variant: an observation whose decision candle is not a stored one.
BeginUnstored(t, s) ==
    /\ task[t] = Idle
    /\ ~Uncommitted(s)
    /\ task' = [task EXCEPT ![t] = [kind |-> "observe", signal |-> s, created |-> s \notin records,
                                    read |-> row, at |-> now]]
    /\ UNCHANGED <<now, candles, records, row, audit, kills, failed>>

\* An observation of a signal, whose candle is always a stored one.
BeginObservation(t, s) ==
    /\ task[t] = Idle
    /\ s.close \in candles
    /\ ~Uncommitted(s)
    /\ task' = [task EXCEPT ![t] = [kind |-> "observe", signal |-> s, created |-> s \notin records,
                                    read |-> row, at |-> now]]
    /\ UNCHANGED <<now, candles, records, row, audit, kills, failed>>

\* The first observation opens the window, and clears what was counted before.
Opened(r, t) ==
    IF r.start = Null
    THEN [r EXCEPT !.start = t, !.status = "OBSERVING", !.failures = 0]
    ELSE r

\* Faulty variant: the early return for duplicates is missing.
CountingDuplicates(j) ==
    [Opened(j.read, j.at) EXCEPT !.observed = @ + 1, !.expected = AtLeast(@, j.read.observed + 1)]

\* The saved row: a duplicate only opens the window (and counts as a no-op).
Observed(j) ==
    LET r == Opened(j.read, j.at)
        n == [r EXCEPT !.observed = @ + 1, !.expected = AtLeast(@, r.observed + 1), !.lastEval = j.at]
    IN  IF j.created THEN [n EXCEPT !.status = GateStatus(n, j.at)] ELSE r

EndObservation(t) ==
    /\ task[t].kind = "observe"
    /\ row' = Observed(task[t])
    /\ records' = records \cup {task[t].signal}
    /\ failed' = IF task[t].read.start = Null THEN FALSE ELSE failed
    /\ task' = [task EXCEPT ![t] = Idle]
    /\ UNCHANGED <<now, candles, audit, kills>>

-----------------------------------------------------------------------------
(* step_observation_cycle when there is no signal at all: during closure   *)
(* the window is opened all the same, otherwise the miss is recorded.      *)

BeginEmptyCycle(t) ==
    /\ task[t] = Idle
    /\ records = {} /\ \A u \in Tasks : task[u].kind # "observe"
    /\ task' = [task EXCEPT ![t] = [kind |-> IF now \in Closed THEN "open" ELSE "interrupt",
                                    read |-> row, at |-> now]]
    /\ UNCHANGED <<now, candles, records, row, audit, kills, failed>>

EndOpening(t) ==
    /\ task[t].kind = "open"
    /\ row' = IF task[t].read.start = Null
              THEN [task[t].read EXCEPT !.start = task[t].at, !.status = "OBSERVING"]
              ELSE row
    /\ task' = [task EXCEPT ![t] = Idle]
    /\ UNCHANGED <<now, candles, records, audit, kills, failed>>

\* The save of record_interruption.
Interrupted(r) == [r EXCEPT !.failures = Bump(@), !.status = "INTERRUPTED"]

EndInterruption(t) ==
    /\ task[t].kind = "interrupt"
    /\ row' = Interrupted(task[t].read)
    /\ failed' = TRUE
    /\ task' = [task EXCEPT ![t] = Idle]
    /\ UNCHANGED <<now, candles, records, audit, kills>>

-----------------------------------------------------------------------------
(* audit_operational_continuity, run by the watchdog every five minutes.   *)

\* Faulty variant: any later observation stands for the missing one.
UnobservedSince(start, t) ==
    {c \in candles : /\ start < c /\ c <= t
                     /\ c \notin Closed
                     /\ ~\E r \in records : r.close >= c
                     /\ t >= c + Grace}

\* Stored candles of the window, not exempt, past the grace and not observed.
Unobserved(start, t) ==
    {c \in candles : /\ start < c /\ c <= t
                     /\ c \notin Closed
                     /\ ~\E r \in records : r.close = c
                     /\ t >= c + Grace}

\* The row is read ...
BeginAudit ==
    /\ audit = Idle
    /\ row.status # "NOT_STARTED" /\ row.start # Null
    /\ audit' = [kind |-> "count", read |-> row, at |-> now]
    /\ UNCHANGED <<now, candles, records, row, task, kills, failed>>

\* ... then the observations and the stored candles of its window are counted.
AuditCounts ==
    /\ audit.kind = "count"
    /\ LET n == Cardinality(Unobserved(audit.read.start, audit.at))
           r == [audit.read EXCEPT !.observed = AtLeast(@, Cardinality(records))]
       IN  audit' = IF n > r.missing
                    THEN [audit EXCEPT !.kind = "missed", !.read = [r EXCEPT !.missing = n]]
                    ELSE [audit EXCEPT !.kind = "save", !.read = r]
    /\ UNCHANGED <<now, candles, records, row, task, kills, failed>>

\* record_interruption reads the row anew ...
AuditInterrupts ==
    /\ audit.kind = "missed"
    /\ audit' = [kind |-> "interrupt", read |-> audit.read, at |-> audit.at, fresh |-> row]
    /\ UNCHANGED <<now, candles, records, row, task, kills, failed>>

\* ... and saves it, unless the market is closed now ...
AuditSavesInterruption ==
    /\ audit.kind = "interrupt"
    /\ IF audit.at \in Closed
       THEN UNCHANGED <<row, failed>>
       ELSE row' = Interrupted(audit.fresh) /\ failed' = TRUE
    /\ audit' = [kind |-> "refresh", read |-> audit.read, at |-> audit.at]
    /\ UNCHANGED <<now, candles, records, task, kills>>

\* ... refresh_from_db, which also drops the counts taken above ...
AuditRefreshes ==
    /\ audit.kind = "refresh"
    /\ audit' = [audit EXCEPT !.kind = "save",
                              !.read = [row EXCEPT !.missing = audit.read.missing]]
    /\ UNCHANGED <<now, candles, records, row, task, kills, failed>>

\* ... and the gate is evaluated and saved.
EndAudit ==
    /\ audit.kind = "save"
    /\ row' = [audit.read EXCEPT !.status = GateStatus(audit.read, audit.at)]
    /\ audit' = Idle
    /\ UNCHANGED <<now, candles, records, task, kills, failed>>

-----------------------------------------------------------------------------
(* A killed process: its open transaction is rolled back; what the audit   *)
(* committed before stays.                                                 *)

ObserverDies == kills < MaxKills /\ kills' = kills + 1

TaskKilled(t) ==
    /\ task[t] # Idle
    /\ ObserverDies
    /\ task' = [task EXCEPT ![t] = Idle]
    /\ UNCHANGED <<now, candles, records, row, audit, failed>>

AuditKilled ==
    /\ audit # Idle
    /\ ObserverDies
    /\ audit' = Idle
    /\ UNCHANGED <<now, candles, records, row, task, failed>>

-----------------------------------------------------------------------------
AuditStep ==
    BeginAudit \/ AuditCounts \/ AuditInterrupts \/ AuditSavesInterruption \/ AuditRefreshes \/ EndAudit

EndTask(t) == EndObservation(t) \/ EndOpening(t) \/ EndInterruption(t)

GateNext ==
    \/ Tick
    \/ \E c \in Slots : StoreCandle(c)
    \/ \E t \in Tasks : (\E s \in Signals : BeginObservation(t, s)) \/ BeginEmptyCycle(t)
                         \/ EndTask(t) \/ TaskKilled(t)
    \/ AuditStep
    \/ AuditKilled

GateSpec == GateInit /\ [][GateNext]_gateVars

\* Time passes whatever the tasks do, a transaction that was begun ends, and celery
\* beat starts the watchdog again and again.  Nothing makes candles or observations come.
GateFairness == WF_gateVars(Tick) /\ WF_gateVars(AuditStep) /\ \A t \in Tasks : WF_gateVars(EndTask(t))

GateFairSpec == GateSpec /\ GateFairness

-----------------------------------------------------------------------------
(* Properties.                                                             *)

Rows == [status: Statuses, start: Times \cup {Null}, failures: 0..MaxCount,
         expected: Nat, observed: Nat, missing: Nat, lastEval: Times \cup {Null}]

Observing == [kind: {"observe"}, signal: Signals, created: BOOLEAN, read: Rows, at: Times]
Emptying == [kind: {"open", "interrupt"}, read: Rows, at: Times]
Auditing == [kind: {"count", "missed", "refresh", "save"}, read: Rows, at: Times]
            \cup [kind: {"interrupt"}, read: Rows, at: Times, fresh: Rows]

\* The types of the state; observations are of stored candles, and the row holds no
\* time of the future.
GateTypeOK ==
    /\ now \in Times
    /\ candles \subseteq Slots
    /\ records \subseteq Signals
    /\ \A s \in records : s.close \in candles
    /\ row \in Rows
    /\ row.start # Null => row.start <= now
    /\ task \in [Tasks -> {Idle} \cup Observing \cup Emptying]
    /\ audit \in {Idle} \cup Auditing
    /\ kills \in 0..MaxKills
    /\ failed \in BOOLEAN

\* COMPLETE is only ever saved together with what earns it: a window at least the
\* required length old, no failure and no missing cycle in the same row.  Mixed
\* reads and whole-row saves never put COMPLETE beside another process's counters.
CompleteIsConsistent ==
    row.status = "COMPLETE" =>
        /\ row.start # Null /\ now - row.start >= WindowLength
        /\ row.failures = 0 /\ row.missing = 0
        /\ Covered(row)

\* Duplicate deliveries and interleaved saves never make the counters claim more
\* observations than there are records.
CountsAreBacked ==
    row.observed <= Cardinality(records) /\ row.expected <= Cardinality(records)

\* An interruption is not lost on a finished phase: "COMPLETE status is strictly
\* forbidden if ... unresolved critical failures exist".
FailureForbidsComplete == failed => row.status # "COMPLETE"

\* "all eligible cycles expected up to evaluation time are accounted for": every
\* market-open interval of a completed window has an observation.
CompleteCoversWindow ==
    row.status = "COMPLETE" =>
        \A c \in Slots :
            /\ ~IntervalClosed(c)
            /\ row.start < c /\ c + Grace <= row.start + WindowLength
            => \E r \in records : r.close = c

\* The watchdog misses nothing it can see: a stored candle of the window that stays
\* without an observation interrupts the phase, whatever other saves intervene.
MissedIsFlagged ==
    \A c \in {d \in Slots \ Closed : d + Grace < MaxTime} :
        (c \in candles /\ row.start # Null /\ row.start < c)
            ~> \/ row.status = "INTERRUPTED"
               \/ \E r \in records : r.close = c
               \/ row.start = Null
               \/ row.start >= c
=============================================================================
