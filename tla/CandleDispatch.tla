--------------------------- MODULE CandleDispatch ---------------------------
(***************************************************************************)
(* The closed-candle dispatcher and the ledger that governs its requests   *)
(* to Twelve Data: dispatch_closed_candle_ingestion, ClosedCandleScheduler *)
(* and CandleRequestLedger, for one timeframe and one UTC day.             *)
(*                                                                         *)
(* The processes share the cache (Redis) and the candle table; each keeps  *)
(* ledger dictionaries of its own.  Every cache call is a step, so another *)
(* process may act between a check and the write that follows it.  Other   *)
(* consumers of the daily credits (the health check, the other timeframes) *)
(* check and record a credit with the same calls.                          *)
(*                                                                         *)
(* Time counts candles; the candle named c closes at time c.               *)
(***************************************************************************)
EXTENDS Integers, FiniteSets

CONSTANTS
    Procs,        \* worker processes
    MaxTime,      \* bound: last slot of a behaviour
    Closed,       \* candles wholly inside market closure
    Leaving,      \* closes from Friday 15:00, and on Saturday
    Returning,    \* closes on Sunday, and on Monday until 03:59
    ClosureSpans, \* lengths from 20 to 65 hours
    Break,        \* closes at 21:00 to 22:59
    BreakSpan,    \* 75 minutes
    Lookback,     \* NORMAL_LOOKBACK_BARS
    MaxBatch,     \* MAX_RECOVERY_BARS_PER_REQUEST
    Cap,          \* MAX_AUTOMATIC_TWELVE_DATA_CREDITS_PER_UTC_DAY
    RetryCap,     \* MAX_AUTOMATIC_RETRY_CREDITS_PER_UTC_DAY
    MaxAttempts,  \* 1 + MAX_AUTOMATIC_RETRIES_PER_CANDLE
    Cooldown,     \* CIRCUIT_DEFAULT_COOLDOWN_MINUTES
    WeekendReopen,\* get_next_weekend_reopen, of a moment during the closure
    MaxFaults     \* bound: short or suspect answers, kills and cache losses

Times == 0..MaxTime
Slots == 1..MaxTime

ASSUME ProcsAssumption == IsFiniteSet(Procs) /\ Procs # {}
ASSUME TimeAssumption ==
    /\ MaxTime \in Nat
    /\ Lookback \in Nat \ {0}
    /\ MaxBatch \in Nat \ {0}
    /\ MaxAttempts \in Nat \ {0}
    /\ Cooldown \in Nat
    /\ WeekendReopen \in Nat
    /\ \A c \in Closed : c <= WeekendReopen
    /\ MaxFaults \in Nat
ASSUME CapAssumption == Cap \in Nat \ {0} /\ RetryCap \in Nat

VARIABLES
    now,
    stored,      \* closed MarketCandle rows of the timeframe
    auto,        \* cache: twelve_data_auto_credits_total, if the key is known
    retry,       \* cache: twelve_data_retry_credits, likewise
    suppressed,  \* cache: candles whose requests are suppressed
    circuit,     \* cache: circuit_until, 0 when the circuit is not open
    local,       \* the dictionaries of each process's CandleRequestLedger
    task,        \* the task each process runs
    sent,        \* history: requests made with an automatic credit
    forgotten,   \* history: the shared credit count was lost or overwritten
    skipped,     \* history: candles a plan left out as market closure
    omitted,     \* history: candles an answer of the provider left out
    faults       \* short or suspect answers, kills and losses so far

vars == <<now, stored, auto, retry, suppressed, circuit, local, task,
          sent, forgotten, skipped, omitted, faults>>

ledger == <<auto, retry, suppressed, circuit, forgotten>>
history == <<skipped, omitted>>

Counter == [known: BOOLEAN, count: Nat]
Unknown == [known |-> FALSE, count |-> 0]

NewLedger == [auto |-> 0, retry |-> 0, attempts |-> [c \in Slots |-> 0],
              suppressed |-> {}, circuit |-> 0]

\* A task at its start: the step it takes next, what it is for and the close it is due for.
Start(pc, kind, target) ==
    [pc |-> pc, kind |-> kind, target |-> target, from |-> 0, step |-> 1,
     retrying |-> FALSE, empty |-> FALSE]

Idle == Start("idle", "none", 0)

Init ==
    /\ now = 0
    /\ stored = {0}
    /\ auto = Unknown
    /\ retry = Unknown
    /\ suppressed = {}
    /\ circuit = 0
    /\ local = [p \in Procs |-> NewLedger]
    /\ task = [p \in Procs |-> Idle]
    /\ sent = 0
    /\ forgotten = FALSE
    /\ skipped = {}
    /\ omitted = {}
    /\ faults = 0

-----------------------------------------------------------------------------
(* CandleRequestLedger.                                                    *)

\* The count a process sees: the shared one, or its own when the key is missing.
AutoCount(p) == IF auto.known THEN auto.count ELSE local[p].auto
RetryCount(p) == IF retry.known THEN retry.count ELSE local[p].retry

\* Faulty variant: the day's last credit is taken once too often.
CanConsumeLate(p) == AutoCount(p) <= Cap

CanConsumeAutomatic(p) == AutoCount(p) < Cap
CanConsumeRetry(p) == CanConsumeAutomatic(p) /\ RetryCount(p) < RetryCap
IsSuppressed(p, c) == c \in local[p].suppressed \cup suppressed

\* A circuit the process tripped itself hides the shared one, also as it expires.
CircuitOpen(p, t) ==
    IF local[p].circuit > 0 THEN t < local[p].circuit ELSE t < circuit

\* is_circuit_open forgets an expired circuit, its own or else the shared one.
ForgetExpired(p, t) ==
    IF local[p].circuit > 0
    THEN /\ local' = IF t < local[p].circuit THEN local
                     ELSE [local EXCEPT ![p].circuit = 0]
         /\ UNCHANGED circuit
    ELSE /\ circuit' = IF t < circuit THEN circuit ELSE 0
         /\ UNCHANGED local

\* trip_circuit: until the reopening during the weekend, else for the cooldown.
SuppressedUntil(t) ==
    IF t + 1 \in Closed THEN WeekendReopen ELSE t + Cooldown

-----------------------------------------------------------------------------
(* ClosedCandleScheduler.                                                  *)

IsLatest(c) == c \in stored /\ \A d \in stored : d <= c

\* evaluate_timeframe, the circuit apart: the newest close is neither stored, in
\* market closure nor suppressed.
Due(p, t) ==
    /\ CanConsumeAutomatic(p)
    /\ t \notin Closed
    /\ \A c \in stored : c < t
    /\ ~IsSuppressed(p, t)

\* classify_candle_gap is PROVIDER_MARKET_CLOSURE.
MarketClosureGap(latest, target) ==
    \/ /\ latest \in Leaving
       /\ target \in Returning
       /\ target - latest \in ClosureSpans
    \/ latest \in Break /\ target - latest <= BreakSpan

\* Faulty variant: a gap is recovered in steps of a batch that start one late.
PlanFromNext(latest, target) ==
    IF target - latest <= Lookback \/ MarketClosureGap(latest, target)
    THEN [from |-> target - Lookback, step |-> Lookback]
    ELSE [from |-> latest + 1, step |-> MaxBatch]

\* plan_recovery_batches: one batch of the lookback, or the gap in bounded batches.
RecoveryPlan(latest, target) ==
    IF target - latest <= Lookback \/ MarketClosureGap(latest, target)
    THEN [from |-> target - Lookback, step |-> Lookback]
    ELSE [from |-> latest, step |-> MaxBatch]

BatchEnd(t) == IF t.from + t.step < t.target THEN t.from + t.step ELSE t.target

\* Faulty variant: closed-market bars of an answer are stored too.
BatchUnfiltered(t) == {c \in Slots : t.from < c /\ c <= BatchEnd(t)}

\* The candles of the open market that a batch asks for.
Batch(t) == {c \in Slots \ Closed : t.from < c /\ c <= BatchEnd(t)}

\* Those an answer can bring into the table: the candle that opens at the end of the batch
\* passes the parser's filter too, once it has closed.
Answerable(t) == Batch(t) \cup {c \in Slots \ Closed : c = BatchEnd(t) + 1 /\ c <= now}

-----------------------------------------------------------------------------
Fault == faults < MaxFaults /\ faults' = faults + 1

Goto(p, pc) == task' = [task EXCEPT ![p].pc = pc]

Tick ==
    /\ now < MaxTime
    /\ now' = now + 1
    /\ UNCHANGED <<stored, local, task, sent, faults, ledger, history>>

\* dispatch_closed_candle_ingestion until the timeframe is found due or not.
Evaluate(p) ==
    /\ task[p].pc = "idle"
    /\ CanConsumeAutomatic(p)
    /\ ForgetExpired(p, now)
    /\ IF ~CircuitOpen(p, now) /\ Due(p, now)
       THEN task' = [task EXCEPT ![p] = Start("plan", "candle", now)]
       ELSE UNCHANGED task
    /\ UNCHANGED <<now, stored, auto, retry, suppressed, forgotten, sent, faults, history>>

\* The latest candle is read again for the batches.
Plan(p) ==
    /\ task[p].pc = "plan"
    /\ \E latest \in Times : /\ IsLatest(latest)
        /\ LET target == task[p].target
               plan == RecoveryPlan(latest, target)
           IN  IF target <= latest
               THEN /\ task' = [task EXCEPT ![p] = Idle]
                    /\ UNCHANGED skipped
               ELSE /\ task' = [task EXCEPT ![p].pc = "check", ![p].from = plan.from,
                                            ![p].step = plan.step]
                    /\ skipped' = skipped \cup
                         IF MarketClosureGap(latest, target)
                         THEN {c \in Slots \ Closed : latest < c /\ c <= plan.from}
                         ELSE {}
    /\ UNCHANGED <<now, stored, local, sent, faults, ledger, omitted>>

\* Another consumer begins: check_provider_health_task, or another timeframe.
BeginOther(p) ==
    /\ task[p].pc = "idle"
    /\ CanConsumeAutomatic(p)
    /\ task' = [task EXCEPT ![p] = Start("record", "other", 0)]
    /\ UNCHANGED <<now, stored, local, sent, faults, ledger, history>>

\* The cap is checked before each batch.
CheckCap(p) ==
    /\ task[p].pc = "check"
    /\ task' = [task EXCEPT ![p] =
                  IF CanConsumeAutomatic(p) THEN [@ EXCEPT !.pc = "record"] ELSE Idle]
    /\ UNCHANGED <<now, stored, local, sent, faults, ledger, history>>

\* record_automatic_credit_consumed: its own count, then incr, which needs the key.
RecordCredit(p) ==
    /\ task[p].pc = "record"
    /\ local' = [local EXCEPT ![p].auto = @ + 1]
    /\ IF auto.known
       THEN auto' = [auto EXCEPT !.count = @ + 1] /\ Goto(p, "request")
       ELSE UNCHANGED auto /\ Goto(p, "set")
    /\ UNCHANGED <<now, stored, retry, suppressed, circuit, sent, forgotten, faults, history>>

\* The key was missing: the shared count becomes the process's own.
SetCredit(p) ==
    /\ task[p].pc = "set"
    /\ auto' = [known |-> TRUE, count |-> local[p].auto]
    /\ forgotten' = (forgotten \/ auto.known)
    /\ Goto(p, "request")
    /\ UNCHANGED <<now, stored, retry, suppressed, circuit, local, sent, faults, history>>

\* The health check, or the request of another timeframe, is made.
RequestOther(p) ==
    /\ task[p].pc = "request" /\ task[p].kind = "other"
    /\ sent' = sent + 1
    /\ task' = [task EXCEPT ![p] = Idle]
    /\ UNCHANGED <<now, stored, local, faults, ledger, history>>

\* The answer holds the batch, or a part of it, and perhaps the candle after it: those
\* candles are stored.
Receive(p, answer) ==
    LET missing == Batch(task[p]) \ answer
    IN  /\ stored' = stored \cup answer
        /\ omitted' = (omitted \cup missing) \ answer

\* ingest_primary_candles succeeds.
RequestSucceeds(p) ==
    /\ task[p].pc = "request" /\ task[p].kind = "candle"
    /\ sent' = sent + 1
    /\ \E answer \in SUBSET Answerable(task[p]) :
          /\ Receive(p, answer)
          /\ IF answer = Answerable(task[p]) THEN UNCHANGED faults ELSE Fault
    /\ Goto(p, "settle")
    /\ UNCHANGED <<now, local, ledger, skipped>>

\* A first failure may be retried; a failed retry counts as one attempt.
AfterFailure(p, empty) ==
    task' = [task EXCEPT ![p].pc = IF task[p].retrying THEN "attempt" ELSE "mayRetry",
                         ![p].empty = @ \/ empty]

\* It fails and stores nothing; NO_USABLE_CLOSED_DATA is told apart.
RequestFails(p) ==
    /\ task[p].pc = "request" /\ task[p].kind = "candle"
    /\ sent' = sent + 1
    /\ \E empty \in BOOLEAN : AfterFailure(p, empty)
    /\ UNCHANGED <<now, stored, local, faults, ledger, history>>

\* It stores the answer but fails the integrity or quality checks, or the critical secondary
\* provider has no data, which only a first request takes for a closed market, or answers
\* HTTP 429, which ends the attempts.
RequestSuspect(p) ==
    /\ task[p].pc = "request" /\ task[p].kind = "candle"
    /\ sent' = sent + 1
    /\ Fault
    /\ \E answer \in SUBSET Answerable(task[p]) : Receive(p, answer)
    /\ \/ \E empty \in BOOLEAN : AfterFailure(p, empty /\ ~task[p].retrying)
       \/ Goto(p, "attempt")
    /\ UNCHANGED <<now, local, ledger, skipped>>

\* HTTP 429: a first request is not retried.
RequestLimited(p) ==
    /\ task[p].pc = "request" /\ task[p].kind = "candle"
    /\ sent' = sent + 1
    /\ Goto(p, "attempt")
    /\ UNCHANGED <<now, stored, local, faults, ledger, history>>

MayRetry(p) ==
    /\ task[p].pc = "mayRetry"
    /\ IF CanConsumeRetry(p) /\ ~IsSuppressed(p, BatchEnd(task[p]))
       THEN task' = [task EXCEPT ![p].pc = "record", ![p].retrying = TRUE]
       ELSE Goto(p, "attempt")
    /\ UNCHANGED <<now, stored, local, sent, faults, ledger, history>>

\* record_attempt of a success, then the next batch.
Settle(p) ==
    LET end == BatchEnd(task[p])
    IN  /\ task[p].pc = "settle"
        /\ local' = [local EXCEPT ![p].attempts[end] = 0,
                                  ![p].suppressed = @ \ {end},
                                  ![p].circuit = 0]
        /\ suppressed' = suppressed \ {end}
        /\ circuit' = 0
        /\ task' = [task EXCEPT ![p] =
                      IF end < @.target
                      THEN [@ EXCEPT !.pc = "check", !.from = end,
                                     !.retrying = FALSE, !.empty = FALSE]
                      ELSE Idle]
        /\ UNCHANGED <<now, stored, auto, retry, sent, forgotten, faults, history>>

\* record_attempt of a failure counts the attempt, and the retry if it was one.
CountAttempt(p) ==
    /\ task[p].pc = "attempt"
    /\ local' = [local EXCEPT ![p].attempts[BatchEnd(task[p])] = @ + 1,
                              ![p].retry = IF task[p].retrying THEN @ + 1 ELSE @]
    /\ IF task[p].retrying /\ ~retry.known
       THEN UNCHANGED retry /\ Goto(p, "setRetry")
       ELSE /\ retry' = IF task[p].retrying THEN [retry EXCEPT !.count = @ + 1] ELSE retry
            /\ Goto(p, "penalise")
    /\ UNCHANGED <<now, stored, auto, suppressed, circuit, sent, forgotten, faults, history>>

SetRetry(p) ==
    /\ task[p].pc = "setRetry"
    /\ retry' = [known |-> TRUE, count |-> local[p].retry]
    /\ Goto(p, "penalise")
    /\ UNCHANGED <<now, stored, auto, suppressed, circuit, local, sent, forgotten, faults, history>>

\* The candle is suppressed after its attempts, the circuit trips on no data, and
\* the timeframe's remaining batches are given up.
Penalise(p) ==
    LET end == BatchEnd(task[p])
        exhausted == local[p].attempts[end] >= MaxAttempts
        until == SuppressedUntil(task[p].target)
    IN  /\ task[p].pc = "penalise"
        /\ suppressed' = IF exhausted THEN suppressed \cup {end} ELSE suppressed
        /\ circuit' = IF task[p].empty THEN until ELSE circuit
        /\ local' = [local EXCEPT ![p].suppressed = IF exhausted THEN @ \cup {end} ELSE @,
                                  ![p].circuit = IF task[p].empty THEN until ELSE @]
        /\ task' = [task EXCEPT ![p] = Idle]
        /\ UNCHANGED <<now, stored, auto, retry, sent, forgotten, faults, history>>

\* A worker process dies; the one that replaces it has an empty ledger.
ProcessDies(p) ==
    /\ Fault
    /\ local' = [local EXCEPT ![p] = NewLedger]
    /\ task' = [task EXCEPT ![p] = Idle]
    /\ UNCHANGED <<now, stored, sent, ledger, history>>

\* The cache is restarted or evicts the ledger's keys.
CacheLost ==
    /\ Fault
    /\ auto' = Unknown
    /\ retry' = Unknown
    /\ suppressed' = {}
    /\ circuit' = 0
    /\ forgotten' = TRUE
    /\ UNCHANGED <<now, stored, local, task, sent, history>>

Dispatch(p) ==
    \/ Evaluate(p) \/ Plan(p) \/ BeginOther(p) \/ CheckCap(p) \/ RecordCredit(p)
    \/ SetCredit(p) \/ RequestOther(p) \/ RequestSucceeds(p) \/ RequestFails(p)
    \/ RequestSuspect(p) \/ RequestLimited(p) \/ MayRetry(p) \/ Settle(p)
    \/ CountAttempt(p) \/ SetRetry(p) \/ Penalise(p)

Next ==
    \/ Tick
    \/ \E p \in Procs : Dispatch(p) \/ ProcessDies(p)
    \/ CacheLost

Spec == Init /\ [][Next]_vars

-----------------------------------------------------------------------------
(* Properties.                                                             *)

Pcs == {"idle", "plan", "check", "record", "set", "request", "settle", "mayRetry",
        "attempt", "setRetry", "penalise"}

Task == [pc: Pcs, kind: {"none", "candle", "other"}, target: Times, from: Int,
         step: Nat \ {0}, retrying: BOOLEAN, empty: BOOLEAN]

Ledger == [auto: Nat, retry: Nat, attempts: [Slots -> Nat], suppressed: SUBSET Slots,
           circuit: Nat]

\* A task that found its candle due has a candle for its target, and its batch
\* begins before the target and ends after the start of the day.
BatchInPlace(t) ==
    /\ t.kind = "candle" => t.target \in Slots
    /\ t.kind = "candle" /\ t.pc # "plan" => t.from < t.target /\ t.from + t.step >= 1
    /\ t.pc \notin {"idle", "record", "set", "request"} => t.kind = "candle"

TableOK ==
    /\ now \in Times
    /\ stored \subseteq (Slots \ Closed) \cup {0}
    /\ 0 \in stored
    /\ skipped \subseteq Slots
    /\ omitted \subseteq Slots

LedgerOK ==
    /\ auto \in Counter
    /\ retry \in Counter
    /\ suppressed \subseteq Slots
    /\ circuit \in Nat
    /\ local \in [Procs -> Ledger]
    /\ forgotten \in BOOLEAN

TasksOK ==
    /\ task \in [Procs -> Task]
    /\ \A p \in Procs : BatchInPlace(task[p])

\* The variables hold what the code's columns, cache keys and dictionaries can hold:
\* no market-closure candle is stored, and every batch in flight is in place.
TypeOK == TableOK /\ LedgerOK /\ TasksOK /\ sent \in Nat /\ faults \in Nat

\* The check of the daily cap and the record of the credit are separate cache calls,
\* so processes that check together exceed the cap, but never by more than the other
\* processes, unless the shared count was lost or overwritten.
OvershootBounded == ~forgotten => sent <= Cap + Cardinality(Procs) - 1

\* Recovery leaves no candle behind: every market-open candle before the latest one
\* stored is stored too, unless a plan took it for market closure or an answer of
\* the provider left it out, whatever batches of other processes run meanwhile.
NoSilentHole ==
    \A latest \in stored : \A c \in Slots \ Closed :
        c < latest => c \in stored \cup skipped \cup omitted

\* "Do NOT ... issue requests across closed hours" (scheduler.py): every request for
\* candles is for at least one candle of the open market.
NoRequestAcrossClosure ==
    \A p \in Procs : task[p].kind = "candle" /\ task[p].pc = "request" => Batch(task[p]) # {}

\* "If attempts reach max allowed ..., suppress further automatic requests"
\* (scheduler.py): a candle that is suppressed is not requested.
SuppressedNotRequested ==
    \A p \in Procs : task[p].kind = "candle" /\ task[p].pc = "request" =>
        ~IsSuppressed(p, BatchEnd(task[p]))
=============================================================================
