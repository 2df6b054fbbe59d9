------------------------- MODULE DecisionPipeline -------------------------
(***************************************************************************)
(* The path of a closed 15m XAUUSD candle: stored by the ingestion task,   *)
(* handed to a Celery worker after the commit, decided by                  *)
(* XauUsdLiveDecisionPipelineService.process_closed_candle, projected into *)
(* the one LiveMonitorState row, alerted, and handed on to the Phase 8     *)
(* paper observation task.  Each database statement or transaction of the  *)
(* task is one step, so two tasks for one candle, late history rows, a     *)
(* failing statement, a killed worker and the explicit catch-up command    *)
(* interleave as they do in the deployment.                                *)
(*                                                                         *)
(* Candles are named by their closing time.  A signal is named by its      *)
(* analysis fingerprint, which is a hash of the candle and of every        *)
(* history row visible when the candle was analysed: here, the pair.       *)
(***************************************************************************)
EXTENDS Naturals, Sequences, FiniteSets

CONSTANTS
    Candles,         \* closing times of closed 15m candles
    ClosureCandles,  \* those wholly inside governed market closure
    LateRows,        \* history rows <= a candle's close that may arrive after it
    Candidate,       \* candidate state the engine computes from a fingerprint
    Workers,         \* worker processes of the "analysis" queue
    MaxRetries,      \* max_retries of the closed-candle task
    CatchUpLimit,    \* "limit" of the catch-up command
    MaxErrors,       \* bound: statements that raise, in a behaviour
    MaxCrashes,      \* bound: kills, and messages lost for another reason
    MaxCopies,       \* bound: equal messages waiting in the broker
    None             \* SQL NULL / no row

Fingerprints == [candle: Candles, seen: SUBSET LateRows]

\* BUY_WINDOW with BUY and SELL_WINDOW with SELL get a risk plan and an alert
\* ("window"); WATCH, READY and CONFLICT only an alert ("notice"); the rest nothing.
CandidateStates == {"window", "notice", "quiet"}

ASSUME CandlesAssumption == Candles \subseteq Nat /\ ClosureCandles \subseteq Candles
ASSUME CandidateAssumption == Candidate \in [Fingerprints -> CandidateStates]
ASSUME BoundsAssumption ==
    /\ MaxRetries \in Nat
    /\ CatchUpLimit \in Nat
    /\ MaxErrors \in Nat
    /\ MaxCrashes \in Nat
    /\ MaxCopies \in Nat
ASSUME NoneAssumption == None \notin Fingerprints
ASSUME FiniteAssumption == IsFiniteSet(Workers) /\ IsFiniteSet(Candles)

VARIABLES
    stored,       \* MarketCandle: closed 15m rows committed
    history,      \* late rows committed so far
    backfilled,   \* history: candles whose row a backfill command created
    queue,        \* closed-candle messages waiting: number of copies of each
    pc,           \* where each worker stands in the task
    job,          \* the message a worker is executing
    fp,           \* the fingerprint a worker computed or found
    owes,         \* alert a worker created and must still transport
    signals,      \* SignalRecord rows, in creation order
    plans,        \* LiveRiskPlanRecord rows, by their signal's fingerprint
    monitor,      \* decision-owned fields of the LiveMonitorState row
    alert,        \* AlertEvent status of the alert of each fingerprint
    sends,        \* how often each alert was handed to the transport
    evaluations,  \* how often each candle's decision was projected
    recon,        \* rows read by a state reconstruction that has not written yet
    toObserve,    \* paper observation messages waiting
    observed,     \* PaperObservationRecord rows, by signal fingerprint
    errors,       \* history: statements that raised so far
    crashes       \* history: kills and lost messages so far

rowVars   == <<stored, history, backfilled>>
workVars  == <<pc, job, fp, owes>>
monVars   == <<monitor, recon>>
alertVars == <<alert, sends>>
obsVars   == <<toObserve, observed>>
faultVars == <<errors, crashes>>
vars == <<stored, history, backfilled, queue, pc, job, fp, owes, signals, plans, monitor,
          alert, sends, evaluations, recon, toObserve, observed, errors, crashes>>

Messages == [candle: Candles, attempt: 0..MaxRetries]
Steps == {"idle", "guard", "read", "saveSignal", "savePlan", "commit", "hooks", "mark", "handOn"}
\* AlertStatus of apps/alerts/models.py; "NONE" is "no row".
AlertStatuses == {"NONE", "PENDING", "DISPATCHED", "FAILED", "DISABLED"}

Window(f) == Candidate[f] = "window"
Quiet(f) == Candidate[f] = "quiet"

Recorded == {signals[i] : i \in DOMAIN signals}
HasSignal(c) == \E f \in Recorded : f.candle = c

Init ==
    /\ stored = {}
    /\ history = {}
    /\ backfilled = {}
    /\ queue = [m \in Messages |-> 0]
    /\ pc = [w \in Workers |-> "idle"]
    /\ job = [w \in Workers |-> None]
    /\ fp = [w \in Workers |-> None]
    /\ owes = [w \in Workers |-> None]
    /\ signals = <<>>
    /\ plans = {}
    /\ monitor = [signal |-> None, plan |-> None, sequence |-> 0]
    /\ alert = [f \in Fingerprints |-> "NONE"]
    /\ sends = [f \in Fingerprints |-> 0]
    /\ evaluations = [c \in Candles |-> 0]
    /\ recon = None
    /\ toObserve = {}
    /\ observed = {}
    /\ errors = 0
    /\ crashes = 0

-----------------------------------------------------------------------------
(* Ingestion and recovery: the two producers of closed-candle messages.    *)

First(c) == [candle |-> c, attempt |-> 0]
Again(m) == [candle |-> m.candle, attempt |-> m.attempt + 1]

StatementRaises == errors < MaxErrors /\ errors' = errors + 1 /\ UNCHANGED crashes
ProcessDies == crashes < MaxCrashes /\ crashes' = crashes + 1 /\ UNCHANGED errors

\* Copies of a message per candle of U are appended to the queue.
EnqueueFirst(U) ==
    /\ \A c \in U : queue[First(c)] < MaxCopies
    /\ queue' = [m \in Messages |->
                    IF m.attempt = 0 /\ m.candle \in U THEN queue[m] + 1 ELSE queue[m]]

\* ingest_primary_candles skips closure candles.  It creates the row and, once the
\* transaction committed, sends the task; only the call that created it sends it.
IngestCandle(c) ==
    /\ c \notin stored \cup ClosureCandles
    /\ stored' = stored \cup {c}
    /\ EnqueueFirst({c})
    /\ UNCHANGED <<history, backfilled, workVars, signals, plans, monVars, alertVars, evaluations, obsVars, faultVars>>

\* The process dies, or the broker refuses, between the commit and the send.
IngestWithoutDispatch(c) ==
    /\ c \notin stored \cup ClosureCandles
    /\ stored' = stored \cup {c}
    /\ ProcessDies
    /\ UNCHANGED <<history, backfilled, queue, workVars, signals, plans, monVars, alertVars, evaluations, obsVars>>

\* The backfill commands store any candle, in closure or not, and never send a task.
BackfillCandle(c) ==
    /\ c \notin stored
    /\ stored' = stored \cup {c}
    /\ backfilled' = backfilled \cup {c}
    /\ UNCHANGED <<history, queue, workVars, signals, plans, monVars, alertVars, evaluations, obsVars, faultVars>>

\* A 1h, 4h, 1d or back-filled row at or before a candle's close is committed.
ArriveLateRow(r) ==
    /\ r \notin history
    /\ history' = history \cup {r}
    /\ UNCHANGED <<stored, backfilled, queue, workVars, signals, plans, monVars, alertVars, evaluations, obsVars, faultVars>>

Newest(S, n) == {c \in S : Cardinality({d \in S : d > c}) < n}

\* catch_up_unprocessed_xauusd_candles: of the 2*limit newest closed candles, the
\* newest "limit" that have no signal and are not market closure.
Unprocessed ==
    Newest({c \in Newest(stored, 2 * CatchUpLimit) : ~HasSignal(c) /\ c \notin ClosureCandles},
           CatchUpLimit)

CatchUp ==
    /\ Unprocessed # {}
    /\ EnqueueFirst(Unprocessed)
    /\ UNCHANGED <<rowVars, workVars, signals, plans, monVars, alertVars, evaluations, obsVars, faultVars>>

-----------------------------------------------------------------------------
(* The closed-candle task, one action per database statement.              *)

Goto(w, step) == pc' = [pc EXCEPT ![w] = step]
Finish(w) ==
    /\ Goto(w, "idle")
    /\ job' = [job EXCEPT ![w] = None]
    /\ fp' = [fp EXCEPT ![w] = None]
    /\ owes' = [owes EXCEPT ![w] = None]

\* Faulty variant: the candle before a closure is taken for closure too.
SuppressedBefore(c) == {c, c + 1} \cap ClosureCandles # {}

\* Faulty variant: no idempotency guard.
NeverProcessed(c) == FALSE

\* is_expected_market_interval_closed, and the query of the idempotency guards.
Suppressed(c) == c \in ClosureCandles
AlreadyProcessed(c) == HasSignal(c)

\* Faulty variant: a message is taken without looking at the guards or the queue.
ReceiveUnchecked(w, m) ==
    /\ pc[w] = "idle"
    /\ queue' = [queue EXCEPT ![m] = @ - 1]
    /\ Goto(w, "guard") /\ job' = [job EXCEPT ![w] = m]
    /\ UNCHANGED <<rowVars, fp, owes, signals, plans, monVars, alertVars, evaluations, obsVars, faultVars>>

\* A worker takes a message.  Closure candles and candles that already have a
\* signal end the task here (steps 0a and 0b).
Receive(w, m) ==
    /\ pc[w] = "idle"
    /\ queue[m] > 0
    /\ queue' = [queue EXCEPT ![m] = @ - 1]
    /\ IF Suppressed(m.candle) \/ AlreadyProcessed(m.candle)
       THEN UNCHANGED <<pc, job>>
       ELSE Goto(w, "guard") /\ job' = [job EXCEPT ![w] = m]
    /\ UNCHANGED <<rowVars, fp, owes, signals, plans, monVars, alertVars, evaluations, obsVars, faultVars>>

\* Step 2b: the service looks again; a signal saved since then is returned, and
\* the task goes on to hand that signal to the paper observation.
Guard(w) ==
    /\ pc[w] = "guard"
    /\ \/ /\ ~AlreadyProcessed(job[w].candle)
          /\ Goto(w, "read")
          /\ UNCHANGED fp
       \/ \E f \in Recorded :
             /\ f.candle = job[w].candle
             /\ fp' = [fp EXCEPT ![w] = f]
             /\ Goto(w, "handOn")
    /\ UNCHANGED <<rowVars, queue, job, owes, signals, plans, monVars, alertVars, evaluations, obsVars, faultVars>>

\* Steps 3-6: the history visible now is read and analysed.
ReadHistory(w) ==
    /\ pc[w] = "read"
    /\ fp' = [fp EXCEPT ![w] = [candle |-> job[w].candle, seen |-> history]]
    /\ Goto(w, "saveSignal")
    /\ UNCHANGED <<rowVars, queue, job, owes, signals, plans, monVars, alertVars, evaluations, obsVars, faultVars>>

\* Faulty variant: a candle keeps its newest signal only.
PersistedLatest(f) == Append(SelectSeq(signals, LAMBDA g : g.candle # f.candle), f)

\* Faulty variant: the plan is not saved.
PlanSkipped(f) == "commit"

\* Faulty variant: only window decisions reach the monitor row.
OnlyWindowsProjected(f) == IF Window(f) THEN "savePlan" ELSE "handOn"

\* save_dual_side_snapshot: get_or_create on the analysis fingerprint; a plan is
\* made for window decisions only.
Persisted(f) == IF f \in Recorded THEN signals ELSE Append(signals, f)
AfterSave(f) == IF Window(f) THEN "savePlan" ELSE "commit"

SaveSignal(w) ==
    /\ pc[w] = "saveSignal"
    /\ signals' = Persisted(fp[w])
    /\ Goto(w, AfterSave(fp[w]))
    /\ UNCHANGED <<rowVars, queue, job, fp, owes, plans, monVars, alertVars, evaluations, obsVars, faultVars>>

\* Steps 7-8: get_or_create on the risk plan fingerprint.
SavePlan(w) ==
    /\ pc[w] = "savePlan"
    /\ plans' = plans \cup {fp[w]}
    /\ Goto(w, "commit")
    /\ UNCHANGED <<rowVars, queue, job, fp, owes, signals, monVars, alertVars, evaluations, obsVars, faultVars>>

\* Faulty variant: the event id is not looked up.
AlertAgain(f) == ~Quiet(f)

\* _create_or_get_alert skips an event id it already has.
NewAlert(f) == ~Quiet(f) /\ alert[f] = "NONE"

\* Steps 10-11, one transaction that holds the LiveMonitorState row: overwrite the
\* decision-owned fields, then create the candidate alert if its event id is new
\* and the market is open now.
CommitDecision(w) ==
    /\ pc[w] = "commit"
    /\ monitor' = [signal   |-> fp[w],
                   plan     |-> IF Window(fp[w]) THEN fp[w] ELSE None,
                   sequence |-> monitor.sequence + 1]
    /\ evaluations' = [evaluations EXCEPT ![job[w].candle] = @ + 1]
    /\ \E marketOpen \in BOOLEAN :
          IF marketOpen /\ NewAlert(fp[w])
          THEN /\ alert' = [alert EXCEPT ![fp[w]] = "PENDING"]
               /\ owes' = [owes EXCEPT ![w] = fp[w]]
          ELSE UNCHANGED <<alert, owes>>
    /\ Goto(w, "hooks")
    /\ UNCHANGED <<rowVars, queue, job, fp, signals, plans, recon, sends, obsVars, faultVars>>

\* on_commit: AlertTransportDispatcher.dispatch_alert for the alert this
\* transaction created.  Without a configured channel the row becomes DISABLED ...
RunHooks(w) ==
    /\ pc[w] = "hooks"
    /\ \/ /\ owes[w] = None
          /\ Goto(w, "handOn")
          /\ UNCHANGED <<owes, alertVars>>
       \/ /\ owes[w] # None
          /\ alert' = [alert EXCEPT ![owes[w]] = "DISABLED"]
          /\ owes' = [owes EXCEPT ![w] = None]
          /\ Goto(w, "handOn")
          /\ UNCHANGED sends
       \/ /\ owes[w] # None
          /\ sends' = [sends EXCEPT ![owes[w]] = @ + 1]
          /\ Goto(w, "mark")
          /\ UNCHANGED <<owes, alert>>
    /\ UNCHANGED <<rowVars, queue, job, fp, signals, plans, monVars, evaluations, obsVars, faultVars>>

\* ... otherwise the channels are called first and their result is saved after.
MarkAlert(w) ==
    /\ pc[w] = "mark"
    /\ \E s \in {"DISPATCHED", "FAILED"} : alert' = [alert EXCEPT ![owes[w]] = s]
    /\ owes' = [owes EXCEPT ![w] = None]
    /\ Goto(w, "handOn")
    /\ UNCHANGED <<rowVars, queue, job, fp, signals, plans, monVars, sends, evaluations, obsVars, faultVars>>

\* The task sends the paper observation task and ends.
HandOn(w) ==
    /\ pc[w] = "handOn"
    /\ toObserve' = toObserve \cup {fp[w]}
    /\ Finish(w)
    /\ UNCHANGED <<rowVars, queue, signals, plans, monVars, alertVars, evaluations, observed, faultVars>>

\* ... or fails to: the error is logged and swallowed.
HandOnFails(w) ==
    /\ pc[w] = "handOn"
    /\ StatementRaises
    /\ Finish(w)
    /\ UNCHANGED <<rowVars, queue, signals, plans, monVars, alertVars, evaluations, obsVars>>

\* Faulty variant: one retry too few.
RetriesButOne(m) == m.attempt + 1 < MaxRetries

Retries(m) == m.attempt < MaxRetries

\* Any other statement raises: what was committed stays, and self.retry sends the
\* message again until max_retries is reached.
TaskFails(w) ==
    /\ pc[w] \notin {"idle", "handOn"}
    /\ StatementRaises
    /\ IF Retries(job[w])
       THEN /\ queue[Again(job[w])] < MaxCopies
            /\ queue' = [queue EXCEPT ![Again(job[w])] = @ + 1]
       ELSE UNCHANGED queue
    /\ Finish(w)
    /\ UNCHANGED <<rowVars, signals, plans, monVars, alertVars, evaluations, obsVars>>

\* The worker process is killed.  Messages are acknowledged on receipt (Celery's
\* default; the settings do not set acks_late), so nothing is redelivered.
WorkerKilled(w) ==
    /\ pc[w] # "idle"
    /\ ProcessDies
    /\ Finish(w)
    /\ UNCHANGED <<rowVars, queue, signals, plans, monVars, alertVars, evaluations, obsVars>>

-----------------------------------------------------------------------------
(* State reconstruction and paper observation.                             *)

\* order_by("-timestamp", "-created_at")
IsLatest(f) ==
    \E i \in DOMAIN signals :
        /\ signals[i] = f
        /\ \A j \in DOMAIN signals :
              signals[j].candle < f.candle \/ (signals[j].candle = f.candle /\ j <= i)

\* reconstruct_xauusd_state reads the newest signal and its plan first ...
ReconstructRead ==
    /\ recon = None
    /\ \/ /\ signals = <<>>
          /\ recon' = [signal |-> None, plan |-> None]
       \/ \E f \in Recorded :
             /\ IsLatest(f)
             /\ recon' = [signal |-> f, plan |-> IF f \in plans THEN f ELSE None]
    /\ UNCHANGED <<rowVars, queue, workVars, signals, plans, monitor, alertVars, evaluations, obsVars, faultVars>>

\* Faulty variant: the plan fields are not cleared when there is no plan.
ReconstructKeepingPlan ==
    /\ recon # None
    /\ monitor' = [monitor EXCEPT !.signal = IF recon.signal = None THEN @ ELSE recon.signal,
                                  !.plan = IF recon.plan = None THEN @ ELSE recon.plan]
    /\ recon' = None
    /\ UNCHANGED <<rowVars, queue, workVars, signals, plans, alertVars, evaluations, obsVars, faultVars>>

\* ... and only then locks the row and writes what it read.  (The plan lookup is a
\* statement of its own; a plan is never changed, so reading it at once or later
\* differs only in whether a plan being saved meanwhile is seen.)
ReconstructWrite ==
    /\ recon # None
    /\ monitor' = [monitor EXCEPT !.signal = IF recon.signal = None THEN @ ELSE recon.signal,
                                  !.plan = recon.plan]
    /\ recon' = None
    /\ UNCHANGED <<rowVars, queue, workVars, signals, plans, alertVars, evaluations, obsVars, faultVars>>

\* process_phase8_paper_observation_task: get_or_create on a fingerprint that is a
\* function of the signal's fingerprint.
Observe(f) ==
    /\ f \in toObserve
    /\ toObserve' = toObserve \ {f}
    /\ observed' = IF f \in Recorded THEN observed \cup {f} ELSE observed
    /\ UNCHANGED <<rowVars, queue, workVars, signals, plans, monVars, alertVars, evaluations, faultVars>>

\* The worker is killed or every retry of the observation fails.
LoseObservation(f) ==
    /\ f \in toObserve
    /\ toObserve' = toObserve \ {f}
    /\ ProcessDies
    /\ UNCHANGED <<rowVars, queue, workVars, signals, plans, monVars, alertVars, evaluations, observed>>

-----------------------------------------------------------------------------
WorkerStep(w) ==
    \/ \E m \in Messages : Receive(w, m)
    \/ Guard(w)
    \/ ReadHistory(w)
    \/ SaveSignal(w)
    \/ SavePlan(w)
    \/ CommitDecision(w)
    \/ RunHooks(w)
    \/ MarkAlert(w)
    \/ HandOn(w)

WorkerFault(w) == HandOnFails(w) \/ TaskFails(w) \/ WorkerKilled(w)

Next ==
    \/ \E c \in Candles : IngestCandle(c) \/ IngestWithoutDispatch(c) \/ BackfillCandle(c)
    \/ \E r \in LateRows : ArriveLateRow(r)
    \/ CatchUp
    \/ \E w \in Workers : WorkerStep(w) \/ WorkerFault(w)
    \/ ReconstructRead
    \/ ReconstructWrite
    \/ \E f \in Fingerprints : Observe(f) \/ LoseObservation(f)

Spec == Init /\ [][Next]_vars

\* The deployment keeps the worker pool of the "analysis" queue running: a worker
\* that can take its next step, or a message that can be taken, is not left
\* forever.  Nothing makes ingestion, catch-up or reconstruction happen.
Fairness ==
    /\ \A w \in Workers : WF_vars(WorkerStep(w))
    /\ \A f \in Fingerprints : WF_vars(Observe(f) \/ LoseObservation(f))

FairSpec == Spec /\ Fairness

-----------------------------------------------------------------------------
(* Properties.                                                             *)

NullableFingerprint == Fingerprints \cup {None}

\* The types of the state; the queue never holds a negative number of messages.
TypeOK ==
    /\ stored \subseteq Candles
    /\ history \subseteq LateRows
    /\ backfilled \subseteq stored
    /\ queue \in [Messages -> 0..MaxCopies]
    /\ pc \in [Workers -> Steps]
    /\ job \in [Workers -> Messages \cup {None}]
    /\ fp \in [Workers -> NullableFingerprint]
    /\ owes \in [Workers -> NullableFingerprint]
    /\ signals \in Seq(Fingerprints)
    /\ plans \subseteq Fingerprints
    /\ monitor \in [signal: NullableFingerprint, plan: NullableFingerprint, sequence: Nat]
    /\ alert \in [Fingerprints -> AlertStatuses]
    /\ sends \in [Fingerprints -> Nat]
    /\ evaluations \in [Candles -> Nat]
    /\ recon \in [signal: NullableFingerprint, plan: NullableFingerprint] \cup {None}
    /\ toObserve \subseteq Fingerprints
    /\ observed \subseteq Fingerprints
    /\ errors \in 0..MaxErrors
    /\ crashes \in 0..MaxCrashes

Working(c) == {w \in Workers : pc[w] # "idle" /\ job[w].candle = c}
Evaluating(c) == {w \in Working(c) : pc[w] \in {"read", "saveSignal", "savePlan", "commit"}}

Decided == {"savePlan", "commit", "hooks", "mark", "handOn"}

\* What a task relies on between its statements, while other tasks run: past the
\* save its signal is committed, from the transaction on its window plan too, and
\* an alert it still has to transport is PENDING, unsent until the channels are
\* called, and owed by no other task.
ConsistentTask(w) ==
    /\ pc[w] = "idle" => owes[w] = None
    /\ pc[w] # "idle" => job[w] \in Messages
    /\ pc[w] \in Decided \cup {"saveSignal"} =>
         fp[w] \in Fingerprints /\ fp[w].candle = job[w].candle
    /\ pc[w] \in Decided => fp[w] \in Recorded
    /\ pc[w] = "savePlan" => Window(fp[w])
    /\ pc[w] \in {"commit", "hooks", "mark"} => (Window(fp[w]) => fp[w] \in plans)
    /\ pc[w] = "mark" => owes[w] # None
    /\ owes[w] # None =>
         /\ pc[w] \in {"hooks", "mark"}
         /\ alert[owes[w]] = "PENDING"
         /\ sends[owes[w]] = IF pc[w] = "mark" THEN 1 ELSE 0
         /\ \A v \in Workers \ {w} : owes[v] # owes[w]

TaskIsConsistent == \A w \in Workers : ConsistentTask(w)

\* What the dashboard shows can always be traced to rows that are committed: the
\* decision to a SignalRecord, the plan to the LiveRiskPlanRecord of that same
\* decision, whichever of process_closed_candle and reconstruct_xauusd_state wrote last.
ProjectionIsDurable ==
    /\ monitor.signal # None => monitor.signal \in Recorded
    /\ monitor.plan # None => monitor.plan = monitor.signal /\ monitor.plan \in plans

\* AlertEvent is keyed by an event id: whatever tasks repeat, one alert is handed to
\* the transport once at most, and its saved status never claims a send that did not happen.
AlertAtMostOnce ==
    \A f \in Fingerprints :
        /\ sends[f] <= 1
        /\ alert[f] \in {"DISPATCHED", "FAILED"} => sends[f] = 1
        /\ alert[f] \in {"NONE", "DISABLED"} => sends[f] = 0

\* The rows a reconstruction has read are committed, and a plan belongs to the
\* signal read; every plan is the plan of a recorded window decision.
ReadsAreDurable ==
    /\ plans \subseteq {f \in Recorded : Window(f)}
    /\ recon # None =>
         /\ recon.signal # None => recon.signal \in Recorded
         /\ recon.plan # None => recon.plan = recon.signal /\ recon.plan \in plans

\* An alert only exists for a recorded, non-neutral decision, and a BUY/SELL window
\* alert only once the plan whose prices it carries is committed.
AlertIsBacked ==
    \A f \in Fingerprints :
        alert[f] # "NONE" => f \in Recorded /\ ~Quiet(f) /\ (Window(f) => f \in plans)

\* One paper observation per signal and none without one, however often the
\* observation task is sent.
ObservationIsBacked == observed \cup toObserve \subseteq Recorded

\* However often a candle is queued (ingestion, catch-up, retries), its decision is
\* projected at most once per worker: only tasks that passed the idempotency guard
\* before the first signal row was committed can still do so.
BoundedFor(c) ==
    /\ HasSignal(c) => evaluations[c] + Cardinality(Evaluating(c)) <= Cardinality(Workers)
    /\ ~HasSignal(c) => evaluations[c] = 0

EvaluationsBounded == \A c \in Candles : BoundedFor(c)

\* A candle whose signal is committed but whose decision was never projected and
\* which no task is still working on.  The guards skip it from then on, so its
\* plan, projection and alert are never produced.
Stranded == {c \in Candles : HasSignal(c) /\ evaluations[c] = 0 /\ Evaluating(c) = {}}

\* Each failed statement or killed worker strands one candle at most; without
\* any, none is ever stranded.
StrandedOnlyByFaults == Cardinality(Stranded) <= errors + crashes

\* When nothing failed and nothing is left to do, every ingested candle has a signal,
\* was projected and handed to observation, and its window decisions have their plan.
\* Catch-up decides no closure candle, whatever a backfill has stored.
CompleteWhenQuiet ==
    (/\ errors = 0 /\ crashes = 0
     /\ \A w \in Workers : pc[w] = "idle"
     /\ \A m \in Messages : queue[m] = 0)
    => /\ \A c \in stored \ backfilled :
            /\ evaluations[c] >= 1
            /\ \E f \in Recorded : f.candle = c /\ f \in toObserve \cup observed
       /\ \A f \in Recorded : f.candle \notin ClosureCandles /\ (Window(f) => f \in plans)

\* Rows are immutable: no step removes or reorders a signal, drops a plan or an
\* observation, or changes an alert whose status is final.
HistoryIsImmutable ==
    [][/\ Len(signals) <= Len(signals') /\ SubSeq(signals', 1, Len(signals)) = signals
       /\ plans \subseteq plans'
       /\ observed \subseteq observed'
       /\ \A f \in Fingerprints :
            alert[f] \in {"DISPATCHED", "FAILED", "DISABLED"} => alert'[f] = alert[f]]_vars

\* ONE LEGITIMATE PRIMARY CANDLE = AT MOST ONE LIVE SIGNAL EVALUATION.
AtMostOneEvaluation == \A c \in Candles : evaluations[c] <= 1

\* Retries are enough against failing statements: as long as no process dies, a
\* candle whose task is queued ends with a signal (unless it is market closure).
QueuedCandleIsDecided ==
    \A c \in Candles \ ClosureCandles :
        queue[First(c)] > 0 ~> HasSignal(c) \/ crashes > 0

Ledger == INSTANCE DecisionLedger WITH
    Decisions <- Fingerprints,
    Actionable <- {f \in Fingerprints : Window(f)},
    Silent <- {f \in Fingerprints : Quiet(f)},
    recorded <- Recorded,
    planned <- plans,
    shown <- monitor.signal,
    shownPlan <- monitor.plan,
    announced <- {f \in Fingerprints : alert[f] # "NONE"},
    told <- {f \in Fingerprints : sends[f] > 0}

\* The pipeline implements the ledger.
ImplementsLedger == Ledger!LedgerSpec
=============================================================================
