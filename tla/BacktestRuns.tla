---------------------------- MODULE BacktestRuns ----------------------------
(***************************************************************************)
(* Backtests as tasks of a worker pool: run_xauusd_backtest_task and       *)
(* run_backtest_task load candles query by query while others store them,  *)
(* run, and record what they found in the table of runs.                   *)
(*                                                                         *)
(* A bar is named by the time of its close.  A run is deterministic: its   *)
(* result is the rows it read together with its setup.                     *)
(***************************************************************************)
EXTENDS Integers, Sequences, FiniteSets

CONSTANTS
    Messages,       \* tasks that are sent
    Series,         \* sequence of timeframes, in the order they are loaded
    Stock,          \* bars there may be: <<market, timeframe, close>>
    Requests,       \* what is asked for: market, window, setup, profiles, execution
    HistoryStart, OosStart, OosEnd, ObservationStart,   \* of the calibration policy
    MaxBreaks       \* bound: tasks whose worker is killed, by the time limit or otherwise

Markets == {"XAUUSD", "XAUT"}
SeriesSet == {Series[i] : i \in DOMAIN Series}
Fifteen == Series[1]

RunsAssumption ==
    /\ {HistoryStart, OosStart, OosEnd, ObservationStart} \subseteq Int
    /\ HistoryStart < OosStart /\ OosStart <= OosEnd /\ OosEnd <= ObservationStart
    /\ Stock \subseteq Markets \X SeriesSet \X Nat
    /\ \A r \in Requests : r.market \in Markets /\ r.window \in Int \X Int /\ r.window[1] < r.window[2]
    /\ \A r \in Requests : r.quotes => r.market = "XAUUSD"
ASSUME RunsAssumption

VARIABLES
    bars,       \* closed MarketCandle rows: <<market, timeframe, close>>
    jobs,       \* the task of each message
    runs,       \* BacktestRun rows, each with its trades
    breaks      \* tasks broken so far

runVars == <<bars, jobs, runs, breaks>>

Unsent == [at |-> "unsent"]

-----------------------------------------------------------------------------
(* validate_backtest_window_governance.                                    *)

Meets(w, from, to) == w[1] < to /\ w[2] > from

\* Faulty variant: only the partitions that are protected are looked at.
UnprotectedOnly(w) ==
    /\ ~Meets(w, OosStart, OosEnd)
    /\ ~Meets(w, OosEnd, ObservationStart)
    /\ w[2] <= ObservationStart

\* No protected partition is met, and the window lies in the approved one.
Approved(w) ==
    /\ ~Meets(w, OosStart, OosEnd)
    /\ ~Meets(w, OosEnd, ObservationStart)
    /\ w[2] <= ObservationStart
    /\ HistoryStart <= w[1] /\ w[2] <= OosStart

-----------------------------------------------------------------------------
(* resolve_xauusd_research_profiles.                                       *)

\* A profile is [stated, whole], or none: its status, "none" if it states none, and whether
\* all its policies are complete.
None == [stated |-> "none", whole |-> FALSE, there |-> FALSE]
Calibrated == {"CANDIDATE_NOT_FROZEN", "REVALIDATED_RESEARCH"}
Or(status, otherwise) == IF status = "none" THEN otherwise ELSE status

\* The checks of an artifact: file, schema and instrument, statuses, its own fingerprint.
ArtifactSound(a) ==
    /\ a.readable /\ a.seal # "wrong"
    /\ a.signal.there /\ Or(a.signal.stated, a.status) \in Calibrated
    /\ a.risk.there => Or(a.risk.stated, a.status) \in Calibrated \cup {"none"}

\* Both profiles are found; the status of a risk profile is checked for an artifact only.
Resolves(p) ==
    /\ p.named => ArtifactSound(p)
    /\ p.signal.there /\ p.signal.whole
    /\ Or(p.signal.stated, "CANDIDATE_NOT_FROZEN") \in Calibrated
    /\ p.risk.there /\ p.risk.whole

-----------------------------------------------------------------------------
(* The rows a task reads and what names its run.                           *)

\* One query: the XAUUSD task takes the primary source's bars before the end; the other takes
\* every instrument's, the end included.
Queried(r, f) ==
    {b \in bars : /\ b[2] = f /\ r.window[1] <= b[3]
                  /\ IF r.market = "XAUUSD" THEN b[1] = "XAUUSD" /\ b[3] < r.window[2]
                     ELSE b[3] <= r.window[2]}

\* What a caller may give for the identity: that of an earlier state of the window; for XAUT,
\* a word that stands for nothing.
Claims(r) ==
    IF r.market = "XAUUSD" THEN SUBSET UNION {Queried(r, f) : f \in SeriesSet} ELSE {{}}

\* Faulty variant: the caller's word is taken, as the other task does.
Trusted(job) == TRUE

\* compute_xauusd_dataset_identity: what was loaded is what the caller named.
Verified(job) == job.request.market = "XAUUSD" => job.loaded = job.claim

\* compute_backtest_fingerprint, compute_xauusd_backtest_fingerprint.
RunKey(job) ==
    [failed |-> FALSE, market |-> job.request.market, claim |-> job.claim,
     rest |-> <<job.request.window, job.request.setup, job.request.profiles, job.request.quotes>>]

\* The key of a failure: the dataset and the revision alone.
FailureKey(job) ==
    [failed |-> TRUE, market |-> job.request.market, claim |-> job.claim,
     rest |-> job.request.setup.revision]

Outcome(job) == [data |-> job.loaded, setup |-> job.request.setup]

Recorded(key) == \E row \in runs : row.key = key

-----------------------------------------------------------------------------
Ending(job, word) == [job EXCEPT !.at = "ended", !.word = word]

\* Backfill or live ingestion commits a row.
StoreBar(b) ==
    /\ b \notin bars
    /\ bars' = bars \cup {b}
    /\ UNCHANGED <<jobs, runs, breaks>>

\* BacktestRunLaunchAPIView, or for XAUT another caller.
Launch(m, r, claim) ==
    /\ jobs[m] = Unsent
    /\ r.market = "XAUUSD" => Approved(r.window)
    /\ jobs' = [jobs EXCEPT ![m] =
                  [at |-> "queued", request |-> r, claim |-> claim, next |-> 1,
                   loaded |-> {}, word |-> "none"]]
    /\ UNCHANGED <<bars, runs, breaks>>

\* Until the try block: what is wrong here leaves no row.
BeginRun(m) ==
    /\ jobs[m].at = "queued"
    /\ LET r == jobs[m].request
       IN  jobs' = [jobs EXCEPT ![m] =
             IF r.market = "XAUUSD" /\ ~Approved(r.window) THEN Ending(@, "RAISED")
             ELSE IF r.market = "XAUUSD" /\ ~Resolves(r.profiles)
             THEN Ending(@, "CALIBRATION_REQUIRED")
             ELSE [@ EXCEPT !.at = "loading"]]
    /\ UNCHANGED <<bars, runs, breaks>>

\* No active primary listing when the XAUUSD task looks for it.
MissListing(m) ==
    /\ jobs[m].at = "loading" /\ jobs[m].next = 1 /\ jobs[m].request.market = "XAUUSD"
    /\ jobs' = [jobs EXCEPT ![m] = Ending(@, "EVIDENCE_NOT_CONFIGURED")]
    /\ UNCHANGED <<bars, runs, breaks>>

LoadSeries(m) ==
    LET job == jobs[m]
        read == Queried(job.request, Series[job.next])
    IN  /\ job.at = "loading"
        /\ jobs' = [jobs EXCEPT ![m] =
             [job EXCEPT !.loaded = job.loaded \cup read, !.next = job.next + 1,
                         !.at = IF job.next = Len(Series) THEN "loaded" ELSE "loading"]]
        /\ UNCHANGED <<bars, runs, breaks>>

\* The identity, the quotes, which nothing loads, and the replay, which needs a 15m bar.
Run(m) ==
    /\ jobs[m].at = "loaded"
    /\ LET job == jobs[m]
           runs15m == \E b \in job.loaded : b[2] = Fifteen
       IN  jobs' = [jobs EXCEPT ![m] =
             IF Verified(job) /\ job.request.quotes
             THEN Ending(job, "EVIDENCE_NOT_CONFIGURED")
             ELSE [job EXCEPT !.at = IF Verified(job) /\ runs15m THEN "persisting" ELSE "failing"]]
    /\ UNCHANGED <<bars, runs, breaks>>

Reply(m, word) == jobs' = [jobs EXCEPT ![m] = Ending(@, word)]

\* persist_xauusd_backtest_run and persist_backtest_run, first statement: a row is there.
FindRun(m) ==
    /\ jobs[m].at = "persisting"
    /\ IF Recorded(RunKey(jobs[m])) THEN Reply(m, "COMPLETED")
       ELSE jobs' = [jobs EXCEPT ![m].at = "inserting"]
    /\ UNCHANGED <<bars, runs, breaks>>

Row(key, status, result) == [key |-> key, status |-> status, result |-> result]

\* Faulty variant: the row that another task inserted meanwhile is replaced.
InsertAnyhow(m) ==
    /\ jobs[m].at = "inserting"
    /\ runs' = {row \in runs : row.key # RunKey(jobs[m])}
               \cup {Row(RunKey(jobs[m]), "COMPLETED", Outcome(jobs[m]))}
    /\ Reply(m, "COMPLETED")
    /\ UNCHANGED <<bars, breaks>>

\* The run and its trades, in one transaction; the key is unique.
InsertRun(m) ==
    LET job == jobs[m]
    IN  /\ job.at = "inserting"
        /\ IF Recorded(RunKey(job))
           THEN jobs' = [jobs EXCEPT ![m].at = "failing"] /\ UNCHANGED runs
           ELSE /\ runs' = runs \cup {Row(RunKey(job), "COMPLETED", Outcome(job))}
                /\ Reply(m, "COMPLETED")
        /\ UNCHANGED <<bars, breaks>>

\* The except block: update_or_create, and the exception goes on; nothing retries.
RecordFailure(m) ==
    LET job == jobs[m]
    IN  /\ job.at = "failing"
        /\ runs' = {row \in runs : row.key # FailureKey(job)}
                   \cup {Row(FailureKey(job), "FAILED", [data |-> {}, setup |-> job.request.setup])}
        /\ Reply(m, "RAISED")
        /\ UNCHANGED <<bars, breaks>>

\* The worker is killed, as the time limit does: the message was acknowledged when it came.
BreakRun(m) ==
    /\ jobs[m].at \notin {"unsent", "queued", "ended"} /\ breaks < MaxBreaks
    /\ breaks' = breaks + 1
    /\ Reply(m, "LOST")
    /\ UNCHANGED <<bars, runs>>

-----------------------------------------------------------------------------
RunsInit ==
    /\ bars \in SUBSET (Stock)
    /\ jobs = [m \in Messages |-> Unsent]
    /\ runs = {} /\ breaks = 0

RunsNext ==
    \/ \E b \in Stock: StoreBar(b)
    \/ \E m \in Messages, r \in Requests: \E claim \in Claims(r): Launch(m, r, claim)
    \/ \E m \in Messages: BeginRun(m)
    \/ \E m \in Messages: MissListing(m)
    \/ \E m \in Messages: LoadSeries(m)
    \/ \E m \in Messages: Run(m)
    \/ \E m \in Messages: FindRun(m)
    \/ \E m \in Messages: InsertRun(m)
    \/ \E m \in Messages: RecordFailure(m)
    \/ \E m \in Messages: BreakRun(m)

RunsSpec == RunsInit /\ [][RunsNext]_runVars

-----------------------------------------------------------------------------
(* Properties.                                                             *)

RunsTypeOK ==
    /\ bars \subseteq Stock
    /\ breaks \in 0..MaxBreaks
    /\ \A m \in Messages : jobs[m].at \in {"unsent", "queued", "loading", "loaded", "persisting",
                                           "inserting", "failing", "ended"}
    /\ \A row \in runs : row.status \in {"COMPLETED", "FAILED"}

\* "Completed runs are append-only and never overwritten in place" (BacktestRun), whatever
\* tasks of one request run at once, fail or are killed.
CompletedRunsStand ==
    [][\A row \in runs : row.status = "COMPLETED" => row \in runs']_runs

\* The figures an XAUUSD task replies are those of the row it names, although the row may be
\* another task's and bars are stored while each of them loads.
ReplyMatchesRow ==
    \A m \in Messages :
        jobs[m].at = "ended" /\ jobs[m].word = "COMPLETED" /\ jobs[m].request.market = "XAUUSD" =>
            \E row \in runs : row.key = RunKey(jobs[m]) /\ row.result = Outcome(jobs[m])

\* No completed XAUUSD run has seen a bar that closed before the history of the policy or in
\* its out-of-sample, quarantined or observation partitions.
ResearchIsIsolated ==
    \A row \in runs : row.status = "COMPLETED" /\ row.key.market = "XAUUSD" =>
        \A b \in row.result.data : b[1] = "XAUUSD" /\ HistoryStart <= b[3] /\ b[3] < OosStart
=============================================================================
