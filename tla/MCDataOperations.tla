-------------------------- MODULE MCDataOperations --------------------------
(***************************************************************************)
(* Parts of the data operations that share no state in their modules,      *)
(* checked in one run: the disjoint union of their state spaces.  A        *)
(* behaviour is one of part's, chosen at the start; the other parts stay   *)
(* in an initial state.                                                    *)
(***************************************************************************)
EXTENDS MCCandleDispatch, MCCandleHistory, MCReadinessAudit, MCBacktestRuns

VARIABLE part

Parts == {"dispatch", "history", "audit", "backtests"}

\* A step of part p leaves every other part as it is.
Stepping(p) ==
    /\ part = p
    /\ UNCHANGED part
    /\ p # "dispatch" => UNCHANGED vars
    /\ p # "history" => UNCHANGED historyVars
    /\ p # "audit" => UNCHANGED auditVars
    /\ p # "backtests" => UNCHANGED runVars

Dispatching == Stepping("dispatch")
Backfilling == Stepping("history")
Auditing    == Stepping("audit")
Testing     == Stepping("backtests")

OperationsInit ==
    /\ part \in Parts
    /\ Init
    /\ HistoryInit
    /\ part # "history" => clock = 0 /\ offered = CHOOSE o \in Offers : TRUE
    /\ AuditInit
    /\ RunsInit
    /\ part # "backtests" => bars = {}

OperationsNext ==
    \/ Dispatching /\ Tick
    \/ Dispatching /\ \E p \in Procs: (Dispatch(p) \/ ProcessDies(p))
    \/ Dispatching /\ CacheLost
    \/ Backfilling /\ \E w \in Windows, resume \in BOOLEAN: BeginFill(w, resume)
    \/ Backfilling /\ ChooseEnd
    \/ Backfilling /\ RunOutOfBudget
    \/ Backfilling /\ Recheck
    \/ Backfilling /\ \E outcome \in {"answered", "transient", "refused"}: Request(outcome)
    \/ Backfilling /\ LeaveFrame
    \/ Backfilling /\ PersistPage
    \/ Backfilling /\ BreakFill
    \/ Backfilling /\ NextBar
    \/ Backfilling /\ \E f \in FrameSet, to \in Bars: IngestLive(f, to)
    \/ Backfilling /\ RequestElsewhere
    \/ Auditing /\ \E f \in AuditFrameSet, from, to \in AuditBars: StoreRows(f, from, to)
    \/ Auditing /\ StoreForeign
    \/ Auditing /\ CountRows
    \/ Auditing /\ ReadCoverage
    \/ Auditing /\ ReadIdentity
    \/ Auditing /\ \E macro, friction, quotes \in BOOLEAN: Seal(macro, friction, quotes)
    \/ Testing /\ \E b \in Stock: StoreBar(b)
    \/ Testing /\ \E m \in Messages, r \in Requests: \E claim \in Claims(r): Launch(m, r, claim)
    \/ Testing /\ \E m \in Messages: BeginRun(m)
    \/ Testing /\ \E m \in Messages: MissListing(m)
    \/ Testing /\ \E m \in Messages: LoadSeries(m)
    \/ Testing /\ \E m \in Messages: Run(m)
    \/ Testing /\ \E m \in Messages: FindRun(m)
    \/ Testing /\ \E m \in Messages: InsertRun(m)
    \/ Testing /\ \E m \in Messages: RecordFailure(m)
    \/ Testing /\ \E m \in Messages: BreakRun(m)

OperationsSpec ==
    OperationsInit /\ [][OperationsNext]_<<part, vars, historyVars, auditVars, runVars>>
=============================================================================
