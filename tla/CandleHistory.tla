--------------------------- MODULE CandleHistory ---------------------------
(***************************************************************************)
(* The stored history of candles and the two that write it:                *)
(* backfill_xauusd_twelve_data, which pages backwards through a window and *)
(* can be resumed, and live ingestion, which appends what has closed since *)
(* the latest row.                                                         *)
(*                                                                         *)
(* Time counts bars: bar b opens at b and closes at b + 1.  A frame's bars *)
(* are numbered alike.  One UTC day, as far as credits are concerned.      *)
(***************************************************************************)
EXTENDS Integers, Sequences, FiniteSets

CONSTANTS
    Frames,         \* sequence of timeframes, largest first
    Offers,         \* histories the provider may have: [frames -> sets of bars]
    Shut,           \* bars of which the market is closed throughout
    LastBar,        \* bound of time
    Windows,        \* windows <<start, end>> an operator asks for
    PageSize, MaxRequests, Ceiling, Reserve, RecheckEvery,  \* arguments of the backfill
    MaxFills,       \* bound: runs of the backfill
    MaxOthers       \* bound: requests of others

Bars == 0..LastBar
FrameSet == {Frames[i] : i \in DOMAIN Frames}

HistoryAssumption ==
    /\ LastBar \in Nat /\ Shut \subseteq Bars
    /\ Frames \in Seq(FrameSet) /\ Frames # <<>>
    /\ \A o \in Offers : o \in [FrameSet -> SUBSET Bars]
    /\ Windows \subseteq {w \in Bars \X Bars : w[1] < w[2]}
    /\ {PageSize, MaxRequests, Ceiling, Reserve, RecheckEvery} \subseteq Int
    /\ PageSize > 0 /\ MaxRequests >= 0 /\ Ceiling >= 0 /\ Reserve >= 0 /\ RecheckEvery > 0
ASSUME HistoryAssumption

VARIABLES
    offered,    \* what the provider has
    clock,      \* bars before it have closed
    candles,    \* MarketCandle rows of the primary source
    usage,      \* daily_usage the provider counts
    others,     \* requests of others so far
    fill,       \* the backfill under way or done
    fills,      \* number of runs of the backfill
    looks       \* history: per frame, the ends of the windows that runs looked for, whether each
                \* look was at sound rows, and whether live ingestion had stored a row

historyVars ==
    <<offered, clock, candles, usage, others, fill, fills, looks>>
table == <<offered, candles>>
filling == <<usage, others, fill, fills, looks>>

NoFill == [at |-> "idle"]

Least(S) == CHOOSE b \in S : \A c \in S : b <= c
Latest(S) == CHOOSE b \in S : \A c \in S : c <= b
Window(w) == w[1]..(w[2] - 1)

-----------------------------------------------------------------------------
(* The provider.                                                           *)

\* time_series: the newest bars up to one that opens at end, the forming one among them.
Newest(n, S) == {b \in S : Cardinality({c \in S : c >= b}) <= n}
Page(f, end) == Newest(PageSize, {b \in offered[f] : b <= end /\ b <= clock})

\* _parse_candle_rows: bars after end and bars that have not closed are left out.
Parsed(page, end) == {b \in page : b <= end /\ b < clock}

\* What is left of the day's credits, with the reserve for telemetry.
Allowance == IF usage + Reserve < Ceiling THEN Ceiling - usage - Reserve ELSE 0

-----------------------------------------------------------------------------
(* The backfill.                                                           *)

Frame == Frames[fill.frame]

\* handle, up to the budget; a guard that finds no credits ends the run at once.
BeginFill(w, resume) ==
    /\ fill.at \in {"idle", "done"} /\ fills < MaxFills
    /\ Allowance > 0 /\ MaxRequests > 0
    /\ fills' = fills + 1
    /\ fill' = [at |-> "frame", window |-> w, resume |-> resume, frame |-> 1,
                budget |-> IF MaxRequests < Allowance THEN MaxRequests ELSE Allowance,
                end |-> w[2], attempt |-> 1, page |-> {},
                attempts |-> 0, checked |-> TRUE, statuses |-> <<>>,
                sinceBegin |-> 0, sinceLook |-> 0]
    /\ UNCHANGED <<usage, others, looks, clock>> /\ UNCHANGED table

\* The frame's summary; the run goes on with the next frame, or is done.
WithStatus(status) ==
    [fill EXCEPT !.statuses = Append(@, status),
                 !.at = IF fill.frame = Len(Frames) THEN "done" ELSE "frame",
                 !.frame = IF fill.frame = Len(Frames) THEN @ ELSE @ + 1]

\* A budget that is used up ends the whole run.
Halted == [fill EXCEPT !.statuses = Append(@, "PARTIAL"), !.at = "done"]

\* The window was over; its rows were all of the backfill, or without a hole up to its end.
Looked(f) ==
    LET found == candles[f] \cap Window(fill.window)
        whole == found # {} => offered[f] \cap (Least(found)..(fill.window[2] - 1)) \subseteq found
    IN  [looks EXCEPT ![f] =
            [ends  |-> looks[f].ends \cup {fill.window[2]},
             sound |-> looks[f].sound /\ fill.window[2] <= clock /\ (~looks[f].lived \/ whole),
             lived |-> looks[f].lived]]

\* The first page ends where the window does, or at the earliest row found in it.
ChooseEnd ==
    /\ fill.at = "frame"
    /\ LET found == IF fill.resume THEN candles[Frame] \cap Window(fill.window) ELSE {}
           end   == IF found = {} THEN fill.window[2] ELSE Least(found)
       IN  fill' = IF end <= fill.window[1] THEN WithStatus("ALREADY_COVERED")
                   ELSE [fill EXCEPT !.at = "page", !.end = end, !.attempt = 1]
    /\ looks' = Looked(Frame)
    /\ UNCHANGED <<usage, others, fills, clock>> /\ UNCHANGED table

\* Before every attempt: the budget, and at times the provider's own count again.
RecheckDue == fill.attempts > 0 /\ fill.attempts % RecheckEvery = 0 /\ ~fill.checked

RunOutOfBudget ==
    /\ fill.at = "page" /\ fill.attempts >= fill.budget
    /\ fill' = Halted
    /\ UNCHANGED <<usage, others, fills, looks, clock>> /\ UNCHANGED table

Recheck ==
    /\ fill.at = "page" /\ fill.attempts < fill.budget /\ RecheckDue
    /\ fill' = IF Allowance = 0 THEN Halted ELSE [fill EXCEPT !.checked = TRUE, !.sinceLook = 0]
    /\ UNCHANGED <<usage, others, fills, looks, clock>> /\ UNCHANGED table

\* A retry is not counted.
CountedFirst(f) == [f EXCEPT !.attempts = IF f.attempt = 1 THEN @ + 1 ELSE @, !.checked = FALSE]

\* An attempt is counted before the call.
Counted(f) == [f EXCEPT !.attempts = @ + 1, !.checked = FALSE]

\* Three attempts at a page that times out; any other failure ends the command, which then
\* says nothing of any frame.
Request(outcome) ==
    /\ fill.at = "page" /\ fill.attempts < fill.budget /\ ~RecheckDue
    /\ usage' = usage + 1
    /\ fill' = CASE outcome = "answered" ->
                      [Counted(fill) EXCEPT !.at = "received",
                                            !.page = Parsed(Page(Frame, fill.end), fill.end)]
                 [] outcome = "transient" /\ fill.attempt < 3 ->
                      [Counted(fill) EXCEPT !.attempt = @ + 1]
                 [] OTHER -> NoFill
    /\ UNCHANGED <<others, fills, looks, clock>> /\ UNCHANGED table

Inside == {b \in fill.page : fill.window[1] <= b /\ b < fill.end}

\* The page is the newest that is there, and not before the last one.
StuckPage == fill.page # {} /\ Least(fill.page) >= fill.end

LeaveFrame ==
    /\ fill.at = "received" /\ (StuckPage \/ Inside = {})
    /\ fill' = WithStatus(IF StuckPage THEN "LOOP_GUARD_STOPPED" ELSE "PROVIDER_BOUNDARY")
    /\ UNCHANGED <<usage, others, fills, looks, clock>> /\ UNCHANGED table

\* The next page ends before the earliest row, although its end is exclusive.
PersistPageAndStep ==
    /\ fill.at = "received" /\ ~StuckPage /\ Inside # {}
    /\ candles' = [candles EXCEPT ![Frame] = @ \cup Inside]
    /\ fill' = IF Least(Inside) <= fill.window[1] THEN WithStatus("COMPLETED")
               ELSE [fill EXCEPT !.at = "page", !.attempt = 1, !.end = Least(Inside) - 1]
    /\ UNCHANGED <<offered, usage, others, fills, looks, clock>>

\* _persist_candles: one transaction for the page.
PersistPage ==
    /\ fill.at = "received" /\ ~StuckPage /\ Inside # {}
    /\ candles' = [candles EXCEPT ![Frame] = @ \cup Inside]
    /\ fill' = IF Least(Inside) <= fill.window[1] THEN WithStatus("COMPLETED")
               ELSE [fill EXCEPT !.at = "page", !.attempt = 1, !.end = Least(Inside)]
    /\ UNCHANGED <<offered, usage, others, fills, looks, clock>>

\* The command is killed or raises, wherever it is.
BreakFill ==
    /\ fill.at \notin {"idle", "done"}
    /\ fill' = NoFill
    /\ UNCHANGED <<usage, others, fills, looks, clock>> /\ UNCHANGED table

-----------------------------------------------------------------------------
(* Live ingestion and what else uses the provider or the table.            *)

NextBar ==
    /\ clock < LastBar
    /\ clock' = clock + 1
    /\ UNCHANGED table /\ UNCHANGED filling

\* ingest_primary_candles, of a range that ends at a bar not past the last close and begins
\* after the latest row, or two bars back when there is none.
IngestLive(f, to) ==
    /\ to < clock
    /\ LET from == IF candles[f] = {} THEN clock - 2 ELSE Latest(candles[f]) + 1
           new  == {b \in offered[f] \ Shut : from <= b /\ b <= to}
       IN  /\ new # {}
           /\ candles' = [candles EXCEPT ![f] = @ \cup new]
    /\ looks' = [looks EXCEPT ![f].lived = TRUE]
    /\ UNCHANGED <<offered, clock, usage, others, fill, fills>>

\* The dispatcher and the health check use the same credits.
RequestElsewhere ==
    /\ others < MaxOthers
    /\ others' = others + 1 /\ usage' = usage + 1
    /\ fill' = IF fill.at \in {"idle", "done"} THEN fill
               ELSE [fill EXCEPT !.sinceBegin = @ + 1, !.sinceLook = @ + 1]
    /\ UNCHANGED <<fills, looks, clock>> /\ UNCHANGED table

-----------------------------------------------------------------------------
HistoryInit ==
    /\ offered \in Offers
    /\ clock \in Bars
    /\ candles = [f \in FrameSet |-> {}]
    /\ usage = 0 /\ others = 0 /\ fills = 0
    /\ fill = NoFill
    /\ looks = [f \in FrameSet |-> [ends |-> {}, sound |-> TRUE, lived |-> FALSE]]

HistoryNext ==
    \/ \E w \in Windows, resume \in BOOLEAN: BeginFill(w, resume)
    \/ ChooseEnd
    \/ RunOutOfBudget
    \/ Recheck
    \/ \E outcome \in {"answered", "transient", "refused"}: Request(outcome)
    \/ LeaveFrame
    \/ PersistPage
    \/ BreakFill
    \/ NextBar
    \/ \E f \in FrameSet, to \in Bars: IngestLive(f, to)
    \/ RequestElsewhere

HistorySpec == HistoryInit /\ [][HistoryNext]_historyVars

-----------------------------------------------------------------------------
(* Properties.                                                             *)

HistoryTypeOK ==
    /\ offered \in Offers
    /\ clock \in Bars
    /\ candles \in [FrameSet -> SUBSET Bars]
    /\ usage \in Nat /\ others \in 0..MaxOthers /\ fills \in 0..MaxFills
    /\ looks \in [FrameSet -> [ends : SUBSET Bars, sound : BOOLEAN, lived : BOOLEAN]]
    /\ fill.at \in {"idle", "frame", "page", "received", "done"}

\* A frame that the backfill calls COMPLETED or ALREADY_COVERED has every bar the provider
\* offers of its window, however runs were killed and resumed and whatever live ingestion
\* stored meanwhile, as long as every run asked for the same end, after it had passed, and
\* found no rows of live ingestion with a hole after them.
FilledIsWhole ==
    \A i \in (IF fill = NoFill THEN {} ELSE DOMAIN fill.statuses):
        LET f == Frames[i]
        IN  /\ fill.statuses[i] \in {"COMPLETED", "ALREADY_COVERED"}
            /\ looks[f].ends = {fill.window[2]} /\ looks[f].sound
            => offered[f] \cap Window(fill.window) \subseteq candles[f]

\* Under way, a run has left the reserve alone, but for what others used since it began, or,
\* once it looked again, for what it and others used since.
CreditsRespected ==
    fill.at \in {"frame", "page", "received"} =>
        /\ usage <= (Ceiling - Reserve) + fill.sinceBegin
        /\ fill.attempts >= RecheckEvery =>
               usage <= (Ceiling - Reserve) + fill.sinceLook + (RecheckEvery - 1)
=============================================================================
