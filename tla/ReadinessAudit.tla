--------------------------- MODULE ReadinessAudit --------------------------
(***************************************************************************)
(* audit_xauusd_readiness: it reads the table of candles query by query,   *)
(* outside a transaction, while backfill and live ingestion go on writing  *)
(* it, and seals what it found in a manifest.                              *)
(*                                                                         *)
(* Time counts bars: bar b opens at b and closes at b + 1.                 *)
(***************************************************************************)
EXTENDS Integers, SequencesExt

CONSTANTS
    AuditFrames,    \* sequence of timeframes, in the order of REQUIRED_TIMEFRAMES
    Analysed,       \* the timeframe the features are computed of
    LastAuditBar,   \* bound of time
    AuditWindow,    \* expected coverage, <<start, end>>
    Warmup          \* REQUIRED_WARMUP_BARS_15M

AuditBars == 0..LastAuditBar
AuditFrameSet == {AuditFrames[i] : i \in DOMAIN AuditFrames}

AuditAssumption ==
    /\ AuditFrames \in Seq(AuditFrameSet) /\ LastAuditBar \in Nat
    /\ Analysed \in AuditFrameSet /\ Warmup \in Nat
    /\ AuditWindow[1] \in AuditBars /\ AuditWindow[2] \in AuditBars /\ AuditWindow[1] < AuditWindow[2]
ASSUME AuditAssumption

VARIABLES
    rows,       \* MarketCandle rows of the primary source
    foreign,    \* there are rows of another source
    audit,      \* the audit under way
    manifest    \* the last manifest

auditVars == <<rows, foreign, audit, manifest>>

NoAudit == [at |-> "idle"]
Unsealed == [decision |-> "NONE"]

First(S) == Min(S)

-----------------------------------------------------------------------------
(* Those who write meanwhile: a page of the backfill, what live ingestion  *)
(* fetched, or rows of another source.                                     *)

StoreRows(f, from, to) ==
    /\ from <= to /\ ~(from..to \subseteq rows[f])
    /\ rows' = [rows EXCEPT ![f] = @ \cup (from..to)]
    /\ UNCHANGED <<foreign, audit, manifest>>

StoreForeign ==
    /\ ~foreign
    /\ foreign' = TRUE
    /\ UNCHANGED <<rows, audit, manifest>>

-----------------------------------------------------------------------------
(* The audit.                                                              *)

\* AuditBars between the close of one row and the opening of the next.
Gap(b, c) == IF c > b + 1 THEN c - (b + 1) ELSE 0

Covers(S, w) == S # {} /\ First(S) <= w[1] /\ Max(S) + 1 >= w[2]

\* What a pass remembers of the rows before the one it looks at.
Unseen == [count |-> 0, last |-> -1, gaps |-> 0, missing |-> 0, largest |-> 0]

WithGap(b, gap, seen) ==
    [count |-> seen.count + 1, last |-> b,
     gaps |-> IF gap > 0 THEN seen.gaps + 1 ELSE seen.gaps,
     missing |-> seen.missing + gap,
     largest |-> IF gap > seen.largest THEN gap ELSE seen.largest]

\* As if a row stood before the first.
WithRowFromStart(b, seen) == WithGap(b, Gap(seen.last, b), seen)

\* One step of the pass: no gap precedes the first row.
WithRow(b, seen) == WithGap(b, IF seen.count = 0 THEN 0 ELSE Gap(seen.last, b), seen)

\* evaluate_timeframe_coverage_and_gaps_from_qs: the rows in the order of their opening.
Streamed(S) ==
    LET seen == MapThenFoldSet(WithRow, Unseen, LAMBDA b: b, Max, S)
    IN  [complete |-> Covers(S, AuditWindow), count |-> seen.count,
         gaps |-> seen.gaps, missing |-> seen.missing, largest |-> seen.largest]

\* The rows that another follows, the one that does, and what lies between them.
Followed(S) == {b \in S : \E c \in S : c > b}
Following(S, b) == Min({c \in S : c > b})
GapAfter(S, b) == Gap(b, Following(S, b))

Widest(S, R) == IF R = {} THEN 0 ELSE Max({GapAfter(S, b) : b \in R})

\* evaluate_timeframe_coverage_and_gaps: over the list, row and next row.
Listed(S) ==
    [complete |-> Covers(S, AuditWindow), count |-> Cardinality(S),
     gaps |-> Cardinality({b \in Followed(S) : GapAfter(S, b) > 0}),
     missing |-> MapThenFoldSet(LAMBDA gap, sum: gap + sum, 0, LAMBDA b: GapAfter(S, b), Max, Followed(S)),
     largest |-> Widest(S, Followed(S))]

\* XauUsdDataReadinessEvaluator.evaluate, query by query: what there is, and of which source.
CountRows ==
    /\ audit.at = "idle"
    /\ audit' = [at |-> "coverage", frame |-> 1, foreign |-> foreign,
                 total |-> \E f \in AuditFrameSet : rows[f] # {},
                 warm |-> Cardinality(rows[Analysed]) >= Warmup,
                 coverage |-> <<>>, read |-> <<>>, analysed |-> {}]
    /\ UNCHANGED <<rows, foreign, manifest>>

\* One pass over the rows of each frame.
ReadCoverage ==
    /\ audit.at = "coverage"
    /\ LET S == rows[AuditFrames[audit.frame]]
       IN  audit' = [audit EXCEPT !.coverage = Append(@, Streamed(S)), !.read = Append(@, S),
                                  !.at = IF audit.frame = Len(AuditFrames) THEN "identity" ELSE @,
                                  !.frame = IF audit.frame = Len(AuditFrames) THEN @ ELSE @ + 1]
    /\ UNCHANGED <<rows, foreign, manifest>>

\* What is fingerprinted: nothing if there was no row when the rows were counted.
Identified == IF audit.total THEN rows ELSE [f \in AuditFrameSet |-> {}]

\* compute_xauusd_dataset_identity over the analysed frame, in a query of its own.
ReadIdentity ==
    /\ audit.at = "identity"
    /\ audit' = [audit EXCEPT !.at = "fingerprint", !.analysed = Identified[Analysed]]
    /\ UNCHANGED <<rows, foreign, manifest>>

\* The order of the refusals.
Decision(macro, friction, quotes) ==
    IF ~audit.total \/ ~audit.warm \/ audit.foreign THEN "CALIBRATION_DATA_NOT_READY"
    ELSE IF \E i \in DOMAIN audit.coverage : ~audit.coverage[i].complete THEN "CALIBRATION_DATA_NOT_READY"
    ELSE IF ~macro THEN "CANDLES_READY_MACRO_MISSING"
    ELSE IF ~friction THEN "CANDLES_READY_EMPIRICAL_FRICTION_MISSING"
    ELSE IF ~quotes THEN "CANDLES_READY_QUOTE_EVIDENCE_MISSING"
    ELSE "DATA_READY_FOR_CALIBRATION_REVIEW"

\* The fingerprint of all frames, the decision and the manifest, which replaces the one before.
Seal(macro, friction, quotes) ==
    /\ audit.at = "fingerprint"
    /\ manifest' = [decision |-> Decision(macro, friction, quotes), coverage |-> audit.coverage,
                    read |-> audit.read, analysed |-> audit.analysed, all |-> Identified]
    /\ audit' = NoAudit
    /\ UNCHANGED <<rows, foreign>>

-----------------------------------------------------------------------------
AuditInit ==
    /\ rows = [f \in AuditFrameSet |-> {}] /\ foreign = FALSE
    /\ audit = NoAudit /\ manifest = Unsealed

AuditNext ==
    \/ \E f \in AuditFrameSet, from, to \in AuditBars: StoreRows(f, from, to)
    \/ StoreForeign
    \/ CountRows
    \/ ReadCoverage
    \/ ReadIdentity
    \/ \E macro, friction, quotes \in BOOLEAN: Seal(macro, friction, quotes)

AuditSpec == AuditInit /\ [][AuditNext]_auditVars

-----------------------------------------------------------------------------
(* Properties.                                                             *)

AuditTypeOK ==
    /\ rows \in [AuditFrameSet -> SUBSET AuditBars] /\ foreign \in BOOLEAN
    /\ audit.at \in {"idle", "coverage", "identity", "fingerprint"}

CandlesReady ==
    {"CANDLES_READY_MACRO_MISSING", "CANDLES_READY_EMPIRICAL_FRICTION_MISSING",
     "CANDLES_READY_QUOTE_EVIDENCE_MISSING", "DATA_READY_FOR_CALIBRATION_REVIEW"}

\* Whatever is stored while the audit reads: a manifest counts the missing bars of a frame as
\* those between its ends that were not there.
CountsAreTrue ==
    manifest # Unsealed =>
        \A i \in DOMAIN AuditFrames:
            LET seen == manifest.read[i]
            IN  /\ manifest.coverage[i] = Listed(seen)
                /\ seen # {} => manifest.coverage[i].missing
                                  = Cardinality((First(seen)..Max(seen)) \ seen)

\* And one whose candles are ready has every frame's fingerprint over rows that reach across
\* the window and hold what was read, although each was read in a query of its own.
FingerprintsCover ==
    manifest # Unsealed /\ manifest.decision \in CandlesReady =>
        \A i \in DOMAIN AuditFrames:
            LET f == AuditFrames[i]
                seen == manifest.read[i]
            IN  /\ Covers(manifest.all[f], AuditWindow)
                /\ seen \subseteq manifest.all[f]
                /\ f = Analysed => /\ seen \subseteq manifest.analysed
                                   /\ manifest.analysed \subseteq manifest.all[f]

\* A manifest says of the rows what was there.
ManifestIsTrue == CountsAreTrue /\ FingerprintsCover
=============================================================================
