------------------------ MODULE CalibrationCampaign ------------------------
(***************************************************************************)
(* run_xauusd_calibration: a run of many hours that judges a hundred       *)
(* candidates on the stored history and locks the best of them.  What it   *)
(* has done is kept in files, so that a run that was killed can be         *)
(* resumed: a ledger of judgements, each with the provenance it is valid   *)
(* for, and a cache of market snapshots.  Meanwhile candles are added and  *)
(* rewritten, policies edited and code deployed.                           *)
(*                                                                         *)
(* What a replay computes is not modelled (see CandidateScore for what is  *)
(* made of it): a judgement is represented by everything it depends on, so *)
(* that two judgements are equal exactly if no such thing differs.         *)
(*                                                                         *)
(* Rows of a table are only ever added or rewritten: a number of rows *)
(* stands for the rows, and an edition for what they say.                  *)
(***************************************************************************)
EXTENDS Naturals, Sequences

CONSTANTS
    Pool,           \* number of reachable candidates; candidate 1 is the reference
    Governed,       \* stored 15m rows the run insists on
    Policies,       \* what the governed policy files may say: [revision, window, ...]
    Codes,          \* what may be deployed: [evaluator, builder, version]
    MaxRows,        \* bound: rows of a table
    MaxChanges,     \* bound: additions, rewritings and changes together
    NoFile, HalfWritten    \* a file that is missing, or that was left half written

\* Candles of the frame that is replayed, with the schedules that are loaded for them, and
\* candles of the higher frames.
Tables == {"15m", "higher"}

VARIABLES
    stored,     \* [Tables -> [rows, edition]]
    policy,     \* the governed policy files
    code,       \* the deployed code; its version is the one the code claims of its snapshots
    changes,    \* number of changes of the surroundings so far
    ledger,     \* [1..Pool -> NoFile or [key, judgement]]
    valCache,   \* snapshot files by dataset fingerprint
    campaign,   \* the run under way
    drifted     \* history: something no provenance tells of has changed

campaignVars ==
    <<stored, policy, code, changes, ledger, valCache, campaign, drifted>>

Fingerprints == [Tables -> 0..MaxRows]
TableRows == [rows : 0..MaxRows, edition : Nat]
DataSets == [Tables -> TableRows]
Versions == {c.version : c \in Codes}

SnapshotSets == [data : DataSets, builder : {c.builder : c \in Codes}, window : Nat]
Judgements ==
    [data : DataSets, snapshots : SnapshotSets, policy : Policies, evaluator : {c.evaluator : c \in Codes}]
Keys == [dataset : Fingerprints, policy : Policies, version : Versions]
Entries == [key : Keys, judgement : Judgements]
Files == [snapshots : SnapshotSets, version : Versions]

ASSUME CampaignAssumption ==
    /\ Pool \in Nat \ {0}
    /\ \A p \in Policies : p.window \in Nat
    /\ Governed \in 0..MaxRows /\ MaxRows \in Nat
    /\ MaxChanges \in Nat
    /\ NoFile # HalfWritten
    /\ NoFile \notin Entries /\ NoFile \notin TableRows

NoRun == [at |-> "idle"]

-----------------------------------------------------------------------------
(* Provenance.                                                             *)

\* compute_dataset_hash: how many rows were loaded, and not what they say.
Fingerprint(data) == [t \in Tables |-> data[t].rows]

Snapshots(data, builder, window) == [data |-> data, builder |-> builder, window |-> window]

\* Everything the judgement of a candidate depends on.
Judgement(data, snapshots, p, evaluator) ==
    [data |-> data, snapshots |-> snapshots, policy |-> p, evaluator |-> evaluator]

\* expected_provenance: the code revision is one the policy file names, the semantics
\* version one the script does.
Key(run) == [dataset |-> Fingerprint(run.data), policy |-> run.policy, version |-> run.code.version]

\* load_market_snapshot_cache: the window of a file has to lie within the one asked for.
Loadable(file, run) ==
    /\ file \notin {NoFile, HalfWritten}
    /\ file.version = run.code.version
    /\ file.snapshots.window <= run.policy.window

FreshSnapshots(run) == Snapshots(run.data, run.code.builder, run.policy.window)
FreshJudgement(run) ==
    Judgement(run.data, FreshSnapshots(run), run.policy, run.code.evaluator)

-----------------------------------------------------------------------------
CampaignInit ==
    /\ stored \in {[t \in Tables |-> [rows |-> f[t], edition |-> 0]] : f \in Fingerprints}
    /\ policy \in Policies
    /\ code \in {c \in Codes : c.evaluator = policy.revision /\ c.builder = c.version}
    /\ changes = 0
    /\ ledger = [c \in 1..Pool |-> NoFile]
    /\ valCache = [f \in Fingerprints |-> NoFile]
    /\ campaign = NoRun
    /\ drifted = FALSE

-----------------------------------------------------------------------------
(* The surroundings.                                                       *)

Change == changes < MaxChanges /\ changes' = changes + 1

\* A backfill or an ingestion stores rows of the history the campaigns load.
AddRow(t) ==
    /\ stored[t].rows < MaxRows
    /\ Change
    /\ stored' = [stored EXCEPT ![t].rows = @ + 1]
    /\ UNCHANGED <<policy, code, ledger, valCache, campaign, drifted>>

\* A backfill that fetches a page again updates prices in place; a schedule that is collected
\* later puts other candles in a blackout.  Neither changes a number of rows.
Rewrite(t) ==
    /\ Change
    /\ stored' = [stored EXCEPT ![t].edition = @ + 1]
    /\ drifted' = TRUE
    /\ UNCHANGED <<policy, code, ledger, valCache, campaign>>

\* Policy files and code change together.  Provenance tells of it if the policy names the
\* revision of the code, the code names its way of building snapshots, and the window
\* does not widen.
Release(p, c) ==
    /\ <<p, c>> # <<policy, code>>
    /\ Change
    /\ policy' = p /\ code' = c
    /\ drifted' = (drifted \/ c.evaluator # p.revision \/ c.builder # c.version
                           \/ p.window > policy.window)
    /\ UNCHANGED <<stored, ledger, valCache, campaign>>

-----------------------------------------------------------------------------
(* The run.                                                                *)

\* main, steps 1 to 4: the number of 15m rows is all that is verified of the dataset.  The
\* candidates follow from the policies and are counted.
BeginCampaign ==
    /\ campaign = NoRun
    /\ stored["15m"].rows = Governed
    /\ campaign' = [at |-> "15m", policy |-> policy, code |-> code,
                    data |-> [t \in Tables |-> NoFile]]
    /\ UNCHANGED <<stored, policy, code, changes, ledger, valCache, drifted>>

\* load_point_in_time_dataset_from_db: one query after the other.
After(t) == IF t = "15m" THEN "higher" ELSE "snapshots"

LoadTable(t) ==
    /\ campaign.at = t
    /\ campaign' = [campaign EXCEPT !.data[t] = stored[t], !.at = After(t)]
    /\ UNCHANGED <<stored, policy, code, changes, ledger, valCache, drifted>>

\* From snapshots to the judgements: the ledger is read, and no judgement is made yet.
Judging(snapshots) ==
    [at |-> "judging", policy |-> campaign.policy, code |-> campaign.code, data |-> campaign.data,
     snapshots |-> snapshots, results |-> <<>>]

\* A file that cannot be read, is of another version or of a wider window is built anew.
TakeSnapshots ==
    /\ campaign.at = "snapshots"
    /\ LET file == valCache[Fingerprint(campaign.data)]
       IN  /\ Loadable(file, campaign)
           /\ campaign' = Judging(file.snapshots)
    /\ UNCHANGED <<stored, policy, code, changes, ledger, valCache, drifted>>

BuildSnapshots ==
    /\ campaign.at = "snapshots"
    /\ ~Loadable(valCache[Fingerprint(campaign.data)], campaign)
    /\ valCache' = [valCache EXCEPT ![Fingerprint(campaign.data)] = HalfWritten]
    /\ campaign' = [campaign EXCEPT !.at = "saving"]
    /\ UNCHANGED <<stored, policy, code, changes, ledger, drifted>>

\* save_market_snapshot_cache writes in place; if it fails the run goes on without a file.
SaveSnapshots(ok) ==
    /\ campaign.at = "saving"
    /\ valCache' = IF ok
                   THEN [valCache EXCEPT ![Fingerprint(campaign.data)] =
                            [snapshots |-> FreshSnapshots(campaign), version |-> campaign.code.version]]
                   ELSE valCache
    /\ campaign' = Judging(FreshSnapshots(campaign))
    /\ UNCHANGED <<stored, policy, code, changes, ledger, drifted>>

NextCandidate == Len(campaign.results) + 1
WithResult(judgement) == [campaign EXCEPT !.results = Append(@, judgement)]

\* The policy is not compared.
ReusableAnyPolicy(entry, run) ==
    /\ entry # NoFile
    /\ entry.key.dataset = Key(run).dataset /\ entry.key.version = Key(run).version

\* can_reuse: every part of the provenance is that of the run.
Reusable(entry, run) == entry # NoFile /\ entry.key = Key(run)

ReuseJudgement ==
    /\ campaign.at = "judging" /\ NextCandidate <= Pool
    /\ Reusable(ledger[NextCandidate], campaign)
    /\ campaign' = WithResult(ledger[NextCandidate].judgement)
    /\ UNCHANGED <<stored, policy, code, changes, ledger, valCache, drifted>>

\* Only what this run has judged.
LedgerOfRunWith(c, entry) ==
    [d \in 1..Pool |-> IF d = c THEN entry ELSE IF d < c THEN ledger[d] ELSE NoFile]

\* record_candidate: the entries that were read, with this one, in a temporary file that
\* replaces the ledger.
LedgerWith(c, entry) == [ledger EXCEPT ![c] = entry]

Judge ==
    /\ campaign.at = "judging" /\ NextCandidate <= Pool
    /\ ~Reusable(ledger[NextCandidate], campaign)
    /\ LET judgement == Judgement(campaign.data, campaign.snapshots, campaign.policy,
                                  campaign.code.evaluator)
       IN  /\ ledger' = LedgerWith(NextCandidate, [key |-> Key(campaign), judgement |-> judgement])
           /\ campaign' = WithResult(judgement)
    /\ UNCHANGED <<stored, policy, code, changes, valCache, drifted>>

\* select_champion and lock_champion: the judgements are final.
Lock ==
    /\ campaign.at = "judging" /\ NextCandidate > Pool
    /\ campaign' = [campaign EXCEPT !.at = "locked"]
    /\ UNCHANGED <<stored, policy, code, changes, ledger, valCache, drifted>>

\* A run ends wherever it is: it is killed, raises, or is done with its champion.
EndCampaign ==
    /\ campaign # NoRun
    /\ campaign' = NoRun
    /\ UNCHANGED <<stored, policy, code, changes, ledger, valCache, drifted>>

CampaignNext ==
    \/ \E t \in Tables: AddRow(t)
    \/ \E t \in Tables: Rewrite(t)
    \/ \E p \in Policies, c \in Codes: Release(p, c)
    \/ BeginCampaign
    \/ \E t \in Tables: LoadTable(t)
    \/ TakeSnapshots
    \/ BuildSnapshots
    \/ \E ok \in BOOLEAN: SaveSnapshots(ok)
    \/ ReuseJudgement
    \/ Judge
    \/ Lock
    \/ EndCampaign

CampaignSpec == CampaignInit /\ [][CampaignNext]_campaignVars

-----------------------------------------------------------------------------
(* Properties.                                                             *)

\* The run under way: the tables it has loaded so far, then the judgements it has.
Loading ==
    [at : {"15m", "higher", "snapshots", "saving"}, policy : Policies, code : Codes,
     data : [Tables -> TableRows \cup {NoFile}]]
Judgings ==
    [at : {"judging", "locked"}, policy : Policies, code : Codes, data : DataSets,
     snapshots : SnapshotSets, results : Seq(Judgements)]

\* The types of the stored rows, of the files and of the run; a run is past its loading with
\* every table only.
CampaignTypeOK ==
    /\ stored \in DataSets
    /\ policy \in Policies
    /\ code \in Codes
    /\ changes \in 0..MaxChanges
    /\ ledger \in [1..Pool -> Entries \cup {NoFile}]
    /\ valCache \in [Fingerprints -> Files \cup {NoFile, HalfWritten}]
    /\ campaign \in {NoRun} \cup Loading \cup Judgings
    /\ campaign.at = "higher" => campaign.data["15m"] \in TableRows
    /\ campaign.at \in {"snapshots", "saving"} => campaign.data \in DataSets
    /\ drifted \in BOOLEAN

Judged == IF campaign.at \in {"judging", "locked"} THEN DOMAIN campaign.results ELSE {}

\* "Persistence does not alter evaluation or ranking logic": whatever a run takes from the
\* ledger and from the snapshot file, after any kills, additions of rows and releases, is
\* what it would have computed itself.  It holds as long as nothing changes that no
\* provenance tells of: a price, a macro schedule, code under an unchanged revision, a
\* wider window.
ResumeIsFaithful ==
    ~drifted => \A c \in Judged : campaign.results[c] = FreshJudgement(campaign)

\* A kill costs the candidate in hand at most: a judgement leaves the ledger only for one
\* of another provenance.
LedgerKeeps ==
    [][\A c \in 1..Pool :
         ledger[c] # NoFile /\ ledger'[c] # ledger[c]
             => ledger'[c] # NoFile /\ ledger'[c].key # ledger[c].key]_campaignVars
=============================================================================
