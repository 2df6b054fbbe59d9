-------------------- MODULE CalibrationCampaign_proofs --------------------
(***************************************************************************)
(* What holds of a campaign for any number of candidates, any policies,    *)
(* codes and bounds: the types, that the ledger keeps what was judged, and *)
(* that a resumed run computes nothing else than an unbroken one, as long  *)
(* as nothing changes that no provenance tells of.                         *)
(***************************************************************************)
EXTENDS CalibrationCampaign, SequenceTheorems, TLAPS

-----------------------------------------------------------------------------
(* The inductive invariant.                                                *)

\* What a fingerprint stands for while no row has been rewritten.
Clean(f) == [t \in Tables |-> [rows |-> f[t], edition |-> 0]]

\* Code that the policy names and that names its builder, over rows never rewritten.
Announced(p, c) == c.evaluator = p.revision /\ c.builder = c.version

CleanSnapshots(f, version, window) == Snapshots(Clean(f), version, window)
CleanJudgement(key) ==
    Judgement(Clean(key.dataset), CleanSnapshots(key.dataset, key.version, key.policy.window),
              key.policy, key.policy.revision)

\* The surroundings are those every provenance tells of.
SurroundingsClean ==
    /\ \A t \in Tables : stored[t].edition = 0
    /\ Announced(policy, code)

\* A file of a fingerprint holds its snapshots, over no narrower window than the policy's or
\* the run's.
FilesClean ==
    \A f \in Fingerprints : valCache[f] \notin {NoFile, HalfWritten} =>
        /\ valCache[f].snapshots =
              CleanSnapshots(f, valCache[f].version, valCache[f].snapshots.window)
        /\ valCache[f].snapshots.window >= policy.window
        /\ campaign # NoRun => valCache[f].snapshots.window >= campaign.policy.window

\* The judgement of an entry is the one its provenance stands for.
LedgerClean ==
    \A c \in 1..Pool : ledger[c] # NoFile => ledger[c].judgement = CleanJudgement(ledger[c].key)

\* The run started with such surroundings, has loaded such rows, and has the snapshots and
\* the judgements it would compute.
RunClean ==
    campaign # NoRun =>
        /\ Announced(campaign.policy, campaign.code)
        /\ campaign.policy.window >= policy.window
        /\ \A t \in Tables : campaign.data[t] \in TableRows => campaign.data[t].edition = 0
        /\ campaign \in Judgings =>
              /\ campaign.snapshots = FreshSnapshots(campaign)
              /\ \A i \in DOMAIN campaign.results : campaign.results[i] = FreshJudgement(campaign)

CampaignClean ==
    ~drifted => SurroundingsClean /\ FilesClean /\ LedgerClean /\ RunClean

-----------------------------------------------------------------------------
(* Lemmas.                                                                 *)

\* A value the ledger keeps is told apart from none.
LEMMA EntriesAreRecorded ==
    ASSUME CampaignAssumption, NEW key \in Keys, NEW j \in Judgements
    PROVE  [key |-> key, judgement |-> j] # NoFile
BY DEF CampaignAssumption, Entries

\* What a run may be, by where it is.
LEMMA RunKinds ==
    ASSUME campaign \in {NoRun} \cup Loading \cup Judgings
    PROVE  /\ campaign.at \in {"15m", "higher", "snapshots", "saving"} <=> campaign \in Loading
           /\ campaign.at \in {"judging", "locked"} <=> campaign \in Judgings
           /\ campaign = NoRun <=> campaign.at = "idle"
BY DEF NoRun, Loading, Judgings

\* What fingerprints and fresh results are made of.
LEMMA FreshTyped ==
    ASSUME CampaignAssumption, NEW run, run.data \in DataSets, run.policy \in Policies,
           run.code \in Codes
    PROVE  /\ Fingerprint(run.data) \in Fingerprints
           /\ FreshSnapshots(run) \in SnapshotSets
           /\ FreshJudgement(run) \in Judgements
           /\ Key(run) \in Keys
<1>1. Fingerprint(run.data) \in Fingerprints
    BY DEF Fingerprint, Fingerprints, DataSets, TableRows
<1>2. FreshSnapshots(run) \in SnapshotSets
    BY DEF FreshSnapshots, Snapshots, SnapshotSets, CampaignAssumption
<1>3. FreshJudgement(run) \in Judgements
    BY <1>2 DEF FreshJudgement, Judgement, Judgements
<1>4. Key(run) \in Keys
    BY <1>1 DEF Key, Keys, Versions
<1> QED BY <1>1, <1>2, <1>3, <1>4

-----------------------------------------------------------------------------
(* Types.                                                                  *)

LEMMA InitTyped ==
    ASSUME CampaignAssumption, CampaignInit PROVE CampaignTypeOK
<1>1. stored \in DataSets
    BY DEF CampaignInit, DataSets, TableRows, Fingerprints
<1>2. ledger \in [1..Pool -> Entries \cup {NoFile}] /\ valCache \in [Fingerprints -> Files \cup {NoFile, HalfWritten}]
    BY DEF CampaignInit
<1>3. campaign = NoRun /\ campaign.at = "idle"
    BY DEF CampaignInit, NoRun
<1>4. changes \in 0..MaxChanges
    BY DEF CampaignInit, CampaignAssumption
<1>5. policy \in Policies /\ code \in Codes /\ drifted \in BOOLEAN
    BY DEF CampaignInit
<1> QED BY <1>1, <1>2, <1>3, <1>4, <1>5 DEF CampaignTypeOK

LEMMA NextTyped ==
    ASSUME CampaignAssumption, CampaignTypeOK, [CampaignNext]_campaignVars
    PROVE  CampaignTypeOK'
<1> USE CampaignAssumption DEF CampaignTypeOK
<1>1. ASSUME NEW t \in Tables, AddRow(t) PROVE CampaignTypeOK'
    <2>1. stored' \in DataSets
        BY <1>1 DEF AddRow, DataSets, TableRows
    <2> QED BY <1>1, <2>1 DEF AddRow, Change
<1>2. ASSUME NEW t \in Tables, Rewrite(t) PROVE CampaignTypeOK'
    <2>1. stored' \in DataSets
        <3>1. stored[t] \in TableRows
            BY DEF DataSets
        <3>2. [stored[t] EXCEPT !.edition = stored[t].edition + 1] \in TableRows
            BY <3>1 DEF TableRows
        <3>3. stored' = [stored EXCEPT ![t] = [stored[t] EXCEPT !.edition = stored[t].edition + 1]]
            BY <1>2 DEF Rewrite
        <3> QED BY <3>2, <3>3 DEF DataSets
    <2> QED BY <1>2, <2>1 DEF Rewrite, Change
<1>3. ASSUME NEW p \in Policies, NEW c \in Codes, Release(p, c) PROVE CampaignTypeOK'
    BY <1>3 DEF Release, Change
<1>4. CASE BeginCampaign
    <2>1. campaign' \in Loading /\ campaign'.at = "15m"
        BY <1>4 DEF BeginCampaign, Loading
    <2> QED BY <1>4, <2>1 DEF BeginCampaign
<1>5. ASSUME NEW t \in Tables, LoadTable(t) PROVE CampaignTypeOK'
    <2>1. campaign \in Loading /\ stored[t] \in TableRows
        BY <1>5, RunKinds DEF LoadTable, Tables, DataSets
    <2>2. campaign' = [campaign EXCEPT !.data = [@ EXCEPT ![t] = stored[t]], !.at = After(t)]
        BY <1>5, <2>1 DEF LoadTable
    <2>3. campaign' \in Loading
        BY <2>1, <2>2 DEF Loading, After
    <2>4. campaign'.at = After(t) /\ campaign'.data = [campaign.data EXCEPT ![t] = stored[t]]
        BY <2>1, <2>2 DEF Loading
    <2>5. campaign'.at = "higher" => campaign'.data["15m"] \in TableRows
        BY <2>1, <2>4 DEF After, Tables, Loading
    <2>6. campaign'.at \in {"snapshots", "saving"} => campaign'.data \in DataSets
        <3>1. campaign'.at \in {"snapshots", "saving"} => t = "higher" /\ campaign.data["15m"] \in TableRows
            BY <1>5, <2>4 DEF After, LoadTable, Tables
        <3> QED BY <2>1, <2>4, <3>1 DEF DataSets, Tables, Loading
    <2> QED BY <1>5, <2>3, <2>5, <2>6 DEF LoadTable
<1>6. CASE TakeSnapshots
    <2> DEFINE file == valCache[Fingerprint(campaign.data)]
    <2>1. campaign \in Loading /\ campaign.data \in DataSets
        BY <1>6, RunKinds DEF TakeSnapshots
    <2>2. Fingerprint(campaign.data) \in Fingerprints
        BY <2>1 DEF Fingerprint, Fingerprints, DataSets, TableRows
    <2>3. file \in Files
        BY <1>6, <2>2 DEF TakeSnapshots, Loadable
    <2>4. campaign' = Judging(file.snapshots)
        BY <1>6 DEF TakeSnapshots
    <2>5. campaign' \in Judgings /\ campaign'.at = "judging"
        BY <2>1, <2>3, <2>4, EmptySeq DEF Judging, Judgings, Loading, Files
    <2> QED BY <1>6, <2>5 DEF TakeSnapshots
<1>7. CASE BuildSnapshots
    <2>1. campaign \in Loading /\ campaign.data \in DataSets
        BY <1>7, RunKinds DEF BuildSnapshots
    <2>2. campaign' \in Loading /\ campaign'.at = "saving" /\ campaign'.data \in DataSets
        BY <1>7, <2>1 DEF BuildSnapshots, Loading
    <2>3. valCache' \in [Fingerprints -> Files \cup {NoFile, HalfWritten}]
        BY <1>7 DEF BuildSnapshots
    <2> QED BY <1>7, <2>2, <2>3 DEF BuildSnapshots
<1>8. ASSUME NEW ok \in BOOLEAN, SaveSnapshots(ok) PROVE CampaignTypeOK'
    <2>1. campaign \in Loading /\ campaign.data \in DataSets /\ campaign.policy \in Policies /\ campaign.code \in Codes
        BY <1>8, RunKinds DEF SaveSnapshots, Loading
    <2>2. FreshSnapshots(campaign) \in SnapshotSets
        BY <2>1, FreshTyped
    <2>3. campaign' = Judging(FreshSnapshots(campaign))
        BY <1>8 DEF SaveSnapshots
    <2>4. campaign' \in Judgings /\ campaign'.at = "judging"
        BY <2>1, <2>2, <2>3, EmptySeq DEF Judging, Judgings
    <2>5. [snapshots |-> FreshSnapshots(campaign), version |-> campaign.code.version] \in Files
        BY <2>1, <2>2 DEF Files, Versions
    <2>6. valCache' \in [Fingerprints -> Files \cup {NoFile, HalfWritten}]
        BY <1>8, <2>5 DEF SaveSnapshots
    <2> QED BY <1>8, <2>4, <2>6 DEF SaveSnapshots
<1>9. CASE ReuseJudgement
    <2>1. campaign \in Judgings /\ campaign.results \in Seq(Judgements)
        BY <1>9, RunKinds DEF ReuseJudgement, Judgings
    <2>2. NextCandidate \in 1..Pool
        BY <1>9, <2>1, LenProperties DEF ReuseJudgement, NextCandidate
    <2>3. ledger[NextCandidate] \in Entries
        BY <1>9, <2>2 DEF ReuseJudgement, Reusable
    <2>4. ledger[NextCandidate].judgement \in Judgements
        BY <2>3 DEF Entries
    <2>5. Append(campaign.results, ledger[NextCandidate].judgement) \in Seq(Judgements)
        BY <2>1, <2>4, AppendProperties
    <2>6. campaign' \in Judgings /\ campaign'.at = "judging"
        BY <1>9, <2>1, <2>5 DEF ReuseJudgement, WithResult, Judgings
    <2> QED BY <1>9, <2>6 DEF ReuseJudgement
<1>10. CASE Judge
    <2> DEFINE judgement == Judgement(campaign.data, campaign.snapshots, campaign.policy, campaign.code.evaluator)
    <2>1. campaign \in Judgings /\ campaign.results \in Seq(Judgements)
        BY <1>10, RunKinds DEF Judge, Judgings
    <2>2. judgement \in Judgements
        BY <2>1 DEF Judgement, Judgements, Judgings
    <2>3. Key(campaign) \in Keys
        BY <2>1, FreshTyped DEF Judgings
    <2>4. ledger' \in [1..Pool -> Entries \cup {NoFile}]
        BY <1>10, <2>2, <2>3 DEF Judge, LedgerWith, Entries
    <2>5. Append(campaign.results, judgement) \in Seq(Judgements)
        BY <2>1, <2>2, AppendProperties
    <2>6. campaign' \in Judgings /\ campaign'.at = "judging"
        BY <1>10, <2>1, <2>5 DEF Judge, WithResult, Judgings
    <2> QED BY <1>10, <2>4, <2>6 DEF Judge
<1>11. CASE Lock
    <2>1. campaign \in Judgings
        BY <1>11, RunKinds DEF Lock
    <2>2. campaign' \in Judgings /\ campaign'.at = "locked"
        BY <1>11, <2>1 DEF Lock, Judgings
    <2> QED BY <1>11, <2>2 DEF Lock
<1>12. CASE EndCampaign
    BY <1>12 DEF EndCampaign, NoRun
<1>13. CASE UNCHANGED campaignVars
    BY <1>13 DEF campaignVars
<1> QED
    BY <1>1, <1>2, <1>3, <1>4, <1>5, <1>6, <1>7, <1>8, <1>9, <1>10, <1>11, <1>12, <1>13 DEF CampaignNext

\* The types of the stored rows, of the ledger and of the snapshot files, and of a run
\* wherever it is.
THEOREM CampaignTyped == CampaignSpec => []CampaignTypeOK
<1>1. CampaignInit => CampaignTypeOK
    BY CampaignAssumption, InitTyped
<1>2. CampaignTypeOK /\ [CampaignNext]_campaignVars => CampaignTypeOK'
    BY CampaignAssumption, NextTyped
<1> QED BY <1>1, <1>2, PTL DEF CampaignSpec

-----------------------------------------------------------------------------
(* The ledger keeps what was judged.                                       *)

\* A judgement leaves the ledger only for one of another provenance: wherever a run is
\* killed, and whatever is released meanwhile.
THEOREM LedgerKept == CampaignSpec => LedgerKeeps
<1> DEFINE Kept == \A c \in 1..Pool :
             ledger[c] # NoFile /\ ledger'[c] # ledger[c]
                 => ledger'[c] # NoFile /\ ledger'[c].key # ledger[c].key
<1>1. ASSUME CampaignTypeOK, [CampaignNext]_campaignVars PROVE Kept
    <2> USE <1>1
    <2>1. CASE Judge
        <3> DEFINE judgement == Judgement(campaign.data, campaign.snapshots, campaign.policy, campaign.code.evaluator)
        <3> DEFINE entry == [key |-> Key(campaign), judgement |-> judgement]
        <3>1. campaign \in Judgings
            BY <2>1, RunKinds DEF Judge, CampaignTypeOK
        <3>2. judgement \in Judgements /\ Key(campaign) \in Keys
            BY <3>1, CampaignAssumption, FreshTyped DEF Judgement, Judgements, Judgings
        <3>3. entry # NoFile
            BY <3>2, CampaignAssumption, EntriesAreRecorded
        <3>4. ledger' = [ledger EXCEPT ![NextCandidate] = entry] /\ ~Reusable(ledger[NextCandidate], campaign)
            BY <2>1 DEF Judge, LedgerWith
        <3>5. ASSUME NEW c \in 1..Pool, ledger[c] # NoFile, ledger'[c] # ledger[c]
              PROVE  ledger'[c] # NoFile /\ ledger'[c].key # ledger[c].key
            <4>1. c = NextCandidate /\ ledger'[c] = entry
                BY <3>4, <3>5 DEF CampaignTypeOK
            <4>2. ledger[c].key # Key(campaign)
                BY <3>4, <3>5, <4>1 DEF Reusable
            <4> HIDE DEF judgement
            <4>3. entry.key = Key(campaign)
                OBVIOUS
            <4> QED BY <3>3, <4>1, <4>2, <4>3
        <3> QED BY <3>5
    <2>2. CASE ledger' = ledger
        BY <2>2
    <2>3. Judge \/ ledger' = ledger
        BY DEF CampaignNext, campaignVars, AddRow, Rewrite, Release, BeginCampaign, LoadTable, TakeSnapshots,
               BuildSnapshots, SaveSnapshots, ReuseJudgement, Lock, EndCampaign
    <2> QED BY <2>1, <2>2, <2>3
<1> QED BY <1>1, CampaignTyped, PTL DEF CampaignSpec, LedgerKeeps

-----------------------------------------------------------------------------
(* A resumed run computes nothing else.                                    *)

\* Rows never rewritten are what their fingerprint stands for.
LEMMA DataIsClean ==
    ASSUME NEW data \in DataSets, \A t \in Tables : data[t].edition = 0
    PROVE  data = Clean(Fingerprint(data))
<1>1. \A t \in Tables : data[t] = [rows |-> data[t].rows, edition |-> 0]
    BY DEF DataSets, TableRows
<1>2. Clean(Fingerprint(data)) = [t \in Tables |-> [rows |-> data[t].rows, edition |-> 0]]
    BY DEF Clean, Fingerprint
<1>3. data = [t \in Tables |-> data[t]]
    BY DEF DataSets
<1> QED BY <1>1, <1>2, <1>3

\* What a run over such rows computes is what its provenance stands for.
LEMMA FreshIsClean ==
    ASSUME NEW run, run.data \in DataSets, \A t \in Tables : run.data[t].edition = 0,
           Announced(run.policy, run.code)
    PROVE  /\ FreshSnapshots(run) =
                 CleanSnapshots(Fingerprint(run.data), run.code.version, run.policy.window)
           /\ FreshJudgement(run) = CleanJudgement(Key(run))
<1>1. run.data = Clean(Fingerprint(run.data))
    BY DataIsClean
<1>2. FreshSnapshots(run) = CleanSnapshots(Fingerprint(run.data), run.code.version, run.policy.window)
    BY <1>1 DEF FreshSnapshots, CleanSnapshots, Announced
<1>3. /\ Key(run).dataset = Fingerprint(run.data)
      /\ Key(run).policy = run.policy
      /\ Key(run).version = run.code.version
    BY DEF Key
<1>4. FreshJudgement(run) = CleanJudgement(Key(run))
    BY <1>1, <1>2, <1>3 DEF FreshJudgement, CleanJudgement, Announced
<1> QED BY <1>2, <1>4

\* Only the run's place may differ.
LEMMA FreshAgrees ==
    ASSUME NEW run, NEW other, other.data = run.data, other.policy = run.policy, other.code = run.code
    PROVE  FreshSnapshots(other) = FreshSnapshots(run) /\ FreshJudgement(other) = FreshJudgement(run)
BY DEF FreshSnapshots, FreshJudgement

LEMMA NextClean ==
    ASSUME CampaignTypeOK, CampaignTypeOK', CampaignClean, [CampaignNext]_campaignVars
    PROVE  CampaignClean'
<1> SUFFICES ASSUME ~drifted'
             PROVE  SurroundingsClean' /\ FilesClean' /\ LedgerClean' /\ RunClean'
    BY DEF CampaignClean
<1>0. SurroundingsClean /\ FilesClean /\ LedgerClean /\ RunClean
    <2>1. ~drifted
        BY DEF CampaignNext, campaignVars, AddRow, Rewrite, Release, BeginCampaign, LoadTable, TakeSnapshots,
               BuildSnapshots, SaveSnapshots, ReuseJudgement, Judge, Lock, EndCampaign, CampaignTypeOK
    <2> QED BY <2>1 DEF CampaignClean
<1>1. ASSUME NEW t \in Tables, AddRow(t) PROVE SurroundingsClean' /\ FilesClean' /\ LedgerClean' /\ RunClean'
    <2>1. \A u \in Tables : stored'[u].edition = stored[u].edition
        BY <1>1 DEF AddRow, CampaignTypeOK, DataSets, TableRows
    <2>2. SurroundingsClean'
        BY <1>0, <1>1, <2>1 DEF SurroundingsClean, AddRow
    <2> QED BY <1>0, <1>1, <2>2 DEF AddRow, FilesClean, LedgerClean, RunClean
<1>2. ASSUME NEW t \in Tables, Rewrite(t) PROVE FALSE
    BY <1>2 DEF Rewrite
<1>3. ASSUME NEW p \in Policies, NEW c \in Codes, Release(p, c)
      PROVE  SurroundingsClean' /\ FilesClean' /\ LedgerClean' /\ RunClean'
    <2>1. /\ policy' = p /\ code' = c
          /\ c.evaluator = p.revision /\ c.builder = c.version /\ p.window <= policy.window
        <3>1. p.window \in Nat /\ policy.window \in Nat
            BY CampaignAssumption DEF CampaignAssumption, CampaignTypeOK
        <3>2. /\ policy' = p /\ code' = c
              /\ ~(c.evaluator # p.revision \/ c.builder # c.version \/ p.window > policy.window)
            BY <1>3, Zenon DEF Release
        <3> QED BY <3>1, <3>2
    <2>2. SurroundingsClean'
        BY <1>0, <1>3, <2>1 DEF Release, SurroundingsClean, Announced
    <2>3. FilesClean'
        <3>1. \A f \in Fingerprints :
                 valCache[f] \notin {NoFile, HalfWritten} => valCache[f].snapshots.window \in Nat
            BY DEF CampaignTypeOK, Files, SnapshotSets
        <3>2. p.window \in Nat /\ policy.window \in Nat
            BY CampaignAssumption DEF CampaignAssumption, CampaignTypeOK
        <3> QED BY <1>0, <1>3, <2>1, <3>1, <3>2 DEF Release, FilesClean
    <2>4. LedgerClean'
        BY <1>0, <1>3 DEF Release, LedgerClean
    <2>5. RunClean'
        <3>1. campaign # NoRun => campaign.policy.window \in Nat
            BY CampaignAssumption DEF CampaignAssumption, CampaignTypeOK, Loading, Judgings
        <3>2. p.window \in Nat /\ policy.window \in Nat
            BY CampaignAssumption DEF CampaignAssumption, CampaignTypeOK
        <3> QED BY <1>0, <1>3, <2>1, <3>1, <3>2 DEF Release, RunClean
    <2> QED BY <2>2, <2>3, <2>4, <2>5
<1>4. CASE BeginCampaign
    <2>1. /\ campaign' \in Loading /\ campaign' \notin Judgings
          /\ campaign'.policy = policy /\ campaign'.code = code
          /\ \A t \in Tables : campaign'.data[t] = NoFile
        BY <1>4 DEF BeginCampaign, Loading, Judgings, CampaignTypeOK
    <2>2. SurroundingsClean' /\ LedgerClean'
        BY <1>0, <1>4 DEF BeginCampaign, SurroundingsClean, LedgerClean
    <2>3. FilesClean'
        BY <1>0, <1>4, <2>1 DEF BeginCampaign, FilesClean
    <2>4. RunClean'
        <3>1. policy.window >= policy.window
            BY CampaignAssumption DEF CampaignAssumption, CampaignTypeOK
        <3> QED BY <1>0, <1>4, <2>1, <3>1, CampaignAssumption
                DEF BeginCampaign, RunClean, SurroundingsClean, CampaignAssumption
    <2> QED BY <2>2, <2>3, <2>4
<1>5. ASSUME NEW t \in Tables, LoadTable(t) PROVE SurroundingsClean' /\ FilesClean' /\ LedgerClean' /\ RunClean'
    <2>1. campaign \in Loading /\ campaign # NoRun
        BY <1>5, RunKinds DEF LoadTable, Tables, CampaignTypeOK, NoRun
    <2>2. campaign' = [campaign EXCEPT !.data = [campaign.data EXCEPT ![t] = stored[t]], !.at = After(t)]
        BY <1>5, <2>1 DEF LoadTable
    <2>3. /\ campaign' # NoRun /\ campaign' \notin Judgings
          /\ campaign'.policy = campaign.policy /\ campaign'.code = campaign.code
          /\ campaign'.data = [campaign.data EXCEPT ![t] = stored[t]]
        <3>1. campaign'.at = After(t) /\ After(t) \in {"higher", "snapshots"}
            BY <2>1, <2>2 DEF Loading, After
        <3> QED BY <2>1, <2>2, <3>1 DEF Loading, Judgings, NoRun
    <2>4. \A u \in Tables : campaign'.data[u] \in TableRows => campaign'.data[u].edition = 0
        BY <1>0, <2>1, <2>3 DEF SurroundingsClean, RunClean, Loading
    <2>5. SurroundingsClean' /\ LedgerClean'
        BY <1>0, <1>5 DEF LoadTable, SurroundingsClean, LedgerClean
    <2>6. FilesClean'
        BY <1>0, <1>5, <2>1, <2>3 DEF LoadTable, FilesClean
    <2>7. RunClean'
        BY <1>0, <1>5, <2>1, <2>3, <2>4 DEF LoadTable, RunClean
    <2> QED BY <2>5, <2>6, <2>7
<1>6. CASE TakeSnapshots
    <2> DEFINE print == Fingerprint(campaign.data)
    <2> DEFINE file == valCache[print]
    <2>1. campaign \in Loading /\ campaign # NoRun /\ campaign.data \in DataSets
        BY <1>6, RunKinds DEF TakeSnapshots, CampaignTypeOK, NoRun
    <2>2. print \in Fingerprints
        BY <2>1 DEF Fingerprint, Fingerprints, DataSets, TableRows
    <2>3. file \in Files /\ file \notin {NoFile, HalfWritten} /\ file.version = campaign.code.version
        BY <1>6, <2>2 DEF TakeSnapshots, Loadable, CampaignTypeOK
    <2>4. file.snapshots.window = campaign.policy.window
        <3>1. file.snapshots.window \in Nat
            BY <2>3 DEF Files, SnapshotSets
        <3>2. campaign.policy.window \in Nat
            BY <2>1, CampaignAssumption DEF CampaignAssumption, Loading
        <3>3. file.snapshots.window <= campaign.policy.window
            BY <1>6 DEF TakeSnapshots, Loadable
        <3>4. file.snapshots.window >= campaign.policy.window
            BY <1>0, <2>1, <2>2, <2>3 DEF FilesClean
        <3> QED BY <3>1, <3>2, <3>3, <3>4
    <2>5. \A t \in Tables : campaign.data[t].edition = 0
        BY <1>0, <2>1 DEF RunClean, DataSets
    <2>6. Announced(campaign.policy, campaign.code)
        BY <1>0, <2>1 DEF RunClean
    <2>7. file.snapshots = FreshSnapshots(campaign)
        <3>1. file.snapshots = CleanSnapshots(print, file.version, file.snapshots.window)
            BY <1>0, <2>2, <2>3 DEF FilesClean
        <3> QED BY <2>1, <2>3, <2>4, <2>5, <2>6, <3>1, FreshIsClean
    <2>8. campaign' = Judging(file.snapshots)
        BY <1>6 DEF TakeSnapshots
    <2>9. /\ campaign' # NoRun
          /\ campaign'.data = campaign.data /\ campaign'.policy = campaign.policy /\ campaign'.code = campaign.code
          /\ campaign'.snapshots = file.snapshots /\ campaign'.results = <<>>
        BY <2>8 DEF Judging, NoRun
    <2>10. FreshSnapshots(campaign') = FreshSnapshots(campaign)
        BY <2>9, FreshAgrees
    <2>11. SurroundingsClean' /\ LedgerClean'
        BY <1>0, <1>6 DEF TakeSnapshots, SurroundingsClean, LedgerClean
    <2>12. FilesClean'
        BY <1>0, <1>6, <2>1, <2>9 DEF TakeSnapshots, FilesClean
    <2>13. RunClean'
        BY <1>0, <1>6, <2>1, <2>7, <2>9, <2>10 DEF TakeSnapshots, RunClean
    <2> QED BY <2>11, <2>12, <2>13
<1>7. CASE BuildSnapshots
    <2>1. campaign \in Loading /\ campaign # NoRun
        BY <1>7, RunKinds DEF BuildSnapshots, CampaignTypeOK, NoRun
    <2>2. /\ campaign' # NoRun /\ campaign' \notin Judgings
          /\ campaign'.data = campaign.data /\ campaign'.policy = campaign.policy /\ campaign'.code = campaign.code
        BY <1>7, <2>1 DEF BuildSnapshots, Loading, Judgings, NoRun
    <2>3. \A f \in Fingerprints : valCache'[f] \notin {NoFile, HalfWritten} => valCache'[f] = valCache[f]
        BY <1>7 DEF BuildSnapshots, CampaignTypeOK
    <2>4. SurroundingsClean' /\ LedgerClean'
        BY <1>0, <1>7 DEF BuildSnapshots, SurroundingsClean, LedgerClean
    <2>5. FilesClean'
        BY <1>0, <1>7, <2>1, <2>2, <2>3 DEF BuildSnapshots, FilesClean
    <2>6. RunClean'
        BY <1>0, <1>7, <2>1, <2>2 DEF BuildSnapshots, RunClean
    <2> QED BY <2>4, <2>5, <2>6
<1>8. ASSUME NEW ok \in BOOLEAN, SaveSnapshots(ok) PROVE SurroundingsClean' /\ FilesClean' /\ LedgerClean' /\ RunClean'
    <2> DEFINE print == Fingerprint(campaign.data)
    <2> DEFINE file == [snapshots |-> FreshSnapshots(campaign), version |-> campaign.code.version]
    <2>1. campaign \in Loading /\ campaign # NoRun /\ campaign.data \in DataSets
        BY <1>8, RunKinds DEF SaveSnapshots, CampaignTypeOK, NoRun
    <2>2. (\A t \in Tables : campaign.data[t].edition = 0) /\ Announced(campaign.policy, campaign.code)
        BY <1>0, <2>1 DEF RunClean, DataSets
    <2>3. campaign' = Judging(FreshSnapshots(campaign))
        BY <1>8 DEF SaveSnapshots
    <2>4. /\ campaign' # NoRun
          /\ campaign'.data = campaign.data /\ campaign'.policy = campaign.policy /\ campaign'.code = campaign.code
          /\ campaign'.snapshots = FreshSnapshots(campaign) /\ campaign'.results = <<>>
        BY <2>3 DEF Judging, NoRun
    <2>5. FreshSnapshots(campaign') = FreshSnapshots(campaign)
        BY <2>4, FreshAgrees
    <2>6. /\ FreshSnapshots(campaign) = CleanSnapshots(print, campaign.code.version, campaign.policy.window)
          /\ FreshSnapshots(campaign).window = campaign.policy.window
        BY <2>1, <2>2, FreshIsClean DEF FreshSnapshots, Snapshots
    <2>7. SurroundingsClean' /\ LedgerClean'
        BY <1>0, <1>8 DEF SaveSnapshots, SurroundingsClean, LedgerClean
    <2>8. FilesClean'
        <3>1. \A f \in Fingerprints : valCache'[f] = valCache[f] \/ (f = print /\ valCache'[f] = file)
            BY <1>8 DEF SaveSnapshots, CampaignTypeOK
        <3>2. campaign.policy.window \in Nat /\ campaign.policy.window >= policy.window
            BY <1>0, <2>1, CampaignAssumption DEF RunClean, CampaignAssumption, Loading
        <3>3. policy' = policy
            BY <1>8 DEF SaveSnapshots
        <3>4. file.snapshots = FreshSnapshots(campaign) /\ file.version = campaign.code.version
            OBVIOUS
        <3> HIDE DEF file
        <3>5. campaign.policy.window >= campaign.policy.window
            BY <3>2
        <3> QED BY <1>0, <2>1, <2>4, <2>6, <3>1, <3>2, <3>3, <3>4, <3>5 DEF FilesClean
    <2>9. RunClean'
        BY <1>0, <1>8, <2>1, <2>4, <2>5 DEF SaveSnapshots, RunClean
    <2> QED BY <2>7, <2>8, <2>9
<1>9. CASE ReuseJudgement
    <2> DEFINE result == ledger[NextCandidate].judgement
    <2>1. campaign \in Judgings /\ campaign # NoRun
        BY <1>9, RunKinds DEF ReuseJudgement, CampaignTypeOK, NoRun
    <2>2. campaign.data \in DataSets /\ campaign.results \in Seq(Judgements)
        BY <2>1 DEF Judgings
    <2>3. NextCandidate \in 1..Pool
        BY <1>9, <2>2, LenProperties DEF ReuseJudgement, NextCandidate
    <2>4. result = CleanJudgement(Key(campaign))
        BY <1>0, <1>9, <2>3 DEF ReuseJudgement, Reusable, LedgerClean
    <2>5. result = FreshJudgement(campaign)
        BY <1>0, <2>1, <2>2, <2>4, FreshIsClean DEF RunClean, DataSets
    <2>6. ledger[NextCandidate] \in Entries /\ result \in Judgements
        BY <1>9, <2>3 DEF ReuseJudgement, Reusable, CampaignTypeOK, Entries
    <2>7. campaign' = [campaign EXCEPT !.results = Append(campaign.results, result)]
        BY <1>9, <2>1 DEF ReuseJudgement, WithResult
    <2> HIDE DEF result
    <2>8. /\ campaign' # NoRun
          /\ campaign'.data = campaign.data /\ campaign'.policy = campaign.policy /\ campaign'.code = campaign.code
          /\ campaign'.snapshots = campaign.snapshots /\ campaign'.results = Append(campaign.results, result)
        BY <2>1, <2>7 DEF Judgings, NoRun
    <2>9. FreshSnapshots(campaign') = FreshSnapshots(campaign) /\ FreshJudgement(campaign') = FreshJudgement(campaign)
        BY <2>8, FreshAgrees
    <2>10. \A i \in DOMAIN campaign'.results : campaign'.results[i] = FreshJudgement(campaign)
        BY <1>0, <2>1, <2>2, <2>5, <2>6, <2>8, AppendProperties, LenProperties DEF RunClean
    <2>11. SurroundingsClean' /\ LedgerClean'
        BY <1>0, <1>9 DEF ReuseJudgement, SurroundingsClean, LedgerClean
    <2>12. FilesClean'
        BY <1>0, <1>9, <2>1, <2>8 DEF ReuseJudgement, FilesClean
    <2>13. RunClean'
        BY <1>0, <1>9, <2>1, <2>8, <2>9, <2>10 DEF ReuseJudgement, RunClean
    <2> QED BY <2>11, <2>12, <2>13
<1>10. CASE Judge
    <2> DEFINE judgement == Judgement(campaign.data, campaign.snapshots, campaign.policy, campaign.code.evaluator)
    <2> DEFINE entry == [key |-> Key(campaign), judgement |-> judgement]
    <2>1. campaign \in Judgings /\ campaign # NoRun
        BY <1>10, RunKinds DEF Judge, CampaignTypeOK, NoRun
    <2>2. campaign.data \in DataSets /\ campaign.results \in Seq(Judgements)
        BY <2>1 DEF Judgings
    <2>3. judgement = FreshJudgement(campaign)
        BY <1>0, <2>1 DEF RunClean, FreshJudgement
    <2>4. judgement = CleanJudgement(Key(campaign))
        BY <1>0, <2>1, <2>2, <2>3, FreshIsClean DEF RunClean, DataSets
    <2>5. judgement \in Judgements
        BY <2>1 DEF Judgement, Judgements, Judgings
    <2>6. campaign' = [campaign EXCEPT !.results = Append(campaign.results, judgement)]
        BY <1>10, <2>1 DEF Judge, WithResult
    <2>7. ledger' = [ledger EXCEPT ![NextCandidate] = entry]
        BY <1>10 DEF Judge, LedgerWith
    <2>8. entry.key = Key(campaign) /\ entry.judgement = judgement
        OBVIOUS
    <2> HIDE DEF judgement, entry
    <2>9. /\ campaign' # NoRun
          /\ campaign'.data = campaign.data /\ campaign'.policy = campaign.policy /\ campaign'.code = campaign.code
          /\ campaign'.snapshots = campaign.snapshots /\ campaign'.results = Append(campaign.results, judgement)
        BY <2>1, <2>6 DEF Judgings, NoRun
    <2>10. FreshSnapshots(campaign') = FreshSnapshots(campaign) /\ FreshJudgement(campaign') = FreshJudgement(campaign)
        BY <2>9, FreshAgrees
    <2>11. \A i \in DOMAIN campaign'.results : campaign'.results[i] = FreshJudgement(campaign)
        BY <1>0, <2>1, <2>2, <2>3, <2>5, <2>9, AppendProperties, LenProperties DEF RunClean
    <2>12. SurroundingsClean'
        BY <1>0, <1>10 DEF Judge, SurroundingsClean
    <2>13. FilesClean'
        BY <1>0, <1>10, <2>1, <2>9 DEF Judge, FilesClean
    <2>14. LedgerClean'
        BY <1>0, <2>4, <2>7, <2>8 DEF LedgerClean, CampaignTypeOK
    <2>15. RunClean'
        BY <1>0, <1>10, <2>1, <2>9, <2>10, <2>11 DEF Judge, RunClean
    <2> QED BY <2>12, <2>13, <2>14, <2>15
<1>11. CASE Lock
    <2>1. campaign \in Judgings /\ campaign # NoRun
        BY <1>11, RunKinds DEF Lock, CampaignTypeOK, NoRun
    <2>2. /\ campaign' # NoRun
          /\ campaign'.data = campaign.data /\ campaign'.policy = campaign.policy /\ campaign'.code = campaign.code
          /\ campaign'.snapshots = campaign.snapshots /\ campaign'.results = campaign.results
        BY <1>11, <2>1 DEF Lock, Judgings, NoRun
    <2>3. FreshSnapshots(campaign') = FreshSnapshots(campaign) /\ FreshJudgement(campaign') = FreshJudgement(campaign)
        BY <2>2, FreshAgrees
    <2>4. SurroundingsClean' /\ LedgerClean'
        BY <1>0, <1>11 DEF Lock, SurroundingsClean, LedgerClean
    <2>5. FilesClean'
        BY <1>0, <1>11, <2>1, <2>2 DEF Lock, FilesClean
    <2>6. RunClean'
        BY <1>0, <1>11, <2>1, <2>2, <2>3 DEF Lock, RunClean
    <2> QED BY <2>4, <2>5, <2>6
<1>12. CASE EndCampaign
    BY <1>0, <1>12 DEF EndCampaign, SurroundingsClean, FilesClean, LedgerClean, RunClean
<1>13. CASE UNCHANGED campaignVars
    BY <1>0, <1>13 DEF campaignVars, SurroundingsClean, FilesClean, LedgerClean, RunClean
<1> QED
    BY <1>1, <1>2, <1>3, <1>4, <1>5, <1>6, <1>7, <1>8, <1>9, <1>10, <1>11, <1>12, <1>13 DEF CampaignNext

LEMMA InitClean ==
    ASSUME CampaignInit PROVE CampaignClean
<1>1. \A t \in Tables : stored[t].edition = 0
    BY DEF CampaignInit
<1>2. Announced(policy, code)
    BY DEF CampaignInit, Announced
<1>3. campaign = NoRun /\ (\A f \in Fingerprints : valCache[f] = NoFile) /\ \A c \in 1..Pool : ledger[c] = NoFile
    BY DEF CampaignInit
<1> QED BY <1>1, <1>2, <1>3 DEF CampaignClean, SurroundingsClean, FilesClean, LedgerClean, RunClean

\* Whatever a run takes from the ledger and from the snapshot file is what it would have
\* computed itself, unless something changed that no provenance tells of.
THEOREM ResumeFaithful == CampaignSpec => []ResumeIsFaithful
<1>1. CampaignInit => CampaignClean
    BY InitClean
<1>2. CampaignTypeOK /\ CampaignTypeOK' /\ CampaignClean /\ [CampaignNext]_campaignVars => CampaignClean'
    BY NextClean
<1>3. CampaignTypeOK /\ CampaignClean => ResumeIsFaithful
    <2> SUFFICES ASSUME CampaignTypeOK, CampaignClean, ~drifted, NEW c \in Judged
                 PROVE  campaign.results[c] = FreshJudgement(campaign)
        BY DEF ResumeIsFaithful
    <2>1. campaign.at \in {"judging", "locked"} /\ c \in DOMAIN campaign.results
        BY DEF Judged
    <2>2. campaign \in Judgings /\ campaign # NoRun
        BY <2>1, RunKinds DEF CampaignTypeOK, NoRun
    <2> QED BY <2>1, <2>2 DEF CampaignClean, RunClean
<1> QED BY <1>1, <1>2, <1>3, CampaignTyped, PTL DEF CampaignSpec
=============================================================================
