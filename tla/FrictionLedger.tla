-------------------------- MODULE FrictionLedger --------------------------
(***************************************************************************)
(* Empirical friction evidence (apps/market_data/friction): append-only    *)
(* snapshots, attestations and claims of qualification for the six roles   *)
(* of a friction model, the script that seals a model version out of them  *)
(* and activates it, and the point-in-time resolver that paper observation *)
(* and its replay ask for the model in force at a past moment.             *)
(*                                                                         *)
(* The ingestion command, several operators' scripts and the observer run  *)
(* side by side.  The command writes row by row and may die in between;    *)
(* the script writes in one transaction, but dates what it writes by the   *)
(* moment it started.  A version id is a constant of the scope, so there   *)
(* is at most one version; the tick archive is one, too.                   *)
(***************************************************************************)
EXTENDS Integers, Sequences

CONSTANTS
    Operators,    \* processes that run the activation script
    LastMoment,   \* bound of the clock
    Unproved,     \* no attestation
    Unsealed      \* no model version

Moments == 0..LastMoment

\* The roles whose artifacts the script holds itself, and attests anew in every run.
HeldRoles == {"LEGAL_ENTITY", "CONTRACT_SPEC", "COMMISSION", "FINANCING", "SLIPPAGE_DATASET"}
FrictionRoles == HeldRoles \cup {"SPREAD_DATASET"}

Attestation == [by: {"CAPTURE", "SCRIPT"}, at: Moments]
Capture == [row: {"SNAPSHOT", "DATASET", "ATTESTED"}, at: Moments]
Claim == [qualified: BOOLEAN, proof: Attestation \cup {Unproved}]
Version == [fingerprint: [FrictionRoles -> Attestation \cup {Unproved}], reviewed: BOOLEAN]
Activation == [status: {"ACTIVE", "DRAFT"}, from: Moments, committed: Moments]

FrictionAssumption ==
    /\ LastMoment \in Nat
    /\ Unproved \notin Attestation
    /\ Unsealed \notin Version
ASSUME FrictionAssumption

VARIABLES
    moment,       \* the clock
    review,       \* the composite review of the legal entity passes
    ticks,        \* rows of the tick archive: "NONE", "SNAPSHOT" or "DATASET"
    proofs,       \* VERIFIED attestations of the tick archive, oldest first
    claims,       \* for each role, claims of qualification of its artifact, oldest first
    capture,      \* the command that captures the archive: the last row it wrote and the moment
                  \* it fetched the bytes, or Unsealed when none is running
    scripts,      \* for each operator, the script's start; Unsealed when none is running
    lastStart,    \* moment of the latest start of a script
    version,      \* the sealed version, or Unsealed
    activations,  \* rows of activation, with the moment they were committed
    told          \* what the observer was told to hold at a moment: "UNASKED", "NOTHING", "MODEL"

frictionVars == <<moment, review, ticks, proofs, claims, capture, scripts, lastStart,
                  version, activations, told>>

-----------------------------------------------------------------------------
(* Append-only rows.                                                       *)

\* A row's id covers what it says: writing it again finds the old row.
Written(rows, row) == IF \E i \in DOMAIN rows : rows[i] = row THEN rows ELSE Append(rows, row)
Latest(rows) == rows[Len(rows)]

\* A claim of qualification stands only on a verified attestation, and is recorded as unverified
\* without one; a claim offered without an attestation is linked to the newest there is.
ClaimOf(proof) == [qualified |-> proof # Unproved, proof |-> proof]
UnverifiedClaim == [qualified |-> FALSE,
                    proof |-> IF proofs = <<>> THEN Unproved ELSE Latest(proofs)]

\* Mutant of Resolve: an active row counts from always on.
ResolveEver(t) ==
    IF \E a \in activations : a.status = "ACTIVE" /\ t \in Moments THEN "MODEL" ELSE "NOTHING"

\* The resolver: an active row known and effective at t.
Resolve(t) ==
    IF \E a \in activations : a.status = "ACTIVE" /\ a.from <= t THEN "MODEL" ELSE "NOTHING"

\* The proof the validator reads for the fingerprint: that of the role's latest qualified claim.
QualifiedProof(rows) ==
    LET latest == {i \in DOMAIN rows : /\ rows[i].qualified
                                        /\ \A j \in DOMAIN rows : j > i => ~rows[j].qualified}
    IN IF latest = {} THEN Unproved ELSE rows[CHOOSE i \in latest : TRUE].proof

\* The latest claim of a role, whatever it says, has to be a qualified one.
Qualified(rows) == rows # <<>> /\ Latest(rows).qualified

LegalStands(rows) == review /\ Qualified(rows["LEGAL_ENTITY"])
TermsStand(rows) == \A r \in {"CONTRACT_SPEC", "COMMISSION", "FINANCING"} : Qualified(rows[r])
SpreadStands(rows) == Qualified(rows["SPREAD_DATASET"])
SlippageStands(rows) == Qualified(rows["SLIPPAGE_DATASET"])

\* validate_friction_model_for_activation: every role stands, and the fingerprint over the
\* attestations now on record is the one the version was sealed with.
Valid(v, rows) ==
    /\ LegalStands(rows)
    /\ TermsStand(rows)
    /\ SpreadStands(rows)
    /\ SlippageStands(rows)
    /\ v.fingerprint = [r \in FrictionRoles |-> QualifiedProof(rows[r])]

\* The gate the readiness evaluator passes on EMPIRICAL_FRICTION_CONFIGURED.
Configured == Resolve(moment) = "MODEL" /\ Valid(version, claims)

-----------------------------------------------------------------------------
(* The ingestion command: tick archive by url, or as a file.               *)

\* The governed capture stores the archive unless a snapshot of the same bytes is there, which it
\* leaves as it is.
CaptureTicks ==
    /\ capture = Unsealed /\ ticks = "NONE"
    /\ capture' = [row |-> "SNAPSHOT", at |-> moment] /\ ticks' = "SNAPSHOT"
    /\ UNCHANGED <<moment, review, proofs, claims, scripts, lastStart, version, activations, told>>

SampleTicks ==
    /\ capture # Unsealed /\ capture.row = "SNAPSHOT"
    /\ capture' = [capture EXCEPT !.row = "DATASET"] /\ ticks' = "DATASET"
    /\ UNCHANGED <<moment, review, proofs, claims, scripts, lastStart, version, activations, told>>

Captured == [by |-> "CAPTURE", at |-> capture.at]

AttestTicks ==
    /\ capture # Unsealed /\ capture.row = "DATASET"
    /\ capture' = [capture EXCEPT !.row = "ATTESTED"]
    /\ proofs' = Written(proofs, Captured)
    /\ UNCHANGED <<moment, review, ticks, claims, scripts, lastStart, version, activations, told>>

ClaimTicks ==
    /\ capture # Unsealed /\ capture.row = "ATTESTED"
    /\ capture' = Unsealed
    /\ claims' = [claims EXCEPT !["SPREAD_DATASET"] = Written(@, ClaimOf(Captured))]
    /\ UNCHANGED <<moment, review, ticks, proofs, scripts, lastStart, version, activations, told>>

BreakCapture ==
    /\ capture # Unsealed
    /\ capture' = Unsealed
    /\ UNCHANGED <<moment, review, ticks, proofs, claims, scripts, lastStart, version, activations, told>>

\* The same bytes offered as a file: snapshot and dataset when missing, and an unverified claim.
OfferTicks ==
    /\ ticks' = "DATASET"
    /\ claims' = [claims EXCEPT !["SPREAD_DATASET"] = Written(@, UnverifiedClaim)]
    /\ UNCHANGED <<moment, review, proofs, capture, scripts, lastStart, version, activations, told>>

\* The operator completes the review of the legal entity.
PassReview ==
    /\ ~review
    /\ review' = TRUE
    /\ UNCHANGED <<moment, ticks, proofs, claims, capture, scripts, lastStart, version, activations, told>>

-----------------------------------------------------------------------------
(* The activation script.                                                  *)

\* Mutant of StartScript: it does not look for a model in force.
StartScriptAgain(o) ==
    /\ scripts[o] = Unsealed /\ lastStart < moment
    /\ scripts' = [scripts EXCEPT ![o] = moment]
    /\ lastStart' = moment
    /\ UNCHANGED <<moment, review, ticks, proofs, claims, capture, version, activations, told>>

\* The script reads the clock and looks for an active model; with one in force it writes nothing.
\* No two scripts read the same instant.
StartScript(o) ==
    /\ scripts[o] = Unsealed /\ lastStart < moment
    /\ Resolve(moment) = "NOTHING"
    /\ scripts' = [scripts EXCEPT ![o] = moment]
    /\ lastStart' = moment
    /\ UNCHANGED <<moment, review, ticks, proofs, claims, capture, version, activations, told>>

\* The archive's attestation signed anew, under the moment of its capture.
Resigned == [by |-> "SCRIPT", at |-> Latest(proofs).at]

ClaimsOfRun(start) ==
    [r \in FrictionRoles |->
        Written(claims[r], ClaimOf(IF r = "SPREAD_DATASET" THEN Resigned
                                   ELSE [by |-> "SCRIPT", at |-> start]))]

\* The version under its fixed id: the one on record, or one sealed over the latest claims.
\* reviewed is kept to tell how the version was born.
Bound(rows) ==
    IF version # Unsealed THEN version
    ELSE [fingerprint |-> [r \in FrictionRoles |-> Latest(rows[r]).proof], reviewed |-> review]

\* One row for each version and status, dated by the start of the run that wrote it.
Activated(start, status) ==
    IF \E a \in activations : a.status = status THEN activations
    ELSE activations \cup {[status |-> status, from |-> start, committed |-> moment]}

\* The transaction; it needs a dataset, an attestation and a claim of the archive to start from.
SealModel(o) ==
    /\ scripts[o] # Unsealed
    /\ ticks = "DATASET" /\ proofs # <<>> /\ claims["SPREAD_DATASET"] # <<>>
    /\ LET rows == ClaimsOfRun(scripts[o])
       IN /\ claims' = rows
          /\ version' = Bound(rows)
          /\ activations' = Activated(scripts[o], IF Valid(Bound(rows), rows) THEN "ACTIVE" ELSE "DRAFT")
    /\ proofs' = Written(proofs, Resigned)
    /\ scripts' = [scripts EXCEPT ![o] = Unsealed]
    /\ UNCHANGED <<moment, review, ticks, capture, lastStart, told>>

\* The script dies or aborts, and nothing is written.
AbandonScript(o) ==
    /\ scripts[o] # Unsealed
    /\ scripts' = [scripts EXCEPT ![o] = Unsealed]
    /\ UNCHANGED <<moment, review, ticks, proofs, claims, capture, lastStart, version, activations, told>>

-----------------------------------------------------------------------------
(* The observer, and the clock.                                            *)

\* A signal decided at t is observed, now or later, with the model resolved as of t.
Consult(t) ==
    /\ t <= moment /\ told[t] = "UNASKED"
    /\ told' = [told EXCEPT ![t] = Resolve(t)]
    /\ UNCHANGED <<moment, review, ticks, proofs, claims, capture, scripts, lastStart, version, activations>>

PassTime ==
    /\ moment < LastMoment
    /\ moment' = moment + 1
    /\ UNCHANGED <<review, ticks, proofs, claims, capture, scripts, lastStart, version, activations, told>>

FrictionInit ==
    /\ moment = 0 /\ review \in BOOLEAN
    /\ ticks = "NONE" /\ proofs = <<>> /\ capture = Unsealed
    /\ claims = [r \in FrictionRoles |-> <<>>]
    /\ scripts = [o \in Operators |-> Unsealed] /\ lastStart = -1
    /\ version = Unsealed /\ activations = {}
    /\ told = [t \in Moments |-> "UNASKED"]

FrictionNext ==
    \/ CaptureTicks \/ SampleTicks \/ AttestTicks \/ ClaimTicks \/ BreakCapture
    \/ OfferTicks \/ PassReview
    \/ \E o \in Operators : StartScript(o) \/ SealModel(o) \/ AbandonScript(o)
    \/ \E t \in Moments : Consult(t)
    \/ PassTime

FrictionSpec == FrictionInit /\ [][FrictionNext]_frictionVars

-----------------------------------------------------------------------------
FrictionTypeOK ==
    /\ moment \in Moments
    /\ review \in BOOLEAN
    /\ ticks \in {"NONE", "SNAPSHOT", "DATASET"}
    /\ proofs \in Seq(Attestation)
    /\ claims \in [FrictionRoles -> Seq(Claim)]
    /\ capture \in Capture \cup {Unsealed}
    /\ scripts \in [Operators -> Moments \cup {Unsealed}]
    /\ lastStart \in Moments \cup {-1}
    /\ version \in Version \cup {Unsealed}
    /\ activations \subseteq Activation
    /\ told \in [Moments -> {"UNASKED", "NOTHING", "MODEL"}]

\* Past answers stand: asking again for the model of a past moment, as the replay audit does, gives
\* what the observer was told, except inside the window of one activation, between the start of the
\* script that wrote it and its commit.
AnswersStand ==
    \A t \in Moments :
        \/ told[t] \in {"UNASKED", Resolve(t)}
        \/ \E a \in activations : a.status = "ACTIVE" /\ a.from <= t /\ t <= a.committed

\* Where a version is on record but the gate does not pass, there is a reason in how it came about:
\* it was sealed before the legal review passed; a claim about its archive came after the script's,
\* from a file or a capture under way; or a script that had started before the activation was
\* committed ran after it.
UnconfiguredHasCause ==
    version # Unsealed =>
        \/ Configured
        \/ ~version.reviewed
        \/ Latest(claims["SPREAD_DATASET"]) # ClaimOf(Resigned)
        \/ \E a \in activations :
              LET late == Latest(claims["LEGAL_ENTITY"]).proof
              IN a.status = "ACTIVE" /\ late.at # a.from /\ late.at <= a.committed
=============================================================================
