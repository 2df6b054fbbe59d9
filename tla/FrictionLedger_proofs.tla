----------------------- MODULE FrictionLedger_proofs -----------------------
(***************************************************************************)
(* Theorems about FrictionLedger: types, what a past answer may become,    *)
(* and why the gate may refuse a version that is on record.                *)
(***************************************************************************)
EXTENDS FrictionLedger, TLAPS

-----------------------------------------------------------------------------
(* The inductive invariant.                                                *)

\* Nothing is dated later than now, and no two scripts have one start.
Clocked ==
    /\ lastStart <= moment
    /\ \A o \in Operators : scripts[o] # Unsealed => scripts[o] <= lastStart
    /\ \A o, q \in Operators : o # q /\ scripts[o] # Unsealed => scripts[o] # scripts[q]
    /\ \A a \in activations : a.from <= a.committed /\ a.committed <= moment
    /\ \A t \in Moments : told[t] # "UNASKED" => t <= moment

\* The archive is captured once, so that its attestations agree on the moment.
CapturedOnce ==
    /\ ticks = "NONE" => proofs = <<>>
    /\ capture # Unsealed => ticks # "NONE"
    /\ capture # Unsealed /\ capture.row \in {"SNAPSHOT", "DATASET"} => proofs = <<>>
    /\ \A i, j \in DOMAIN proofs : proofs[i].at = proofs[j].at

\* Only scripts claim a held role, each under its own start.
Claimed ==
    \A r \in HeldRoles : \A i \in DOMAIN claims[r] :
        /\ claims[r][i].qualified
        /\ claims[r][i].proof \in [by: {"SCRIPT"}, at: Moments]
        /\ claims[r][i].proof.at <= lastStart
        /\ \A o \in Operators : scripts[o] # Unsealed => claims[r][i].proof.at # scripts[o]

\* What there is before a version is sealed, and the archive's claims after.
BeforeSealing ==
    IF version = Unsealed
    THEN /\ activations = {}
         /\ \A r \in HeldRoles : claims[r] = <<>>
         /\ \A i \in DOMAIN claims["SPREAD_DATASET"] :
              claims["SPREAD_DATASET"][i].qualified =>
                 claims["SPREAD_DATASET"][i].proof.by = "CAPTURE"
    ELSE claims["SPREAD_DATASET"] # <<>> /\ proofs # <<>>

\* The attestation a script started at start gives a role.
Signed(r, start) ==
    IF r = "SPREAD_DATASET" THEN Resigned ELSE [by |-> "SCRIPT", at |-> start]

Fresh(a) ==
    \A r \in HeldRoles : claims[r] # <<>> /\ Latest(claims[r]) = ClaimOf(Signed(r, a.from))
Late(a) ==
    /\ claims["LEGAL_ENTITY"] # <<>>
    /\ Latest(claims["LEGAL_ENTITY"]).proof.at # a.from
    /\ Latest(claims["LEGAL_ENTITY"]).proof.at <= a.committed

\* The activation a reviewed version was born with.
Birth(a) ==
    /\ a.status = "ACTIVE"
    /\ version.fingerprint = [r \in FrictionRoles |-> Signed(r, a.from)]
    /\ \A o \in Operators : scripts[o] # Unsealed => scripts[o] # a.from /\ scripts[o] <= a.committed
    /\ Fresh(a) \/ Late(a)

Born == version # Unsealed /\ version.reviewed => review /\ \E a \in activations : Birth(a)

Recorded == FrictionTypeOK /\ Clocked /\ CapturedOnce /\ Claimed /\ BeforeSealing /\ Born

-----------------------------------------------------------------------------
(* Append-only rows.                                                       *)

LEMMA LatestIsARow ==
    ASSUME NEW S, NEW rows \in Seq(S), rows # <<>>
    PROVE  Len(rows) \in DOMAIN rows /\ Latest(rows) \in S
  BY DEF Latest

\* What writing a row leaves: the rows there were, and the row.
LEMMA WritingARow ==
    ASSUME NEW S, NEW rows \in Seq(S), NEW row \in S
    PROVE  /\ Written(rows, row) \in Seq(S)
           /\ Written(rows, row) # <<>>
           /\ \A i \in DOMAIN Written(rows, row) :
                \/ Written(rows, row)[i] = row
                \/ i \in DOMAIN rows /\ Written(rows, row)[i] = rows[i]
           /\ (\A i \in DOMAIN rows : rows[i] # row) => Latest(Written(rows, row)) = row
<1>1. CASE \E i \in DOMAIN rows : rows[i] = row
  BY <1>1 DEF Written
<1>2. CASE ~\E i \in DOMAIN rows : rows[i] = row
  <2>1. Written(rows, row) = Append(rows, row)
    BY <1>2 DEF Written
  <2>2. QED
    BY <2>1 DEF Latest
<1> QED
  BY <1>1, <1>2

\* The same of claims and of attestations.
LEMMA WritingAClaim ==
    ASSUME NEW rows \in Seq(Claim), NEW row \in Claim
    PROVE  /\ Written(rows, row) \in Seq(Claim)
           /\ Written(rows, row) # <<>>
           /\ \A i \in DOMAIN Written(rows, row) :
                \/ Written(rows, row)[i] = row
                \/ i \in DOMAIN rows /\ Written(rows, row)[i] = rows[i]
           /\ (\A i \in DOMAIN rows : rows[i] # row) => Latest(Written(rows, row)) = row
<1>1. /\ Written(rows, row) \in Seq(Claim)
      /\ Written(rows, row) # <<>>
      /\ \A i \in DOMAIN Written(rows, row) :
           \/ Written(rows, row)[i] = row
           \/ i \in DOMAIN rows /\ Written(rows, row)[i] = rows[i]
  BY WritingARow, SMT
<1>2. ASSUME \A i \in DOMAIN rows : rows[i] # row
      PROVE  Latest(Written(rows, row)) = row
  BY <1>2, WritingARow, SMT
<1> QED
  BY <1>1, <1>2

LEMMA WritingAProof ==
    ASSUME NEW rows \in Seq(Attestation), NEW row \in Attestation
    PROVE  /\ Written(rows, row) \in Seq(Attestation)
           /\ Written(rows, row) # <<>>
           /\ \A i \in DOMAIN Written(rows, row) :
                \/ Written(rows, row)[i] = row
                \/ i \in DOMAIN rows /\ Written(rows, row)[i] = rows[i]
  BY WritingARow, SMT

\* The proof of the newest claim is the one the validator reads, where that claim is qualified.
LEMMA LatestIsRead ==
    ASSUME NEW rows \in Seq(Claim), Qualified(rows)
    PROVE  QualifiedProof(rows) = Latest(rows).proof
<1> DEFINE latest == {i \in DOMAIN rows : /\ rows[i].qualified
                                          /\ \A j \in DOMAIN rows : j > i => ~rows[j].qualified}
<1>1. Len(rows) \in DOMAIN rows /\ rows[Len(rows)].qualified
  BY DEF Qualified, Latest
<1>2. \A i \in DOMAIN rows : i \in latest => i = Len(rows)
  BY <1>1
<1>3. Len(rows) \in latest
  BY <1>1
<1>4. latest = {Len(rows)}
  BY <1>2, <1>3
<1> HIDE DEF latest
<1>5. QualifiedProof(rows) = rows[CHOOSE i \in latest : TRUE].proof
  BY <1>4 DEF QualifiedProof, latest
<1> QED
  BY <1>4, <1>5 DEF Latest

LEMMA ClaimsAreClaims ==
    /\ \A p \in Attestation : ClaimOf(p) \in Claim /\ ClaimOf(p).qualified /\ ClaimOf(p).proof = p
    /\ FrictionTypeOK => UnverifiedClaim \in Claim /\ ~UnverifiedClaim.qualified
<1>1. \A p \in Attestation : p # Unproved
  BY FrictionAssumption DEF FrictionAssumption, Attestation
<1>2. ASSUME FrictionTypeOK PROVE UnverifiedClaim \in Claim
  BY <1>2, LatestIsARow DEF FrictionTypeOK, UnverifiedClaim, Claim
<1> QED
  BY <1>1, <1>2 DEF ClaimOf, Claim, UnverifiedClaim

\* The attestation a script signs.
LEMMA SignedIsOne ==
    ASSUME FrictionTypeOK, proofs # <<>>
    PROVE  Resigned \in Attestation
  BY LatestIsARow DEF FrictionTypeOK, Resigned, Attestation

-----------------------------------------------------------------------------
(* Types.                                                                  *)

LEMMA TypesAtStart == FrictionInit => FrictionTypeOK
<1>1. 0 \in Moments
  BY FrictionAssumption DEF FrictionAssumption, Moments
<1> QED
  BY <1>1 DEF FrictionInit, FrictionTypeOK

\* The claims of a run are claims.
LEMMA RunClaims ==
    ASSUME FrictionTypeOK, proofs # <<>>, NEW start \in Moments
    PROVE  /\ ClaimsOfRun(start) \in [FrictionRoles -> Seq(Claim)]
           /\ \A r \in FrictionRoles :
                 ClaimsOfRun(start)[r] = Written(claims[r], ClaimOf(Signed(r, start)))
           /\ \A r \in FrictionRoles : ClaimsOfRun(start)[r] # <<>>
           /\ \A r \in FrictionRoles : Signed(r, start) \in Attestation
<1>1. \A r \in FrictionRoles : Signed(r, start) \in Attestation
  BY SignedIsOne DEF Signed, Attestation
<1>2. \A r \in FrictionRoles :
         ClaimsOfRun(start)[r] = Written(claims[r], ClaimOf(Signed(r, start)))
  BY DEF ClaimsOfRun, Signed
<1>3. ASSUME NEW r \in FrictionRoles
      PROVE  /\ Written(claims[r], ClaimOf(Signed(r, start))) \in Seq(Claim)
             /\ Written(claims[r], ClaimOf(Signed(r, start))) # <<>>
  <2>1. claims[r] \in Seq(Claim) /\ ClaimOf(Signed(r, start)) \in Claim
    BY <1>1, ClaimsAreClaims DEF FrictionTypeOK
  <2> QED
    BY <2>1, WritingAClaim
<1>4. DOMAIN ClaimsOfRun(start) = FrictionRoles
  BY DEF ClaimsOfRun
<1>5. ClaimsOfRun(start) = [r \in FrictionRoles |-> ClaimsOfRun(start)[r]]
  BY DEF ClaimsOfRun
<1> HIDE DEF FrictionRoles
<1>6. \A r \in FrictionRoles : ClaimsOfRun(start)[r] \in Seq(Claim) /\ ClaimsOfRun(start)[r] # <<>>
  BY <1>2, <1>3
<1> QED
  BY <1>1, <1>2, <1>5, <1>6

\* The version a run leaves is one, bound to the attestations it signed unless it was there.
LEMMA SealedIsAVersion ==
    ASSUME FrictionTypeOK, proofs # <<>>, NEW start \in Moments
    PROVE  /\ Bound(ClaimsOfRun(start)) \in Version
           /\ Bound(ClaimsOfRun(start)) # Unsealed
<1> DEFINE rows == ClaimsOfRun(start)
<1>1. rows \in [FrictionRoles -> Seq(Claim)] /\ \A r \in FrictionRoles : rows[r] # <<>>
  BY RunClaims
<1> HIDE DEF rows
<1>2. \A r \in FrictionRoles : Latest(rows[r]) \in Claim
  BY <1>1, LatestIsARow
<1>3. \A r \in FrictionRoles : Latest(rows[r]).proof \in Attestation \cup {Unproved}
  BY <1>2 DEF Claim
<1>4. [r \in FrictionRoles |-> Latest(rows[r]).proof] \in [FrictionRoles -> Attestation \cup {Unproved}]
  BY <1>3
<1>5. Bound(rows) \in Version
  BY <1>4 DEF Bound, Version, FrictionTypeOK
<1> QED
  BY <1>5, FrictionAssumption DEF FrictionAssumption, rows

LEMMA TypesStay == FrictionTypeOK /\ [FrictionNext]_frictionVars => FrictionTypeOK'
<1> SUFFICES ASSUME FrictionTypeOK, [FrictionNext]_frictionVars PROVE FrictionTypeOK'
  OBVIOUS
<1> USE DEF FrictionTypeOK
<1>1. CASE CaptureTicks
  BY <1>1 DEF CaptureTicks, Capture
<1>2. CASE SampleTicks
  BY <1>2 DEF SampleTicks, Capture
<1>3. CASE AttestTicks
  <2>1. Captured \in Attestation
    BY <1>3 DEF AttestTicks, Capture, Captured, Attestation
  <2>2. proofs' \in Seq(Attestation)
    BY <1>3, <2>1, WritingARow DEF AttestTicks
  <2> QED
    BY <1>3, <2>2 DEF AttestTicks, Capture
<1>4. CASE ClaimTicks
  <2>1. ClaimOf(Captured) \in Claim
    BY <1>4, ClaimsAreClaims DEF ClaimTicks, Capture, Captured, Attestation
  <2>2. Written(claims["SPREAD_DATASET"], ClaimOf(Captured)) \in Seq(Claim)
    BY <2>1, WritingARow DEF FrictionRoles
  <2> QED
    BY <1>4, <2>2 DEF ClaimTicks
<1>5. CASE BreakCapture
  BY <1>5 DEF BreakCapture
<1>6. CASE OfferTicks
  <2>1. Written(claims["SPREAD_DATASET"], UnverifiedClaim) \in Seq(Claim)
    BY ClaimsAreClaims, WritingARow DEF FrictionRoles
  <2> QED
    BY <1>6, <2>1 DEF OfferTicks
<1>7. CASE PassReview
  BY <1>7 DEF PassReview
<1>8. ASSUME NEW o \in Operators, StartScript(o) PROVE FrictionTypeOK'
  BY <1>8 DEF StartScript
<1>9. ASSUME NEW o \in Operators, SealModel(o) PROVE FrictionTypeOK'
  <2> DEFINE rows == ClaimsOfRun(scripts[o])
  <2>1. scripts[o] \in Moments /\ proofs # <<>>
    BY <1>9 DEF SealModel
  <2>2. rows \in [FrictionRoles -> Seq(Claim)]
    BY <2>1, RunClaims
  <2> HIDE DEF rows
  <2>3. Bound(rows) \in Version
    BY <2>1, SealedIsAVersion DEF rows
  <2>4. \A s \in {"ACTIVE", "DRAFT"} : Activated(scripts[o], s) \subseteq Activation
    BY <2>1 DEF Activated, Activation
  <2>5. proofs' \in Seq(Attestation)
    BY <1>9, <2>1, SignedIsOne, WritingARow DEF SealModel
  <2>6. claims' = rows /\ version' = Bound(rows)
    BY <1>9 DEF SealModel, rows
  <2>7. activations' \subseteq Activation
    BY <1>9, <2>4 DEF SealModel
  <2> QED
    BY <1>9, <2>2, <2>3, <2>5, <2>6, <2>7 DEF SealModel
<1>10. ASSUME NEW o \in Operators, AbandonScript(o) PROVE FrictionTypeOK'
  BY <1>10 DEF AbandonScript
<1>11. ASSUME NEW t \in Moments, Consult(t) PROVE FrictionTypeOK'
  BY <1>11 DEF Consult, Resolve
<1>12. CASE PassTime
  BY <1>12, FrictionAssumption DEF PassTime, FrictionAssumption, Moments
<1>13. CASE UNCHANGED frictionVars
  BY <1>13 DEF frictionVars
<1> QED
  BY <1>1, <1>2, <1>3, <1>4, <1>5, <1>6, <1>7, <1>8, <1>9, <1>10, <1>11, <1>12, <1>13 DEF FrictionNext

\* The types of the evidence tables, of the processes under way and of the answers.
THEOREM FrictionTyped == FrictionSpec => []FrictionTypeOK
  BY TypesAtStart, TypesStay, PTL DEF FrictionSpec

-----------------------------------------------------------------------------
(* The invariant.                                                          *)

LEMMA RecordedAtStart == FrictionInit => Recorded
  BY TypesAtStart DEF FrictionInit, Recorded, Clocked, CapturedOnce, Claimed, BeforeSealing, Born,
     HeldRoles, FrictionRoles

LEMMA ClocksStay == Recorded /\ [FrictionNext]_frictionVars => Clocked'
<1> SUFFICES ASSUME Recorded, [FrictionNext]_frictionVars PROVE Clocked'
  OBVIOUS
<1> USE DEF Recorded, Clocked
<1>1. /\ Moments \subseteq Int /\ moment \in Int /\ lastStart \in Int
      /\ \A o \in Operators : scripts[o] # Unsealed => scripts[o] \in Int
  BY DEF Moments, FrictionTypeOK
<1>2. CASE \/ CaptureTicks \/ SampleTicks \/ AttestTicks \/ ClaimTicks \/ BreakCapture
           \/ OfferTicks \/ PassReview \/ UNCHANGED frictionVars
  BY <1>2 DEF CaptureTicks, SampleTicks, AttestTicks, ClaimTicks, BreakCapture, OfferTicks,
     PassReview, frictionVars
<1>3. ASSUME NEW o \in Operators, StartScript(o) PROVE Clocked'
  <2>1. scripts' = [scripts EXCEPT ![o] = moment] /\ lastStart' = moment /\ lastStart < moment
    BY <1>3 DEF StartScript
  <2>2. ASSUME NEW q \in Operators, q # o, scripts[q] # Unsealed
        PROVE  scripts[q] < moment
    BY <1>1, <2>1, <2>2
  <2>3. \A q \in Operators : scripts'[q] # Unsealed => scripts'[q] <= lastStart'
    BY <1>1, <2>1, <2>2 DEF FrictionTypeOK
  <2>4. \A p, q \in Operators : p # q /\ scripts'[p] # Unsealed => scripts'[p] # scripts'[q]
    BY <1>1, <2>1, <2>2 DEF FrictionTypeOK
  <2> QED
    BY <1>1, <1>3, <2>1, <2>3, <2>4 DEF StartScript
<1>4. ASSUME NEW o \in Operators, SealModel(o) PROVE Clocked'
  <2>1. scripts' = [scripts EXCEPT ![o] = Unsealed] /\ scripts[o] \in Moments
    BY <1>4 DEF SealModel, FrictionTypeOK
  <2>2. \A p, q \in Operators : p # q /\ scripts'[p] # Unsealed => scripts'[p] # scripts'[q]
    BY <2>1 DEF FrictionTypeOK
  <2>3. PICK status : activations' = Activated(scripts[o], status)
    BY <1>4, Zenon DEF SealModel
  <2>4. \A a \in activations' :
           a \in activations \/ a = [status |-> status, from |-> scripts[o], committed |-> moment]
    BY <2>3 DEF Activated
  <2>5. scripts[o] <= moment
    BY <1>1, <1>4 DEF SealModel
  <2>6. \A a \in activations' : a.from <= a.committed /\ a.committed <= moment
    BY <1>1, <2>4, <2>5
  <2> QED
    BY <1>4, <2>1, <2>2, <2>6 DEF SealModel, FrictionTypeOK
<1>5. ASSUME NEW o \in Operators, AbandonScript(o) PROVE Clocked'
  BY <1>5 DEF AbandonScript, FrictionTypeOK
<1>6. ASSUME NEW t \in Moments, Consult(t) PROVE Clocked'
  BY <1>6 DEF Consult, FrictionTypeOK
<1>7. CASE PassTime
  <2>1. moment' = moment + 1 /\ UNCHANGED <<scripts, lastStart, activations, told>>
    BY <1>7 DEF PassTime
  <2>2. \A a \in activations : a.committed \in Moments
    BY DEF FrictionTypeOK, Activation
  <2>3. ASSUME NEW a \in activations PROVE a.committed <= moment'
    <3>1. a.committed \in Int /\ a.committed <= moment
      BY <1>1, <2>2
    <3> QED
      BY <1>1, <2>1, <3>1
  <2>4. \A t \in Moments : told[t] # "UNASKED" => t <= moment'
    BY <1>1, <2>1
  <2> QED
    BY <1>1, <2>1, <2>3, <2>4
<1> QED
  BY <1>2, <1>3, <1>4, <1>5, <1>6, <1>7 DEF FrictionNext

LEMMA CaptureStays == Recorded /\ [FrictionNext]_frictionVars => CapturedOnce'
<1> SUFFICES ASSUME Recorded, [FrictionNext]_frictionVars PROVE CapturedOnce'
  OBVIOUS
<1> USE DEF Recorded, CapturedOnce
<1>1. CASE CaptureTicks
  BY <1>1 DEF CaptureTicks
<1>2. CASE SampleTicks
  BY <1>2 DEF SampleTicks, FrictionTypeOK, Capture
<1>3. CASE AttestTicks
  <2>1. proofs = <<>>
    BY <1>3 DEF AttestTicks
  <2>2. proofs' = <<Captured>>
    BY <1>3, <2>1 DEF AttestTicks, Written
  <2>3. \A i, j \in DOMAIN proofs' : proofs'[i].at = proofs'[j].at
    BY <2>2
  <2>4. capture' = [capture EXCEPT !.row = "ATTESTED"] /\ capture \in Capture /\ ticks' = ticks
    BY <1>3 DEF AttestTicks, FrictionTypeOK
  <2> QED
    BY <1>3, <2>3, <2>4 DEF AttestTicks, Capture
<1>4. ASSUME NEW o \in Operators, SealModel(o) PROVE CapturedOnce'
  <2>1. proofs \in Seq(Attestation) /\ proofs # <<>> /\ ticks = "DATASET"
    BY <1>4 DEF SealModel, FrictionTypeOK
  <2>2. proofs' = Written(proofs, Resigned) /\ Resigned \in Attestation
    BY <1>4, <2>1, SignedIsOne DEF SealModel
  <2>3. \A i \in DOMAIN proofs : proofs[i].at = Resigned.at
    BY <2>1, LatestIsARow DEF Resigned, Latest
  <2>4. ASSUME NEW i \in DOMAIN proofs' PROVE proofs'[i].at = Resigned.at
    <3>1. proofs'[i] = Resigned \/ (i \in DOMAIN proofs /\ proofs'[i] = proofs[i])
      BY <2>1, <2>2, WritingAProof
    <3> QED
      BY <2>3, <3>1
  <2> QED
    BY <1>4, <2>1, <2>4 DEF SealModel
<1>5. CASE \/ ClaimTicks \/ BreakCapture \/ OfferTicks \/ PassReview \/ PassTime
           \/ UNCHANGED frictionVars
  BY <1>5 DEF ClaimTicks, BreakCapture, OfferTicks, PassReview, PassTime, frictionVars
<1>6. ASSUME NEW o \in Operators, StartScript(o) \/ AbandonScript(o) PROVE CapturedOnce'
  BY <1>6 DEF StartScript, AbandonScript
<1>7. ASSUME NEW t \in Moments, Consult(t) PROVE CapturedOnce'
  BY <1>7 DEF Consult
<1> QED
  BY <1>1, <1>2, <1>3, <1>4, <1>5, <1>6, <1>7 DEF FrictionNext


\* What a run adds to a role it holds: its own claim, which no run before it can have made.
LEMMA RunAddsItsClaim ==
    ASSUME Recorded, NEW o \in Operators, scripts[o] # Unsealed, proofs # <<>>,
           NEW r \in HeldRoles
    PROVE  LET row == ClaimOf([by |-> "SCRIPT", at |-> scripts[o]])
           IN  /\ Latest(ClaimsOfRun(scripts[o])[r]) = row
               /\ \A i \in DOMAIN ClaimsOfRun(scripts[o])[r] :
                    \/ ClaimsOfRun(scripts[o])[r][i] = row
                    \/ i \in DOMAIN claims[r] /\ ClaimsOfRun(scripts[o])[r][i] = claims[r][i]
<1> DEFINE mine == [by |-> "SCRIPT", at |-> scripts[o]]
<1>1. scripts[o] \in Moments /\ r \in FrictionRoles /\ mine \in Attestation
  BY DEF Recorded, FrictionTypeOK, FrictionRoles, Attestation
<1>2. claims[r] \in Seq(Claim) /\ ClaimOf(mine) \in Claim /\ ClaimOf(mine).proof = mine
  BY <1>1, ClaimsAreClaims DEF Recorded, FrictionTypeOK
<1>3. ClaimsOfRun(scripts[o])[r] = Written(claims[r], ClaimOf(mine))
  BY <1>1 DEF ClaimsOfRun, HeldRoles
<1>4. \A i \in DOMAIN claims[r] : claims[r][i].proof.at # mine.at
  BY DEF Recorded, Claimed
<1> HIDE DEF mine
<1>5. \A i \in DOMAIN claims[r] : claims[r][i] # ClaimOf(mine)
  BY <1>2, <1>4
<1>6. /\ Latest(Written(claims[r], ClaimOf(mine))) = ClaimOf(mine)
      /\ \A i \in DOMAIN Written(claims[r], ClaimOf(mine)) :
           \/ Written(claims[r], ClaimOf(mine))[i] = ClaimOf(mine)
           \/ i \in DOMAIN claims[r] /\ Written(claims[r], ClaimOf(mine))[i] = claims[r][i]
  BY <1>2, <1>5, WritingAClaim
<1> QED
  BY <1>3, <1>6 DEF mine

LEMMA ClaimsStay == Recorded /\ [FrictionNext]_frictionVars => Claimed'
<1> SUFFICES ASSUME Recorded, [FrictionNext]_frictionVars, NEW r \in HeldRoles,
                    NEW i \in DOMAIN claims'[r]
             PROVE  /\ claims'[r][i].qualified
                    /\ claims'[r][i].proof \in [by: {"SCRIPT"}, at: Moments]
                    /\ claims'[r][i].proof.at <= lastStart'
                    /\ \A o \in Operators : scripts'[o] # Unsealed => claims'[r][i].proof.at # scripts'[o]
  BY Zenon DEF Claimed
<1> DEFINE Kept == /\ claims'[r][i].qualified
                   /\ claims'[r][i].proof \in [by: {"SCRIPT"}, at: Moments]
                   /\ claims'[r][i].proof.at <= lastStart'
                   /\ \A o \in Operators : scripts'[o] # Unsealed => claims'[r][i].proof.at # scripts'[o]
<1>1. \A k \in DOMAIN claims[r] :
         /\ claims[r][k].qualified
         /\ claims[r][k].proof \in [by: {"SCRIPT"}, at: Moments]
         /\ claims[r][k].proof.at <= lastStart /\ claims[r][k].proof.at \in Int
         /\ \A o \in Operators : scripts[o] # Unsealed => claims[r][k].proof.at # scripts[o]
  BY DEF Recorded, Claimed, Moments
<1>2. r # "SPREAD_DATASET" /\ r \in FrictionRoles /\ DOMAIN claims = FrictionRoles
  BY DEF HeldRoles, FrictionRoles, Recorded, FrictionTypeOK
<1>3. CASE \/ CaptureTicks \/ SampleTicks \/ AttestTicks \/ BreakCapture \/ PassReview
           \/ PassTime \/ UNCHANGED frictionVars
  BY <1>1, <1>3 DEF CaptureTicks, SampleTicks, AttestTicks, BreakCapture, PassReview, PassTime,
     frictionVars
<1>4. CASE ClaimTicks \/ OfferTicks
  <2>1. claims'[r] = claims[r] /\ UNCHANGED <<scripts, lastStart>>
    BY <1>2, <1>4 DEF ClaimTicks, OfferTicks
  <2> QED
    BY <1>1, <2>1
<1>5. ASSUME NEW o \in Operators, StartScript(o) PROVE Kept
  <2>1. /\ claims' = claims /\ lastStart' = moment /\ lastStart < moment
        /\ scripts' = [scripts EXCEPT ![o] = moment]
        /\ lastStart \in Int /\ moment \in Int /\ DOMAIN scripts = Operators
    BY <1>5 DEF StartScript, Recorded, FrictionTypeOK, Moments
  <2>2. claims[r][i].proof.at < moment
    BY <1>1, <2>1
  <2>3. \A q \in Operators : scripts'[q] # Unsealed => claims'[r][i].proof.at # scripts'[q]
    BY <1>1, <2>1, <2>2
  <2> QED
    BY <1>1, <2>1, <2>2, <2>3
<1>6. ASSUME NEW o \in Operators, SealModel(o) PROVE Kept
  <2> DEFINE mine == [by |-> "SCRIPT", at |-> scripts[o]]
  <2>1. /\ claims' = ClaimsOfRun(scripts[o]) /\ proofs # <<>> /\ scripts[o] # Unsealed
        /\ scripts' = [scripts EXCEPT ![o] = Unsealed] /\ lastStart' = lastStart
        /\ DOMAIN scripts = Operators
    BY <1>6 DEF SealModel, Recorded, FrictionTypeOK
  <2>2. scripts[o] \in Moments /\ scripts[o] <= lastStart
    BY <2>1 DEF Recorded, Clocked, FrictionTypeOK
  <2>3. claims'[r][i] = ClaimOf(mine) \/ (i \in DOMAIN claims[r] /\ claims'[r][i] = claims[r][i])
    BY <2>1, RunAddsItsClaim
  <2>4. CASE i \in DOMAIN claims[r] /\ claims'[r][i] = claims[r][i]
    BY <1>1, <2>1, <2>4
  <2>5. CASE claims'[r][i] = ClaimOf(mine)
    <3>1. ClaimOf(mine).qualified /\ ClaimOf(mine).proof = mine
      BY <2>2, ClaimsAreClaims DEF Attestation
    <3>2. \A q \in Operators : scripts'[q] # Unsealed => mine.at # scripts'[q]
      BY <2>1 DEF Recorded, Clocked
    <3>3. mine \in [by: {"SCRIPT"}, at: Moments]
      BY <2>2
    <3> QED
      BY <2>1, <2>2, <2>5, <3>1, <3>2, <3>3
  <2> QED
    BY <2>3, <2>4, <2>5
<1>7. ASSUME NEW o \in Operators, AbandonScript(o) PROVE Kept
  BY <1>1, <1>7 DEF AbandonScript, Recorded, FrictionTypeOK
<1>8. ASSUME NEW t \in Moments, Consult(t) PROVE Kept
  BY <1>1, <1>8 DEF Consult
<1> QED
  BY <1>3, <1>4, <1>5, <1>6, <1>7, <1>8 DEF FrictionNext


\* What every run does to the archive's claims.
LEMMA RunSignsTheArchive ==
    ASSUME FrictionTypeOK, proofs # <<>>, NEW start \in Moments
    PROVE  /\ ClaimsOfRun(start)["SPREAD_DATASET"]
                = Written(claims["SPREAD_DATASET"], ClaimOf(Resigned))
           /\ ClaimsOfRun(start)["SPREAD_DATASET"] # <<>>
  BY RunClaims DEF ClaimsOfRun, FrictionRoles

LEMMA BeforeSealingStays == Recorded /\ [FrictionNext]_frictionVars => BeforeSealing'
<1> SUFFICES ASSUME Recorded, [FrictionNext]_frictionVars PROVE BeforeSealing'
  OBVIOUS
<1> USE DEF BeforeSealing
<1>1. BeforeSealing /\ FrictionTypeOK
  BY DEF Recorded
<1>2. CASE \/ CaptureTicks \/ SampleTicks \/ BreakCapture \/ PassReview
           \/ PassTime \/ UNCHANGED frictionVars
  BY <1>1, <1>2 DEF CaptureTicks, SampleTicks, BreakCapture, PassReview, PassTime, frictionVars
<1>3. CASE AttestTicks
  <2>1. Captured \in Attestation
    BY <1>1, <1>3 DEF AttestTicks, FrictionTypeOK, Capture, Captured, Attestation
  <2>2. proofs' # <<>>
    BY <1>1, <1>3, <2>1, WritingAProof DEF AttestTicks, FrictionTypeOK
  <2> QED
    BY <1>1, <1>3, <2>2 DEF AttestTicks
<1>4. ASSUME ClaimTicks \/ OfferTicks PROVE BeforeSealing'
  <2>1. PICK row \in Claim :
          /\ claims' = [claims EXCEPT !["SPREAD_DATASET"] = Written(@, row)]
          /\ row.qualified => row.proof.by = "CAPTURE"
    <3>1. CASE ClaimTicks
      <4>1. Captured \in Attestation /\ Captured.by = "CAPTURE"
        BY <1>1, <3>1 DEF ClaimTicks, FrictionTypeOK, Capture, Captured, Attestation
      <4>2. ClaimOf(Captured) \in Claim /\ ClaimOf(Captured).proof = Captured
        BY <4>1, ClaimsAreClaims
      <4> QED
        BY <3>1, <4>1, <4>2 DEF ClaimTicks
    <3>2. CASE OfferTicks
      BY <1>1, <3>2, ClaimsAreClaims DEF OfferTicks
    <3> QED
      BY <1>4, <3>1, <3>2
  <2>2. UNCHANGED <<version, activations, proofs>>
    BY <1>4 DEF ClaimTicks, OfferTicks
  <2> DEFINE rows == Written(claims["SPREAD_DATASET"], row)
  <2>3. /\ claims'["SPREAD_DATASET"] = rows
        /\ \A r \in HeldRoles : claims'[r] = claims[r]
    BY <1>1, <2>1 DEF FrictionTypeOK, FrictionRoles, HeldRoles
  <2>4. claims["SPREAD_DATASET"] \in Seq(Claim)
    BY <1>1 DEF FrictionTypeOK, FrictionRoles
  <2>5. /\ rows # <<>>
        /\ \A i \in DOMAIN rows : \/ rows[i] = row
                                  \/ (i \in DOMAIN claims["SPREAD_DATASET"]
                                      /\ rows[i] = claims["SPREAD_DATASET"][i])
    BY <2>4, WritingAClaim
  <2> HIDE DEF rows
  <2> QED
    BY <1>1, <2>1, <2>2, <2>3, <2>5
<1>5. ASSUME NEW o \in Operators, SealModel(o) PROVE BeforeSealing'
  <2>1. /\ claims' = ClaimsOfRun(scripts[o]) /\ proofs \in Seq(Attestation) /\ proofs # <<>>
        /\ proofs' = Written(proofs, Resigned) /\ scripts[o] \in Moments
    BY <1>1, <1>5 DEF SealModel, FrictionTypeOK
  <2>2. claims'["SPREAD_DATASET"] # <<>> /\ proofs' # <<>>
    BY <1>1, <2>1, RunSignsTheArchive, SignedIsOne, WritingAProof
  <2>3. version' # Unsealed
    BY <1>1, <1>5, <2>1, SealedIsAVersion DEF SealModel
  <2> QED
    BY <2>2, <2>3
<1>6. ASSUME NEW o \in Operators, StartScript(o) \/ AbandonScript(o) PROVE BeforeSealing'
  BY <1>1, <1>6 DEF StartScript, AbandonScript
<1>7. ASSUME NEW t \in Moments, Consult(t) PROVE BeforeSealing'
  BY <1>1, <1>7 DEF Consult
<1> QED
  BY <1>2, <1>3, <1>4, <1>5, <1>6, <1>7 DEF FrictionNext


-----------------------------------------------------------------------------
(* The version's birth, and what came after.                               *)

\* Attestations agree on the moment of capture, so that a script signs what scripts before it did.
LEMMA SignaturesAgree ==
    ASSUME Recorded, NEW o \in Operators, SealModel(o)
    PROVE  Resigned' = Resigned
<1>1. /\ proofs \in Seq(Attestation) /\ proofs # <<>> /\ proofs' = Written(proofs, Resigned)
      /\ proofs' \in Seq(Attestation)
  BY TypesStay DEF SealModel, Recorded, FrictionTypeOK, FrictionNext
<1>2. Resigned \in Attestation /\ Resigned.at = Latest(proofs).at
  BY <1>1, SignedIsOne DEF Recorded, Resigned
<1>3. proofs' # <<>>
  BY <1>1, <1>2, WritingAProof
<1>4. Len(proofs') \in DOMAIN proofs' /\ Len(proofs) \in DOMAIN proofs
  BY <1>1, <1>3, LatestIsARow
<1>5. \/ proofs'[Len(proofs')] = Resigned
      \/ (Len(proofs') \in DOMAIN proofs /\ proofs'[Len(proofs')] = proofs[Len(proofs')])
  BY <1>1, <1>2, <1>4, WritingAProof
<1>6. Latest(proofs').at = Latest(proofs).at
  BY <1>2, <1>4, <1>5 DEF Latest, Recorded, CapturedOnce
<1> QED
  BY <1>6 DEF Resigned

\* An activation of a version that stands forbids a script to start.
LEMMA BornIsInForce ==
    ASSUME Recorded, NEW a \in activations, a.status = "ACTIVE"
    PROVE  Resolve(moment) = "MODEL"
<1>1. a.from \in Int /\ a.committed \in Int /\ moment \in Int
  BY DEF Recorded, FrictionTypeOK, Activation, Moments
<1>2. a.from <= a.committed /\ a.committed <= moment
  BY DEF Recorded, Clocked
<1>3. a.from <= moment
  BY <1>1, <1>2
<1> QED
  BY <1>3 DEF Resolve

\* A run that finds no version leaves an active one, if the review has passed.
LEMMA FirstRunActivates ==
    ASSUME Recorded, NEW o \in Operators, SealModel(o), version = Unsealed, review
    PROVE  \E a \in activations' : Birth(a)'
<1>0. PICK start \in Moments, now \in Moments : start = scripts[o] /\ now = moment
  BY DEF SealModel, Recorded, FrictionTypeOK
<1> DEFINE rows == ClaimsOfRun(start)
           born == [status |-> "ACTIVE", from |-> start, committed |-> now]
<1>1. /\ proofs # <<>> /\ claims' = rows /\ version' = Bound(rows)
      /\ activations' = Activated(start, IF Valid(Bound(rows), rows) THEN "ACTIVE" ELSE "DRAFT")
      /\ scripts' = [scripts EXCEPT ![o] = Unsealed] /\ moment' = moment
  BY <1>0 DEF SealModel
<1>2. rows \in [FrictionRoles -> Seq(Claim)] /\ \A r \in FrictionRoles : Signed(r, start) \in Attestation
  BY <1>1, RunClaims DEF Recorded
<1>3. ASSUME NEW r \in FrictionRoles PROVE rows[r] # <<>> /\ Latest(rows[r]) = ClaimOf(Signed(r, start))
  <2>1. claims[r] \in Seq(Claim) /\ ClaimOf(Signed(r, start)) \in Claim
        /\ ClaimOf(Signed(r, start)).qualified /\ ClaimOf(Signed(r, start)).proof = Signed(r, start)
    BY <1>2, ClaimsAreClaims DEF Recorded, FrictionTypeOK
  <2>2. \A i \in DOMAIN claims[r] : claims[r][i] # ClaimOf(Signed(r, start))
    <3>1. CASE r \in HeldRoles
      BY <3>1 DEF Recorded, BeforeSealing
    <3>2. CASE r = "SPREAD_DATASET"
      <4>1. Signed(r, start).by = "SCRIPT"
        BY <3>2 DEF Signed, Resigned
      <4> QED
        BY <2>1, <3>2, <4>1 DEF Recorded, BeforeSealing
    <3> QED
      BY <3>1, <3>2 DEF FrictionRoles
  <2>3. rows[r] = Written(claims[r], ClaimOf(Signed(r, start)))
    BY <1>1, RunClaims DEF Recorded
  <2> QED
    BY <2>1, <2>2, <2>3, WritingAClaim
<1> HIDE DEF rows
<1>4. ASSUME NEW r \in FrictionRoles
      PROVE  /\ Qualified(rows[r])
             /\ Latest(rows[r]).proof = Signed(r, start)
             /\ QualifiedProof(rows[r]) = Signed(r, start)
  <2>1. ClaimOf(Signed(r, start)).qualified /\ ClaimOf(Signed(r, start)).proof = Signed(r, start)
    BY <1>2, ClaimsAreClaims
  <2>2. Qualified(rows[r]) /\ Latest(rows[r]).proof = Signed(r, start)
    BY <1>3, <2>1 DEF Qualified
  <2> QED
    BY <1>2, <2>2, LatestIsRead
<1>5. Bound(rows) = [fingerprint |-> [r \in FrictionRoles |-> Signed(r, start)], reviewed |-> TRUE]
  <2>1. review = TRUE
    BY DEF Recorded, FrictionTypeOK
  <2>2. [r \in FrictionRoles |-> Latest(rows[r]).proof] = [r \in FrictionRoles |-> Signed(r, start)]
    BY <1>4
  <2> QED
    BY <2>1, <2>2 DEF Bound
<1>6. Valid(Bound(rows), rows)
  <2>1. [r \in FrictionRoles |-> QualifiedProof(rows[r])] = [r \in FrictionRoles |-> Signed(r, start)]
    BY <1>4
  <2>2. Bound(rows).fingerprint = [r \in FrictionRoles |-> QualifiedProof(rows[r])]
    BY <1>5, <2>1
  <2>3. /\ Qualified(rows["LEGAL_ENTITY"]) /\ Qualified(rows["CONTRACT_SPEC"])
        /\ Qualified(rows["COMMISSION"]) /\ Qualified(rows["FINANCING"])
        /\ Qualified(rows["SLIPPAGE_DATASET"]) /\ Qualified(rows["SPREAD_DATASET"])
    BY <1>4 DEF FrictionRoles, HeldRoles
  <2> QED
    BY <2>2, <2>3 DEF Valid, LegalStands, TermsStand, SpreadStands, SlippageStands
<1>7. activations' = {born}
  BY <1>0, <1>1, <1>6 DEF Activated, Recorded, BeforeSealing, rows
<1>8. \A q \in Operators : scripts'[q] # Unsealed => scripts'[q] # start /\ scripts'[q] <= now
  <2>1. ASSUME NEW q \in Operators, scripts'[q] # Unsealed
        PROVE  scripts'[q] # start /\ scripts'[q] <= now
    <3>1. q # o /\ scripts'[q] = scripts[q]
      BY <1>1, <2>1 DEF Recorded, FrictionTypeOK
    <3>2. scripts[q] <= lastStart /\ lastStart <= moment /\ scripts[q] # scripts[o]
      BY <2>1, <3>1 DEF Recorded, Clocked
    <3>3. scripts[q] \in Int /\ lastStart \in Int /\ moment \in Int
      BY <2>1, <3>1 DEF Recorded, FrictionTypeOK, Moments
    <3> QED
      BY <1>0, <3>1, <3>2, <3>3
  <2> QED
    BY <2>1
<1>9. Resigned' = Resigned
  BY SignaturesAgree
<1>10. Birth(born)'
  <2>1. version'.fingerprint = [r \in FrictionRoles |-> Signed(r, start)]
    BY <1>1, <1>5 DEF rows
  <2>2. \A r \in FrictionRoles : Signed(r, born.from)' = Signed(r, start)
    BY <1>9 DEF Signed
  <2>3. Fresh(born)'
    <3>1. \A r \in HeldRoles : r \in FrictionRoles
      BY DEF FrictionRoles
    <3>2. claims' = rows
      BY <1>1 DEF rows
    <3> QED
      BY <1>3, <2>2, <3>1, <3>2 DEF Fresh
  <2> QED
    BY <1>8, <2>1, <2>2, <2>3 DEF Birth
<1> QED
  BY <1>7, <1>10


\* A run that had started before the activation was committed leaves a late claim behind.
LEMMA LaterRunIsLate ==
    ASSUME Recorded, NEW o \in Operators, SealModel(o), version # Unsealed,
           NEW a \in activations, Birth(a)
    PROVE  a \in activations' /\ Birth(a)'
<1>1. /\ proofs # <<>> /\ scripts[o] # Unsealed /\ scripts[o] \in Moments
      /\ claims' = ClaimsOfRun(scripts[o]) /\ version' = Bound(ClaimsOfRun(scripts[o]))
      /\ scripts' = [scripts EXCEPT ![o] = Unsealed]
  BY DEF SealModel, Recorded, FrictionTypeOK
<1>2. version' = version
  BY <1>1 DEF Bound
<1>3. a \in activations'
  BY Zenon DEF SealModel, Activated
<1>4. Resigned' = Resigned
  BY SignaturesAgree
<1>5. \A r \in FrictionRoles : Signed(r, a.from)' = Signed(r, a.from)
  BY <1>4 DEF Signed
<1>6. \A q \in Operators : scripts'[q] # Unsealed => scripts'[q] # a.from /\ scripts'[q] <= a.committed
  BY <1>1 DEF Birth, Recorded, FrictionTypeOK
<1>7. Late(a)'
  <2> DEFINE mine == [by |-> "SCRIPT", at |-> scripts[o]]
  <2>1. "LEGAL_ENTITY" \in HeldRoles /\ "LEGAL_ENTITY" \in FrictionRoles
    BY DEF HeldRoles, FrictionRoles
  <2>2. claims'["LEGAL_ENTITY"] # <<>>
    BY <1>1, <2>1, RunClaims DEF Recorded
  <2>3. Latest(claims'["LEGAL_ENTITY"]) = ClaimOf(mine)
    BY <1>1, <2>1, RunAddsItsClaim
  <2>4. ClaimOf(mine).proof = mine
    BY <1>1, ClaimsAreClaims DEF Attestation
  <2>5. scripts[o] # a.from /\ scripts[o] <= a.committed
    BY <1>1 DEF Birth
  <2> QED
    BY <2>2, <2>3, <2>4, <2>5 DEF Late
<1> QED
  BY <1>2, <1>3, <1>5, <1>6, <1>7 DEF Birth

\* Steps that leave the held roles, the archive's attestations and the activations alone.
LEMMA BirthStays ==
    ASSUME NEW a, Birth(a), UNCHANGED <<version, proofs>>,
           \A r \in HeldRoles : claims'[r] = claims[r],
           \A q \in Operators : scripts'[q] # Unsealed => scripts'[q] = scripts[q]
    PROVE  Birth(a)'
<1>1. Resigned' = Resigned
  BY DEF Resigned, Latest
<1>2. \A r \in FrictionRoles : Signed(r, a.from)' = Signed(r, a.from)
  BY <1>1 DEF Signed
<1>3. \A r \in HeldRoles : r \in FrictionRoles
  BY DEF FrictionRoles
<1>4. Fresh(a) => Fresh(a)'
  BY <1>2, <1>3 DEF Fresh
<1>5. Late(a) => Late(a)'
  BY DEF Late, HeldRoles
<1> QED
  BY <1>2, <1>4, <1>5 DEF Birth

LEMMA BornStays == Recorded /\ [FrictionNext]_frictionVars => Born'
<1> SUFFICES ASSUME Recorded, [FrictionNext]_frictionVars, version' # Unsealed, version'.reviewed
             PROVE  review' /\ \E a \in activations' : Birth(a)'
  BY DEF Born
<1>1. /\ FrictionTypeOK /\ DOMAIN claims = FrictionRoles /\ DOMAIN scripts = Operators
      /\ "SPREAD_DATASET" \notin HeldRoles
  BY DEF Recorded, FrictionTypeOK, HeldRoles
<1>2. version = version' => review /\ \E a \in activations : Birth(a)
  BY DEF Recorded, Born
<1>3. ASSUME UNCHANGED <<version, proofs, activations>>,
             (review' = review) \/ review',
             \A r \in HeldRoles : claims'[r] = claims[r],
             \A q \in Operators : scripts'[q] # Unsealed => scripts'[q] = scripts[q]
      PROVE  review' /\ \E a \in activations' : Birth(a)'
  <2>1. review
    BY <1>2, <1>3
  <2>2. PICK a \in activations : Birth(a)
    BY <1>2, <1>3
  <2>3. Birth(a)'
    BY <1>3, <2>2, BirthStays
  <2> QED
    BY <1>3, <2>1, <2>2, <2>3
<1>4. CASE \/ CaptureTicks \/ SampleTicks \/ BreakCapture \/ PassReview
           \/ PassTime \/ UNCHANGED frictionVars
  <2>1. UNCHANGED <<version, proofs, activations, claims, scripts>> /\ ((review' = review) \/ review')
    BY <1>4 DEF CaptureTicks, SampleTicks, BreakCapture, PassReview, PassTime, frictionVars
  <2> QED
    BY <1>3, <2>1
<1>5. CASE ClaimTicks \/ OfferTicks
  <2>1. UNCHANGED <<version, proofs, activations, scripts, review>>
    BY <1>5 DEF ClaimTicks, OfferTicks
  <2>2. ASSUME NEW r \in HeldRoles PROVE claims'[r] = claims[r]
    BY <1>1, <1>5 DEF ClaimTicks, OfferTicks, FrictionRoles
  <2> QED
    BY <1>3, <2>1, <2>2
<1>6. CASE AttestTicks
  <2>1. proofs = <<>>
    BY <1>6 DEF AttestTicks, Recorded, CapturedOnce
  <2>2. version = Unsealed
    BY <2>1 DEF Recorded, BeforeSealing
  <2> QED
    BY <1>6, <2>2 DEF AttestTicks
<1>7. ASSUME NEW o \in Operators, StartScript(o) PROVE FALSE
  <2>1. version' = version /\ Resolve(moment) = "NOTHING"
    BY <1>7 DEF StartScript
  <2>2. PICK a \in activations : Birth(a)
    BY <1>2, <2>1
  <2> QED
    BY <2>1, <2>2, BornIsInForce DEF Birth
<1>8. ASSUME NEW o \in Operators, SealModel(o) PROVE review' /\ \E a \in activations' : Birth(a)'
  <2>1. version' = Bound(ClaimsOfRun(scripts[o])) /\ review' = review
    BY <1>8 DEF SealModel
  <2>2. CASE version = Unsealed
    <3>1. version'.reviewed = review
      BY <2>1, <2>2 DEF Bound
    <3> QED
      BY <1>8, <2>1, <2>2, <3>1, FirstRunActivates
  <2>3. CASE version # Unsealed
    <3>1. version' = version
      BY <2>1, <2>3 DEF Bound
    <3>2. PICK a \in activations : Birth(a)
      BY <1>2, <3>1
    <3> QED
      BY <1>2, <1>8, <2>1, <2>3, <3>1, <3>2, LaterRunIsLate
  <2> QED
    BY <2>2, <2>3
<1>9. ASSUME NEW o \in Operators, AbandonScript(o) PROVE review' /\ \E a \in activations' : Birth(a)'
  BY <1>1, <1>3, <1>9 DEF AbandonScript
<1>10. ASSUME NEW t \in Moments, Consult(t) PROVE review' /\ \E a \in activations' : Birth(a)'
  BY <1>3, <1>10 DEF Consult
<1> QED
  BY <1>4, <1>5, <1>6, <1>7, <1>8, <1>9, <1>10 DEF FrictionNext

LEMMA AlwaysRecorded == FrictionSpec => []Recorded
<1>1. Recorded /\ [FrictionNext]_frictionVars => Recorded'
  BY TypesStay, ClocksStay, CaptureStays, ClaimsStay, BeforeSealingStays, BornStays DEF Recorded
<1> QED
  BY <1>1, RecordedAtStart, PTL DEF FrictionSpec

-----------------------------------------------------------------------------
(* What it is for.                                                         *)

LEMMA AnswersStandStays == Recorded /\ AnswersStand /\ [FrictionNext]_frictionVars => AnswersStand'
<1> SUFFICES ASSUME Recorded, AnswersStand, [FrictionNext]_frictionVars PROVE AnswersStand'
  OBVIOUS
<1>1. FrictionTypeOK
  BY DEF Recorded
<1>2. ASSUME UNCHANGED <<told, activations>> PROVE AnswersStand'
  BY <1>2 DEF AnswersStand, Resolve
<1>3. CASE \/ CaptureTicks \/ SampleTicks \/ AttestTicks \/ ClaimTicks \/ BreakCapture
           \/ OfferTicks \/ PassReview \/ PassTime \/ UNCHANGED frictionVars
  BY <1>2, <1>3 DEF CaptureTicks, SampleTicks, AttestTicks, ClaimTicks, BreakCapture, OfferTicks,
     PassReview, PassTime, frictionVars
<1>4. ASSUME NEW o \in Operators, StartScript(o) \/ AbandonScript(o) PROVE AnswersStand'
  BY <1>2, <1>4 DEF StartScript, AbandonScript
<1>5. ASSUME NEW o \in Operators, SealModel(o) PROVE AnswersStand'
  <2>1. PICK status : activations' = Activated(scripts[o], status)
    BY <1>5, Zenon DEF SealModel
  <2>2. told' = told /\ moment' = moment
    BY <1>5 DEF SealModel
  <2> SUFFICES ASSUME NEW t \in Moments
               PROVE  \/ told[t] \in {"UNASKED", Resolve(t)'}
                      \/ \E a \in activations' : a.status = "ACTIVE" /\ a.from <= t /\ t <= a.committed
    BY <2>2 DEF AnswersStand
  <2>3. activations \subseteq activations'
    BY <2>1 DEF Activated
  <2>4. \/ told[t] \in {"UNASKED", Resolve(t)}
        \/ \E a \in activations : a.status = "ACTIVE" /\ a.from <= t /\ t <= a.committed
    BY DEF AnswersStand
  <2>5. CASE told[t] = "UNASKED" \/ Resolve(t)' = Resolve(t)
    BY <2>3, <2>4, <2>5
  <2>6. CASE told[t] # "UNASKED" /\ Resolve(t)' # Resolve(t)
    <3>1. PICK a \in activations' : a \notin activations /\ a.status = "ACTIVE" /\ a.from <= t
      BY <2>3, <2>6 DEF Resolve
    <3>2. a.committed = moment
      BY <2>1, <3>1 DEF Activated
    <3>3. t <= moment
      BY <2>6 DEF Recorded, Clocked
    <3> QED
      BY <3>1, <3>2, <3>3
  <2> QED
    BY <2>5, <2>6
<1>6. ASSUME NEW t \in Moments, Consult(t) PROVE AnswersStand'
  <2>1. told' = [told EXCEPT ![t] = Resolve(t)] /\ activations' = activations
    BY <1>6 DEF Consult
  <2>2. \A s \in Moments : Resolve(s)' = Resolve(s)
    BY <2>1 DEF Resolve
  <2> QED
    BY <1>1, <2>1, <2>2 DEF AnswersStand, FrictionTypeOK
<1> QED
  BY <1>3, <1>4, <1>5, <1>6 DEF FrictionNext

\* Whatever scripts and captures interleave, a past answer changes only inside the window between
\* an activation's start and its commit.
THEOREM AnswersStandAlways == FrictionSpec => []AnswersStand
<1>1. FrictionInit => AnswersStand
  BY DEF FrictionInit, AnswersStand
<1> QED
  BY <1>1, AlwaysRecorded, AnswersStandStays, PTL DEF FrictionSpec

\* Whatever the operators do, a version the gate does not pass has a reason in its history.
THEOREM CausesAreKnown == FrictionSpec => []UnconfiguredHasCause
<1>1. ASSUME Recorded PROVE UnconfiguredHasCause
  <2> SUFFICES ASSUME version # Unsealed, version.reviewed,
                      Latest(claims["SPREAD_DATASET"]) = ClaimOf(Resigned),
                      \A a \in activations : a.status = "ACTIVE" =>
                         LET late == Latest(claims["LEGAL_ENTITY"]).proof
                         IN  ~(late.at # a.from /\ late.at <= a.committed)
               PROVE  Configured
    BY <1>1, Zenon DEF UnconfiguredHasCause
  <2>1. PICK a \in activations : Birth(a)
    BY <1>1 DEF Recorded, Born
  <2>2. review /\ Fresh(a)
    BY <1>1, <2>1 DEF Recorded, Born, Birth, Late
  <2>3. /\ a.from \in Moments /\ proofs # <<>> /\ claims["SPREAD_DATASET"] # <<>>
        /\ FrictionTypeOK
    BY <1>1, <2>1 DEF Recorded, FrictionTypeOK, Activation, BeforeSealing
  <2>4. ASSUME NEW r \in FrictionRoles
        PROVE  Qualified(claims[r]) /\ QualifiedProof(claims[r]) = Signed(r, a.from)
    <3>1. claims[r] # <<>> /\ Latest(claims[r]) = ClaimOf(Signed(r, a.from))
      BY <2>2, <2>3 DEF Fresh, Signed, FrictionRoles
    <3>2. Signed(r, a.from) \in Attestation
      BY <2>3, RunClaims
    <3>3. Qualified(claims[r]) /\ Latest(claims[r]).proof = Signed(r, a.from)
      BY <3>1, <3>2, ClaimsAreClaims DEF Qualified
    <3> QED
      BY <2>3, <3>3, LatestIsRead DEF FrictionTypeOK
  <2>5. version.fingerprint = [r \in FrictionRoles |-> QualifiedProof(claims[r])]
    BY <2>1, <2>4 DEF Birth
  <2>6. /\ Qualified(claims["LEGAL_ENTITY"]) /\ Qualified(claims["CONTRACT_SPEC"])
        /\ Qualified(claims["COMMISSION"]) /\ Qualified(claims["FINANCING"])
        /\ Qualified(claims["SLIPPAGE_DATASET"]) /\ Qualified(claims["SPREAD_DATASET"])
    BY <2>4 DEF FrictionRoles, HeldRoles
  <2>7. Resolve(moment) = "MODEL"
    BY <1>1, <2>1, BornIsInForce DEF Birth
  <2> QED
    BY <2>2, <2>5, <2>6, <2>7
       DEF Configured, Valid, LegalStands, TermsStand, SpreadStands, SlippageStands
<1> QED
  BY <1>1, AlwaysRecorded, PTL
=============================================================================
