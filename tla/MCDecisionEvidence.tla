------------------------- MODULE MCDecisionEvidence -------------------------
(***************************************************************************)
(* A decision, its observation and the friction model it is observed with, *)
(* in one run: the decision pipeline, the continuity gate and the friction *)
(* ledger.  They share no state in their modules; a behaviour is one       *)
(* part's, chosen at the start, and the other parts stay in an initial     *)
(* state.                                                                  *)
(***************************************************************************)
EXTENDS MCDecisionPipeline, FrictionLedger, Phase8Gate

VARIABLE part

Parts == {"decision pipeline", "continuity gate", "friction ledger"}

\* A step of part p leaves every other part as it is.
Stepping(p) ==
    /\ part = p
    /\ UNCHANGED part
    /\ p # "decision pipeline" => UNCHANGED vars
    /\ p # "continuity gate" => UNCHANGED gateVars
    /\ p # "friction ledger" => UNCHANGED frictionVars

Deciding == Stepping("decision pipeline")
Watching == Stepping("continuity gate")
Proving  == Stepping("friction ledger")

EvidenceInit ==
    /\ part \in Parts
    /\ Init
    /\ GateInit
    /\ FrictionInit
    /\ part # "friction ledger" => ~review

\* The instance has no late row and no catch-up.
EvidenceNext ==
    \/ \E c \in Candles : Deciding /\ IngestCandle(c)
    \/ \E c \in Candles : Deciding /\ IngestWithoutDispatch(c)
    \/ \E c \in Candles : Deciding /\ BackfillCandle(c)
    \/ \E w \in Workers : Deciding /\ WorkerStep(w)
    \/ \E w \in Workers : Deciding /\ WorkerFault(w)
    \/ Deciding /\ ReconstructRead
    \/ Deciding /\ ReconstructWrite
    \/ \E f \in Fingerprints : Deciding /\ (Observe(f) \/ LoseObservation(f))
    \/ Watching /\ Tick
    \/ \E c \in Slots : Watching /\ StoreCandle(c)
    \/ \E t \in Tasks, s \in Signals : Watching /\ BeginObservation(t, s)
    \/ \E t \in Tasks : Watching /\ BeginEmptyCycle(t)
    \/ \E t \in Tasks : Watching /\ EndTask(t)
    \/ \E t \in Tasks : Watching /\ TaskKilled(t)
    \/ Watching /\ AuditStep
    \/ Watching /\ AuditKilled
    \/ Proving /\ CaptureTicks
    \/ Proving /\ SampleTicks
    \/ Proving /\ AttestTicks
    \/ Proving /\ ClaimTicks
    \/ Proving /\ BreakCapture
    \/ Proving /\ OfferTicks
    \/ Proving /\ PassReview
    \/ \E o \in Operators : Proving /\ StartScript(o)
    \/ \E o \in Operators : Proving /\ SealModel(o)
    \/ \E o \in Operators : Proving /\ AbandonScript(o)
    \/ \E t \in Moments : Proving /\ Consult(t)
    \/ Proving /\ PassTime

\* Each part's own fairness, Fairness and GateFairness, of its steps in this run; a step of
\* one part is not enabled in a behaviour of another.  The friction ledger may stop anywhere.
everything == <<part, vars, gateVars, frictionVars>>

EvidenceSpec ==
    /\ EvidenceInit
    /\ [][EvidenceNext]_everything
    /\ \A w \in Workers : WF_everything(Deciding /\ WorkerStep(w))
    /\ \A f \in Fingerprints : WF_everything(Deciding /\ (Observe(f) \/ LoseObservation(f)))
    /\ WF_everything(Watching /\ Tick)
    /\ WF_everything(Watching /\ AuditStep)
    /\ \A t \in Tasks : WF_everything(Watching /\ EndTask(t))
=============================================================================
