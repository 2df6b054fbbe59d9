-------------------------- MODULE MCDecisionGates --------------------------
(***************************************************************************)
(* What stands before a decision and what watches over it afterwards, in   *)
(* one run: the cycle snapshot and the continuity gate.  They share no     *)
(* state in their modules; a behaviour is one part's, chosen at the start, *)
(* and the other part stays in an initial state.  Tasks and Deciders are   *)
(* the same worker processes, and MCGateSymmetry permutes them in both.    *)
(***************************************************************************)
EXTENDS MCPhase8Gate, MCCycleSnapshot

VARIABLE part

\* A step of part p leaves the other part as it is.
Stepping(p) ==
    /\ part = p
    /\ UNCHANGED part
    /\ p # "continuity gate" => UNCHANGED gateVars
    /\ p # "cycle snapshot" => UNCHANGED snapshotVars

Watching  == Stepping("continuity gate")
Analysing == Stepping("cycle snapshot")

GatesInit ==
    /\ part \in {"continuity gate", "cycle snapshot"}
    /\ GateInit
    /\ SnapshotInit
    /\ part # "cycle snapshot" => artifact = MCChampion

\* No process is killed here; MCDecisionEvidence has the kills.
GatesNext ==
    \/ Watching /\ Tick
    \/ \E c \in Slots : Watching /\ StoreCandle(c)
    \/ \E t \in Tasks, s \in Signals : Watching /\ BeginObservation(t, s)
    \/ \E t \in Tasks : Watching /\ BeginEmptyCycle(t)
    \/ \E t \in Tasks : Watching /\ EndTask(t)
    \/ Watching /\ AuditStep
    \/ \E d \in Deciders, c \in Closes : Analysing /\ LookUp(d, c)
    \/ \E d \in Deciders, stores \in BOOLEAN : Analysing /\ Analyse(d, stores)
    \/ \E d \in Deciders : Analysing /\ Decide(d)
    \/ \E d \in Deciders : Analysing /\ LoseDecision(d)
    \/ \E v \in Vintages : Analysing /\ ListEvent(v)
    \/ \E a \in Artifacts : Analysing /\ Configure(a)

GatesSpec == GatesInit /\ [][GatesNext]_<<part, gateVars, snapshotVars>>
=============================================================================
