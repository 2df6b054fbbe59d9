--------------------------- MODULE DecisionLedger ---------------------------
(***************************************************************************)
(* What the decision path promises its readers, without tasks, queues or   *)
(* workers: decisions and plans are written once and kept, the monitor     *)
(* shows only what was written, an alert is raised only for a decision     *)
(* that can back it, and is handed to the transport once at most.          *)
(***************************************************************************)
CONSTANTS
    Decisions,   \* every decision that could be made
    Actionable,  \* those that need a risk plan
    Silent,      \* those that raise no alert
    None         \* nothing shown yet

VARIABLES
    recorded,   \* decisions written
    planned,    \* decisions whose plan is written
    shown,      \* the decision on display
    shownPlan,  \* the decision whose plan is on display
    announced,  \* decisions that raised an alert
    told        \* alerts handed to the transport

ledgerVars == <<recorded, planned, shown, shownPlan, announced, told>>

LedgerInit ==
    /\ recorded = {}
    /\ planned = {}
    /\ shown = None
    /\ shownPlan = None
    /\ announced = {}
    /\ told = {}

Record(d) ==
    /\ d \notin recorded
    /\ recorded' = recorded \cup {d}
    /\ UNCHANGED <<planned, shown, shownPlan, announced, told>>

Plan(d) ==
    /\ d \in (recorded \cap Actionable) \ planned
    /\ planned' = planned \cup {d}
    /\ UNCHANGED <<recorded, shown, shownPlan, announced, told>>

\* A decision is put on display with its plan, and may raise its alert.
Decide(d) ==
    /\ d \in recorded
    /\ d \in Actionable => d \in planned
    /\ shown' = d
    /\ shownPlan' = IF d \in Actionable THEN d ELSE None
    /\ \/ UNCHANGED announced
       \/ /\ d \notin announced \cup Silent
          /\ announced' = announced \cup {d}
    /\ UNCHANGED <<recorded, planned, told>>

\* The display is rebuilt from the records: some recorded decision, with its plan
\* if it had one, or no plan.
Rebuild ==
    /\ shown' \in recorded \cup {shown}
    /\ shownPlan' \in {None} \cup ({shown'} \cap planned)
    /\ UNCHANGED <<recorded, planned, announced, told>>

Tell(d) ==
    /\ d \in announced \ told
    /\ told' = told \cup {d}
    /\ UNCHANGED <<recorded, planned, shown, shownPlan, announced>>

LedgerNext ==
    \/ \E d \in Decisions : Record(d) \/ Plan(d) \/ Decide(d) \/ Tell(d)
    \/ Rebuild

LedgerSpec == LedgerInit /\ [][LedgerNext]_ledgerVars
=============================================================================
