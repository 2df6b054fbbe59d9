----------------------- MODULE DataOperations_proofs ------------------------
(***************************************************************************)
(* Theorems about the operations on the market data and what is run on it. *)
(* CandleDispatch: its types, the bound on the daily credits although the  *)
(* cap is checked and counted in separate cache calls, and the coverage of *)
(* the recovery batches.  BacktestRuns: the rows of completed runs.        *)
(* CandleHistory: the credits of a backfill, and the windows it completes. *)
(* ReadinessAudit: what a manifest counts, and what one that calls the     *)
(* candles ready stands on.                                                *)
(***************************************************************************)
EXTENDS CandleHistory, ReadinessAudit, CandleDispatch, BacktestRuns, FiniteSetTheorems, TLAPS

-----------------------------------------------------------------------------
(* Types, and where the batch of a task lies.                              *)

LEMMA IdleType == Idle \in Task /\ BatchInPlace(Idle) /\ Idle.kind = "none" /\ Idle.pc = "idle"
  BY TimeAssumption DEF Idle, Start, Task, Pcs, BatchInPlace, Times

LEMMA NewLedgerType == NewLedger \in Ledger
  BY DEF NewLedger, Ledger

LEMMA BatchEndType ==
    ASSUME NEW t \in Task, BatchInPlace(t), t.kind = "candle", t.pc # "plan"
    PROVE  /\ BatchEnd(t) \in Slots
           /\ t.from < BatchEnd(t)
           /\ BatchEnd(t) <= t.target
  BY TimeAssumption DEF BatchEnd, BatchInPlace, Task, Slots, Times

\* A process takes a new task, or moves on within its batch.
LEMMA NewTask ==
    ASSUME TasksOK, NEW p \in Procs, NEW t \in Task, BatchInPlace(t),
           task' = [task EXCEPT ![p] = t]
    PROVE  TasksOK'
<1>1. task' \in [Procs -> Task]
  BY DEF TasksOK
<1>2. ASSUME NEW q \in Procs
      PROVE  BatchInPlace(task'[q])
  BY DEF TasksOK
<1> QED
  BY <1>1, <1>2 DEF TasksOK

LEMMA SameTasks == ASSUME TasksOK, UNCHANGED task PROVE TasksOK'
  BY DEF TasksOK

LEMMA MoveOn ==
    ASSUME TasksOK, NEW p \in Procs, task[p].pc # "plan",
           NEW pc \in Pcs \ {"plan"}, NEW retrying \in BOOLEAN, NEW empty \in BOOLEAN,
           task[p].kind = "candle" \/ pc \in {"set", "request"},
           task' = [task EXCEPT ![p].pc = pc, ![p].retrying = retrying, ![p].empty = empty]
    PROVE  TasksOK'
<1> DEFINE t == [task[p] EXCEPT !.pc = pc, !.retrying = retrying, !.empty = empty]
<1>1. t \in Task /\ BatchInPlace(t)
  BY DEF TasksOK, Task, BatchInPlace
<1>2. task' = [task EXCEPT ![p] = t]
  BY DEF TasksOK, Task
<1> QED
  BY <1>1, <1>2, NewTask

LEMMA GotoMovesOn ==
    ASSUME TasksOK, NEW p \in Procs, task[p].pc # "plan", NEW pc \in Pcs \ {"plan"},
           task[p].kind = "candle" \/ pc \in {"set", "request"},
           Goto(p, pc)
    PROVE  TasksOK'
<1>1. task[p] \in Task
  BY DEF TasksOK
<1>2. task' = [task EXCEPT ![p].pc = pc, ![p].retrying = task[p].retrying,
                           ![p].empty = task[p].empty]
  BY <1>1 DEF TasksOK, Task, Goto
<1>3. task[p].retrying \in BOOLEAN /\ task[p].empty \in BOOLEAN
  BY <1>1 DEF Task
<1> QED
  BY <1>2, <1>3, MoveOn

LEMMA TypedInit == Init => TypeOK
<1> SUFFICES ASSUME Init
             PROVE  TypeOK
  OBVIOUS
<1>1. TasksOK
  BY IdleType DEF Init, TasksOK
<1>2. LedgerOK
  BY NewLedgerType DEF Init, LedgerOK, Counter, Unknown
<1>3. TableOK
  <2>1. 0 \in Times
    BY TimeAssumption DEF Times
  <2> QED
    BY <2>1 DEF Init, TableOK
<1> QED
  BY <1>1, <1>2, <1>3 DEF Init, TypeOK

\* What an answer brings are candles of the open market.
LEMMA ReceiveType ==
    ASSUME TableOK, faults \in Nat, NEW p \in Procs,
           NEW answer \in SUBSET Answerable(task[p]), Receive(p, answer),
           Fault \/ UNCHANGED faults, UNCHANGED <<now, skipped>>
    PROVE  TableOK' /\ faults' \in Nat
<1>1. Batch(task[p]) \subseteq Slots \ Closed /\ Answerable(task[p]) \subseteq Slots \ Closed
  BY DEF Batch, Answerable
<1> QED
  BY <1>1 DEF Receive, Fault, TableOK

LEMMA TypedStep == TypeOK /\ [Next]_vars => TypeOK'
<1> SUFFICES ASSUME TypeOK, [Next]_vars
             PROVE  TypeOK'
  OBVIOUS
<1> USE DEF ledger, history
<1>0. TableOK /\ LedgerOK /\ TasksOK /\ sent \in Nat /\ faults \in Nat
  BY DEF TypeOK
<1>1. CASE Tick
  <2>1. now' \in Times
    BY <1>0, <1>1, TimeAssumption DEF Tick, TableOK, Times
  <2> QED
    BY <1>0, <1>1, <2>1, SameTasks DEF Tick, TypeOK, TableOK, LedgerOK
<1>2. ASSUME NEW p \in Procs, Evaluate(p)
      PROVE  TypeOK'
  <2>1. LedgerOK'
    BY <1>0, <1>2 DEF Evaluate, ForgetExpired, LedgerOK, Ledger
  <2>2. TableOK' /\ sent' \in Nat /\ faults' \in Nat
    BY <1>0, <1>2 DEF Evaluate, TableOK
  <2>3. TasksOK'
    <3>1. CASE ~CircuitOpen(p, now) /\ Due(p, now)
      <4> DEFINE t == Start("plan", "candle", now)
      <4>1. now \in Slots /\ now \in Times
        BY <1>0, <3>1 DEF Due, TableOK, Slots, Times
      <4>2. t \in Task /\ BatchInPlace(t)
        BY <4>1 DEF Start, Task, Pcs, BatchInPlace
      <4> HIDE DEF t
      <4>3. task' = [task EXCEPT ![p] = t]
        BY <1>2, <3>1 DEF Evaluate, t
      <4> QED
        BY <1>0, <4>2, <4>3, NewTask
    <3>2. CASE ~(~CircuitOpen(p, now) /\ Due(p, now))
      BY <1>0, <1>2, <3>2, SameTasks DEF Evaluate
    <3> QED
      BY <3>1, <3>2
  <2> QED
    BY <2>1, <2>2, <2>3 DEF TypeOK
<1>3. ASSUME NEW p \in Procs, Plan(p)
      PROVE  TypeOK'
  <2>1. LedgerOK' /\ sent' \in Nat /\ faults' \in Nat
    BY <1>0, <1>3 DEF Plan, LedgerOK
  <2>2. TableOK'
    BY <1>0, <1>3 DEF Plan, TableOK
  <2>3. TasksOK'
    <3>1. PICK latest \in Times :
            LET target == task[p].target
                plan == RecoveryPlan(latest, target)
            IN  task' = IF target <= latest
                        THEN [task EXCEPT ![p] = Idle]
                        ELSE [task EXCEPT ![p].pc = "check", ![p].from = plan.from,
                                          ![p].step = plan.step]
      BY <1>3 DEF Plan
    <3>2. CASE task[p].target <= latest
      BY <1>0, <3>1, <3>2, IdleType, NewTask
    <3>3. CASE ~(task[p].target <= latest)
      <4> DEFINE plan == RecoveryPlan(latest, task[p].target)
                 t == [task[p] EXCEPT !.pc = "check", !.from = plan.from, !.step = plan.step]
      <4>1. task[p] \in Task /\ task[p].kind = "candle" /\ task[p].target \in Slots
        BY <1>0, <1>3 DEF Plan, TasksOK, BatchInPlace
      <4>2. /\ plan.from \in Int /\ plan.step \in Nat \ {0}
            /\ plan.from < task[p].target /\ plan.from + plan.step >= 1
        BY <3>3, <4>1, TimeAssumption DEF RecoveryPlan, Times, Slots
      <4>3. t \in Task /\ BatchInPlace(t)
        BY <4>1, <4>2 DEF Task, Pcs, BatchInPlace
      <4>4. task' = [task EXCEPT ![p] = t]
        BY <1>0, <3>1, <3>3, <4>1 DEF TasksOK, Task
      <4> QED
        BY <1>0, <4>3, <4>4, NewTask
    <3> QED
      BY <3>2, <3>3
  <2> QED
    BY <2>1, <2>2, <2>3 DEF TypeOK
<1>4. ASSUME NEW p \in Procs, BeginOther(p)
      PROVE  TypeOK'
  <2> DEFINE t == Start("record", "other", 0)
  <2>1. 0 \in Times
    BY TimeAssumption DEF Times
  <2>2. t \in Task /\ BatchInPlace(t)
    BY <2>1 DEF Start, Task, Pcs, BatchInPlace
  <2>3. TasksOK'
    BY <1>0, <1>4, <2>2, NewTask DEF BeginOther
  <2> QED
    BY <1>0, <1>4, <2>3 DEF BeginOther, TypeOK, TableOK, LedgerOK
<1>5. ASSUME NEW p \in Procs, CheckCap(p)
      PROVE  TypeOK'
  <2>1. TasksOK'
    <3>1. CASE CanConsumeAutomatic(p)
      <4>1. task' = [task EXCEPT ![p] = [task[p] EXCEPT !.pc = "record"]]
        BY <1>5, <3>1, <1>0 DEF CheckCap, TasksOK
      <4>2. Goto(p, "record")
        BY <1>0, <4>1 DEF Goto, TasksOK
      <4>3. task[p].kind = "candle" /\ task[p].pc # "plan"
        BY <1>0, <1>5 DEF CheckCap, TasksOK, BatchInPlace
      <4> QED
        BY <1>0, <4>2, <4>3, GotoMovesOn DEF Pcs
    <3>2. CASE ~CanConsumeAutomatic(p)
      BY <1>0, <1>5, <3>2, IdleType, NewTask DEF CheckCap
    <3> QED
      BY <3>1, <3>2
  <2> QED
    BY <1>0, <1>5, <2>1 DEF CheckCap, TypeOK, TableOK, LedgerOK
<1>6. ASSUME NEW p \in Procs, RecordCredit(p)
      PROVE  TypeOK'
  <2>1. TasksOK'
    BY <1>0, <1>6, GotoMovesOn DEF RecordCredit, Pcs
  <2>2. LedgerOK'
    <3>1. local' \in [Procs -> Ledger]
      BY <1>0, <1>6 DEF RecordCredit, LedgerOK, Ledger
    <3>2. auto' \in Counter
      <4>1. auto \in Counter
        BY <1>0 DEF LedgerOK
      <4>2. auto' = auto \/ auto' = [auto EXCEPT !.count = @ + 1]
        BY <1>6 DEF RecordCredit
      <4> QED
        BY <4>1, <4>2 DEF Counter
    <3> QED
      BY <1>0, <1>6, <3>1, <3>2 DEF RecordCredit, LedgerOK
  <2> QED
    BY <1>0, <1>6, <2>1, <2>2 DEF RecordCredit, TypeOK, TableOK
<1>7. ASSUME NEW p \in Procs, SetCredit(p)
      PROVE  TypeOK'
  <2>1. TasksOK'
    BY <1>0, <1>7, GotoMovesOn DEF SetCredit, Pcs
  <2>2. LedgerOK'
    BY <1>0, <1>7 DEF SetCredit, LedgerOK, Ledger, Counter
  <2> QED
    BY <1>0, <1>7, <2>1, <2>2 DEF SetCredit, TypeOK, TableOK
<1>8. ASSUME NEW p \in Procs, RequestOther(p)
      PROVE  TypeOK'
  <2>1. TasksOK'
    BY <1>0, <1>8, IdleType, NewTask DEF RequestOther
  <2> QED
    BY <1>0, <1>8, <2>1 DEF RequestOther, TypeOK, TableOK, LedgerOK
<1>9. ASSUME NEW p \in Procs, RequestSucceeds(p)
      PROVE  TypeOK'
  <2>1. TasksOK'
    BY <1>0, <1>9, GotoMovesOn DEF RequestSucceeds, Pcs
  <2>2. TableOK' /\ faults' \in Nat
    BY <1>0, <1>9, ReceiveType DEF RequestSucceeds
  <2> QED
    BY <1>0, <1>9, <2>1, <2>2 DEF RequestSucceeds, TypeOK, LedgerOK
<1>10. ASSUME NEW p \in Procs, NEW empty \in BOOLEAN, AfterFailure(p, empty),
              task[p].pc = "request", task[p].kind = "candle"
       PROVE  TasksOK'
  <2>1. task[p] \in Task
    BY <1>0 DEF TasksOK
  <2>2. PICK pc \in {"attempt", "mayRetry"} :
          task' = [task EXCEPT ![p].pc = pc, ![p].empty = @ \/ empty]
    BY <1>10 DEF AfterFailure
  <2> DEFINE e == task[p].empty \/ empty
  <2>3. task' = [task EXCEPT ![p].pc = pc, ![p].retrying = task[p].retrying, ![p].empty = e]
    BY <1>0, <2>1, <2>2 DEF TasksOK, Task
  <2>4. e \in BOOLEAN /\ task[p].retrying \in BOOLEAN
    BY <2>1 DEF Task
  <2> QED
    BY <1>0, <1>10, <2>3, <2>4, MoveOn DEF Pcs
<1>11. ASSUME NEW p \in Procs, RequestFails(p)
       PROVE  TypeOK'
  <2>1. TasksOK'
    BY <1>10, <1>11 DEF RequestFails
  <2> QED
    BY <1>0, <1>11, <2>1 DEF RequestFails, TypeOK, TableOK, LedgerOK
<1>12. ASSUME NEW p \in Procs, RequestSuspect(p)
       PROVE  TypeOK'
  <2>1. TasksOK'
    <3>1. CASE \E empty \in BOOLEAN : AfterFailure(p, empty /\ ~task[p].retrying)
      <4>1. PICK empty \in BOOLEAN : AfterFailure(p, empty)
        BY <1>0, <3>1 DEF TasksOK, Task
      <4> QED
        BY <1>10, <1>12, <4>1 DEF RequestSuspect
    <3>2. CASE Goto(p, "attempt")
      BY <1>0, <1>12, <3>2, GotoMovesOn DEF RequestSuspect, Pcs
    <3> QED
      BY <1>12, <3>1, <3>2 DEF RequestSuspect
  <2>2. TableOK' /\ faults' \in Nat
    BY <1>0, <1>12, ReceiveType DEF RequestSuspect
  <2> QED
    BY <1>0, <1>12, <2>1, <2>2 DEF RequestSuspect, TypeOK, LedgerOK
<1>13. ASSUME NEW p \in Procs, RequestLimited(p)
       PROVE  TypeOK'
  <2>1. TasksOK'
    BY <1>0, <1>13, GotoMovesOn DEF RequestLimited, Pcs
  <2> QED
    BY <1>0, <1>13, <2>1 DEF RequestLimited, TypeOK, TableOK, LedgerOK
<1>14. ASSUME NEW p \in Procs, MayRetry(p)
       PROVE  TypeOK'
  <2>1. task[p].kind = "candle" /\ task[p] \in Task
    BY <1>0, <1>14 DEF MayRetry, TasksOK, BatchInPlace
  <2>2. TasksOK'
    <3>1. CASE CanConsumeRetry(p) /\ ~IsSuppressed(p, BatchEnd(task[p]))
      <4>1. task' = [task EXCEPT ![p].pc = "record", ![p].retrying = TRUE,
                                 ![p].empty = task[p].empty]
        BY <1>0, <1>14, <2>1, <3>1 DEF MayRetry, TasksOK, Task
      <4>2. task[p].empty \in BOOLEAN
        BY <2>1 DEF Task
      <4> QED
        BY <1>0, <1>14, <2>1, <4>1, <4>2, MoveOn DEF MayRetry, Pcs
    <3>2. CASE ~(CanConsumeRetry(p) /\ ~IsSuppressed(p, BatchEnd(task[p])))
      BY <1>0, <1>14, <2>1, <3>2, GotoMovesOn DEF MayRetry, Pcs
    <3> QED
      BY <3>1, <3>2
  <2> QED
    BY <1>0, <1>14, <2>2 DEF MayRetry, TypeOK, TableOK, LedgerOK
<1>15. ASSUME NEW p \in Procs, Settle(p)
       PROVE  TypeOK'
  <2> DEFINE end == BatchEnd(task[p])
  <2>1. /\ task[p] \in Task /\ BatchInPlace(task[p])
        /\ task[p].kind = "candle" /\ task[p].pc = "settle"
    BY <1>0, <1>15 DEF Settle, TasksOK, BatchInPlace
  <2>2. end \in Slots /\ task[p].from < end
    BY <2>1, BatchEndType
  <2>3. LedgerOK'
    <3>1. local[p] \in Ledger
      BY <1>0 DEF LedgerOK
    <3> HIDE DEF end
    <3>2. [local[p] EXCEPT !.attempts[end] = 0, !.suppressed = @ \ {end}, !.circuit = 0] \in Ledger
      BY <2>2, <3>1 DEF Ledger
    <3>3. local' = [local EXCEPT ![p] = [local[p] EXCEPT !.attempts[end] = 0,
                                            !.suppressed = @ \ {end}, !.circuit = 0]]
      BY <1>0, <1>15, <3>1 DEF Settle, LedgerOK, Ledger, end
    <3>4. local' \in [Procs -> Ledger]
      BY <1>0, <3>2, <3>3 DEF LedgerOK
    <3> QED
      BY <1>0, <1>15, <3>4 DEF Settle, LedgerOK
  <2>4. TasksOK'
    <3>1. CASE end < task[p].target
      <4> DEFINE t == [task[p] EXCEPT !.pc = "check", !.from = end,
                                      !.retrying = FALSE, !.empty = FALSE]
      <4>1. end \in Nat /\ end >= 1
        BY <2>2 DEF Slots
      <4> HIDE DEF end
      <4>2. t \in Task /\ BatchInPlace(t)
        <5>0. "check" \in Pcs /\ end \in Int
          BY <4>1 DEF Pcs
        <5>1. t \in Task
          BY <2>1, <5>0 DEF Task
        <5>2. /\ t.kind = "candle" /\ t.pc = "check" /\ t.from = end
              /\ t.target = task[p].target /\ t.step = task[p].step
          BY <2>1 DEF Task
        <5>3. task[p].target \in Slots /\ task[p].step \in Nat \ {0}
          BY <2>1 DEF Task, BatchInPlace
        <5> QED
          BY <3>1, <4>1, <5>1, <5>2, <5>3 DEF BatchInPlace
      <4>3. task' = [task EXCEPT ![p] = t]
        BY <1>0, <1>15, <3>1 DEF Settle, TasksOK, end
      <4> QED
        BY <1>0, <4>2, <4>3, NewTask
    <3>2. CASE ~(end < task[p].target)
      BY <1>0, <1>15, <3>2, IdleType, NewTask DEF Settle
    <3> QED
      BY <3>1, <3>2
  <2> QED
    BY <1>0, <1>15, <2>3, <2>4 DEF Settle, TypeOK, TableOK
<1>16. ASSUME NEW p \in Procs, task[p].pc \in {"attempt", "penalise"}
       PROVE  /\ task[p].kind = "candle"
              /\ BatchEnd(task[p]) \in Slots
              /\ task[p].target \in Nat
  BY <1>0, <1>16, BatchEndType DEF TasksOK, BatchInPlace, Slots
<1>17. ASSUME NEW p \in Procs, CountAttempt(p)
       PROVE  TypeOK'
  <2> DEFINE end == BatchEnd(task[p])
             n == IF task[p].retrying THEN local[p].retry + 1 ELSE local[p].retry
  <2>1. end \in Slots /\ local[p] \in Ledger
    BY <1>0, <1>16, <1>17 DEF CountAttempt, LedgerOK
  <2>2. LedgerOK'
    <3> HIDE DEF end
    <3>1. n \in Nat /\ local[p].attempts[end] + 1 \in Nat
      BY <2>1 DEF Ledger
    <3>2. local' = [local EXCEPT ![p] = [local[p] EXCEPT !.attempts[end] = @ + 1, !.retry = n]]
      BY <1>0, <1>17, <2>1 DEF CountAttempt, LedgerOK, Ledger, end
    <3> HIDE DEF n
    <3>3. [local[p] EXCEPT !.attempts[end] = @ + 1, !.retry = n] \in Ledger
      BY <2>1, <3>1 DEF Ledger
    <3>4. local' \in [Procs -> Ledger]
      BY <1>0, <3>2, <3>3 DEF LedgerOK
    <3>5. retry' \in Counter
      BY <1>0, <1>17 DEF CountAttempt, LedgerOK, Counter
    <3> QED
      BY <1>0, <1>17, <3>4, <3>5 DEF CountAttempt, LedgerOK
  <2>3. TasksOK'
    BY <1>0, <1>16, <1>17, GotoMovesOn DEF CountAttempt, Pcs
  <2> QED
    BY <1>0, <1>17, <2>2, <2>3 DEF CountAttempt, TypeOK, TableOK
<1>18. ASSUME NEW p \in Procs, SetRetry(p)
       PROVE  TypeOK'
  <2>1. task[p].kind = "candle"
    BY <1>0, <1>18 DEF SetRetry, TasksOK, BatchInPlace
  <2>2. TasksOK'
    BY <1>0, <1>18, <2>1, GotoMovesOn DEF SetRetry, Pcs
  <2>3. LedgerOK'
    BY <1>0, <1>18 DEF SetRetry, LedgerOK, Ledger, Counter
  <2> QED
    BY <1>0, <1>18, <2>2, <2>3 DEF SetRetry, TypeOK, TableOK
<1>19. ASSUME NEW p \in Procs, Penalise(p)
       PROVE  TypeOK'
  <2>1. BatchEnd(task[p]) \in Slots /\ SuppressedUntil(task[p].target) \in Nat
    BY <1>16, <1>19, TimeAssumption DEF Penalise, SuppressedUntil
  <2>2. local' \in [Procs -> Ledger]
    <3>1. local \in [Procs -> Ledger]
      BY <1>0 DEF LedgerOK
    <3>2. PICK S, t : /\ S = local[p].suppressed \/ S = local[p].suppressed \cup {BatchEnd(task[p])}
                      /\ t = local[p].circuit \/ t = SuppressedUntil(task[p].target)
                      /\ local' = [local EXCEPT ![p].suppressed = S, ![p].circuit = t]
      BY <1>19 DEF Penalise
    <3>3. S \in SUBSET Slots /\ t \in Nat
      BY <2>1, <3>1, <3>2 DEF Ledger
    <3> QED
      BY <3>1, <3>2, <3>3 DEF Ledger
  <2>3. LedgerOK'
    BY <1>0, <1>19, <2>1, <2>2 DEF Penalise, LedgerOK
  <2>4. TasksOK'
    BY <1>0, <1>19, IdleType, NewTask DEF Penalise
  <2> QED
    BY <1>0, <1>19, <2>3, <2>4 DEF Penalise, TypeOK, TableOK
<1>20. ASSUME NEW p \in Procs, ProcessDies(p)
       PROVE  TypeOK'
  <2>1. TasksOK'
    BY <1>0, <1>20, IdleType, NewTask DEF ProcessDies
  <2>2. LedgerOK'
    BY <1>0, <1>20, NewLedgerType DEF ProcessDies, LedgerOK
  <2> QED
    BY <1>0, <1>20, <2>1, <2>2 DEF ProcessDies, Fault, TypeOK, TableOK
<1>21. CASE CacheLost
  <2>1. LedgerOK'
    BY <1>0, <1>21 DEF CacheLost, LedgerOK, Unknown, Counter
  <2> QED
    BY <1>0, <1>21, <2>1, SameTasks DEF CacheLost, Fault, TypeOK, TableOK
<1>22. CASE UNCHANGED vars
  BY <1>0, <1>22, SameTasks DEF vars, TypeOK, TableOK, LedgerOK
<1> QED
  BY <1>1, <1>2, <1>3, <1>4, <1>5, <1>6, <1>7, <1>8, <1>9, <1>11, <1>12, <1>13, <1>14,
     <1>15, <1>17, <1>18, <1>19, <1>20, <1>21, <1>22 DEF Next, Dispatch

\* Tables, ledgers and tasks always hold what the code's columns, cache keys and
\* dictionaries can hold, and every batch in flight lies where its plan put it.
THEOREM TypeCorrect == Spec => []TypeOK
  BY TypedInit, TypedStep, PTL DEF Spec

-----------------------------------------------------------------------------
(* The daily credits.  A process whose check has passed is pending until   *)
(* its credit is in the shared count, and its request is in flight after.  *)

Pending == {p \in Procs : task[p].pc \in {"record", "set"}}
InFlight == {p \in Procs : task[p].pc = "request"}

\* While the count is not lost, it covers the requests made and in flight, and together
\* with the pending credits exceeds the cap by less than the number of processes.  A
\* count that is not known yet is that of nobody but the processes about to set it.
Budget ==
    /\ ~auto.known => auto.count = 0
    /\ ~forgotten =>
        /\ auto.count + Cardinality(Pending) <= Cap + Cardinality(Procs) - 1
        /\ sent + Cardinality(InFlight) <= auto.count
        /\ ~auto.known =>
            \A p \in Procs : local[p].auto = IF task[p].pc = "set" THEN 1 ELSE 0

LEMMA Cards ==
    /\ IsFiniteSet(Pending) /\ IsFiniteSet(InFlight)
    /\ Cardinality(Pending) \in Nat /\ Cardinality(InFlight) \in Nat
    /\ Cardinality(Procs) \in Nat /\ Cardinality(Procs) >= 1
    /\ \A p \in Procs \ Pending : Cardinality(Pending) + 1 <= Cardinality(Procs)
<1>1. Pending \subseteq Procs /\ InFlight \subseteq Procs
  BY DEF Pending, InFlight
<1>2. /\ IsFiniteSet(Pending) /\ IsFiniteSet(InFlight)
      /\ Cardinality(Pending) \in Nat /\ Cardinality(InFlight) \in Nat
      /\ Cardinality(Procs) \in Nat
  BY <1>1, ProcsAssumption, FS_Subset, FS_CardinalityType
<1>3. Cardinality(Procs) # 0
  BY ProcsAssumption, FS_EmptySet
<1>4. ASSUME NEW p \in Procs \ Pending
      PROVE  Cardinality(Pending) + 1 <= Cardinality(Procs)
  <2>1. Cardinality(Pending \cup {p}) = Cardinality(Pending) + 1
    BY <1>2, FS_AddElement
  <2>2. Pending \cup {p} \subseteq Procs
    BY <1>1
  <2> QED
    BY <2>1, <2>2, ProcsAssumption, FS_Subset
<1> QED
  BY <1>2, <1>3, <1>4

\* How a step of one process changes the two sets.
LEMMA CardSteps ==
    ASSUME NEW p \in Procs,
           \A q \in Procs \ {p} : task'[q].pc = task[q].pc
    PROVE  /\ Cardinality(Pending') =
                IF p \in Pending THEN IF p \in Pending' THEN Cardinality(Pending)
                                      ELSE Cardinality(Pending) - 1
                ELSE IF p \in Pending' THEN Cardinality(Pending) + 1
                     ELSE Cardinality(Pending)
           /\ Cardinality(InFlight') =
                IF p \in InFlight THEN IF p \in InFlight' THEN Cardinality(InFlight)
                                       ELSE Cardinality(InFlight) - 1
                ELSE IF p \in InFlight' THEN Cardinality(InFlight) + 1
                     ELSE Cardinality(InFlight)
<1>1. /\ p \in Pending' => Pending' = Pending \cup {p}
      /\ p \notin Pending' => Pending' = Pending \ {p}
  BY DEF Pending
<1>2. /\ p \in InFlight' => InFlight' = InFlight \cup {p}
      /\ p \notin InFlight' => InFlight' = InFlight \ {p}
  BY DEF InFlight
<1>3. /\ IsFiniteSet(Pending) /\ Cardinality(Pending) \in Nat
      /\ IsFiniteSet(InFlight) /\ Cardinality(InFlight) \in Nat
  BY Cards
<1>4. ASSUME NEW S, IsFiniteSet(S)
      PROVE  /\ Cardinality(S \cup {p}) = IF p \in S THEN Cardinality(S) ELSE Cardinality(S) + 1
             /\ Cardinality(S \ {p}) = IF p \in S THEN Cardinality(S) - 1 ELSE Cardinality(S)
  BY <1>4, FS_AddElement, FS_RemoveElement
<1> QED
  BY <1>1, <1>2, <1>3, <1>4

\* A step within a task, or that ends one, but for the credit and the request.
LEMMA QuietStep ==
    ASSUME Budget, NEW p \in Procs,
           \A q \in Procs \ {p} : task'[q].pc = task[q].pc,
           task[p].pc \notin {"record", "set", "request"},
           task'[p].pc \notin {"record", "set", "request"},
           \A q \in Procs : local'[q].auto = local[q].auto,
           UNCHANGED <<auto, sent, forgotten>>
    PROVE  Budget'
<1>1. /\ Cardinality(Pending') = Cardinality(Pending)
      /\ Cardinality(InFlight') = Cardinality(InFlight)
  BY CardSteps DEF Pending, InFlight
<1>2. \A q \in Procs : task'[q].pc = "set" <=> task[q].pc = "set"
  OBVIOUS
<1> QED
  BY <1>1, <1>2 DEF Budget

\* A check that passes: what the process saw was below the cap.
LEMMA EnterStep ==
    ASSUME TypeOK, Budget, NEW p \in Procs, CanConsumeAutomatic(p),
           \A q \in Procs \ {p} : task'[q].pc = task[q].pc,
           task[p].pc \notin {"record", "set", "request"},
           task'[p].pc = "record",
           UNCHANGED <<local, auto, sent, forgotten>>
    PROVE  Budget'
<1>1. /\ Cardinality(Pending') = Cardinality(Pending) + 1
      /\ Cardinality(InFlight') = Cardinality(InFlight)
  BY CardSteps DEF Pending, InFlight
<1>2. Cardinality(Pending) + 1 <= Cardinality(Procs)
  BY Cards DEF Pending
<1>3. auto.count + 1 <= Cap
  BY CapAssumption DEF Budget, CanConsumeAutomatic, AutoCount, TypeOK, LedgerOK, Counter
<1>4. \A q \in Procs : task'[q].pc = "set" <=> task[q].pc = "set"
  OBVIOUS
<1>5. auto.count \in Nat
  BY DEF TypeOK, LedgerOK, Counter
<1>6. auto'.count + Cardinality(Pending') <= Cap + Cardinality(Procs) - 1
  BY <1>1, <1>2, <1>3, <1>5, CapAssumption, Cards
<1> QED
  BY <1>1, <1>4, <1>6 DEF Budget

\* A request leaves with a credit that is in the count.
LEMMA SendStep ==
    ASSUME TypeOK, Budget, NEW p \in Procs,
           \A q \in Procs \ {p} : task'[q].pc = task[q].pc,
           task[p].pc = "request",
           task'[p].pc \notin {"record", "set", "request"},
           sent' = sent + 1,
           UNCHANGED <<local, auto, forgotten>>
    PROVE  Budget'
<1>1. /\ Cardinality(Pending') = Cardinality(Pending)
      /\ Cardinality(InFlight') = Cardinality(InFlight) - 1
  BY CardSteps DEF Pending, InFlight
<1>2. \A q \in Procs : task'[q].pc = "set" <=> task[q].pc = "set"
  OBVIOUS
<1>3. sent \in Nat /\ Cardinality(InFlight) \in Nat
  BY Cards DEF TypeOK
<1>4. sent' + Cardinality(InFlight') = sent + Cardinality(InFlight)
  BY <1>1, <1>3
<1> QED
  BY <1>1, <1>2, <1>4 DEF Budget

LEMMA BudgetInit == Init => Budget
<1> SUFFICES ASSUME Init
             PROVE  Budget
  OBVIOUS
<1>1. \A p \in Procs : task[p].pc = "idle" /\ local[p].auto = 0
  BY DEF Init, Idle, Start, NewLedger
<1>2. Pending = {} /\ InFlight = {}
  BY <1>1 DEF Pending, InFlight
<1>3. Cardinality(Pending) = 0 /\ Cardinality(InFlight) = 0
  BY <1>2, FS_EmptySet
<1> QED
  BY <1>1, <1>3, Cards, CapAssumption DEF Init, Unknown, Budget

LEMMA BudgetStep == TypeOK /\ Budget /\ [Next]_vars => Budget'
<1> SUFFICES ASSUME TypeOK, Budget, [Next]_vars
             PROVE  Budget'
  OBVIOUS
<1> USE DEF ledger, history
<1>0. /\ task \in [Procs -> Task] /\ local \in [Procs -> Ledger]
      /\ auto \in Counter /\ sent \in Nat /\ forgotten \in BOOLEAN
      /\ Cardinality(Pending) \in Nat /\ Cardinality(InFlight) \in Nat
  BY Cards DEF TypeOK, TasksOK, LedgerOK
<1>1. ASSUME UNCHANGED <<local, task, sent, ledger>>
      PROVE  Budget'
  BY <1>1 DEF Budget, Pending, InFlight
<1>2. ASSUME NEW p \in Procs, Evaluate(p)
      PROVE  Budget'
  <2>1. \A q \in Procs : local'[q].auto = local[q].auto
    <3>1. local' = local \/ local' = [local EXCEPT ![p].circuit = 0]
      BY <1>2 DEF Evaluate, ForgetExpired
    <3> QED
      BY <1>0, <3>1 DEF Ledger
  <2>2. /\ \A q \in Procs \ {p} : task'[q].pc = task[q].pc
        /\ task'[p].pc \in {"plan", "idle"}
    BY <1>0, <1>2 DEF Evaluate, Start
  <2> QED
    BY <1>2, <2>1, <2>2, QuietStep DEF Evaluate
<1>3. ASSUME NEW p \in Procs, Plan(p)
      PROVE  Budget'
  <2>1. /\ \A q \in Procs \ {p} : task'[q].pc = task[q].pc
        /\ task'[p].pc \in {"check", "idle"}
    BY <1>0, <1>3 DEF Plan, Idle, Start, Task
  <2> QED
    BY <1>3, <2>1, QuietStep DEF Plan
<1>4. ASSUME NEW p \in Procs, BeginOther(p)
      PROVE  Budget'
  <2>1. /\ \A q \in Procs \ {p} : task'[q].pc = task[q].pc
        /\ task'[p].pc = "record"
    BY <1>0, <1>4 DEF BeginOther, Start
  <2> QED
    BY <1>4, <2>1, EnterStep DEF BeginOther
<1>5. ASSUME NEW p \in Procs, CheckCap(p)
      PROVE  Budget'
  <2>1. \A q \in Procs \ {p} : task'[q].pc = task[q].pc
    BY <1>0, <1>5 DEF CheckCap
  <2>2. CASE CanConsumeAutomatic(p)
    <3>1. task'[p].pc = "record"
      BY <1>0, <1>5, <2>2 DEF CheckCap, Task
    <3> QED
      BY <1>5, <2>1, <2>2, <3>1, EnterStep DEF CheckCap
  <2>3. CASE ~CanConsumeAutomatic(p)
    <3>1. task'[p].pc = "idle"
      BY <1>0, <1>5, <2>3 DEF CheckCap, Idle, Start
    <3> QED
      BY <1>5, <2>1, <3>1, QuietStep DEF CheckCap
  <2> QED
    BY <2>2, <2>3
<1>6. ASSUME NEW p \in Procs, RecordCredit(p)
      PROVE  Budget'
  <2>1. \A q \in Procs \ {p} : task'[q].pc = task[q].pc /\ local'[q].auto = local[q].auto
    BY <1>0, <1>6 DEF RecordCredit, Goto
  <2>2. local'[p].auto = local[p].auto + 1
    BY <1>0, <1>6 DEF RecordCredit, Ledger
  <2>3. CASE auto.known
    <3>1. task'[p].pc = "request" /\ auto'.count = auto.count + 1 /\ auto'.known
      BY <1>0, <1>6, <2>3 DEF RecordCredit, Goto, Task, Counter
    <3>2. /\ Cardinality(Pending') = Cardinality(Pending) - 1
          /\ Cardinality(InFlight') = Cardinality(InFlight) + 1
      BY <1>6, <2>1, <3>1, CardSteps DEF Pending, InFlight, RecordCredit
    <3>3. auto.count \in Nat
      BY <1>0 DEF Counter
    <3> QED
      BY <1>0, <1>6, <3>1, <3>2, <3>3, Cards, CapAssumption DEF RecordCredit, Budget
  <2>4. CASE ~auto.known
    <3>1. task'[p].pc = "set" /\ auto' = auto
      BY <1>0, <1>6, <2>4 DEF RecordCredit, Goto, Task
    <3>2. /\ Cardinality(Pending') = Cardinality(Pending)
          /\ Cardinality(InFlight') = Cardinality(InFlight)
      BY <1>6, <2>1, <3>1, CardSteps DEF Pending, InFlight, RecordCredit
    <3>3. ~forgotten => local[p].auto = 0
      BY <1>6, <2>4 DEF RecordCredit, Budget
    <3>4. ~forgotten => \A q \in Procs : local'[q].auto = IF task'[q].pc = "set" THEN 1 ELSE 0
      BY <2>1, <2>2, <2>4, <3>1, <3>3 DEF Budget
    <3> QED
      BY <1>6, <3>1, <3>2, <3>4 DEF RecordCredit, Budget
  <2> QED
    BY <2>3, <2>4
<1>7. ASSUME NEW p \in Procs, SetCredit(p)
      PROVE  Budget'
  <2>1. auto'.known
    BY <1>7 DEF SetCredit
  <2>2. CASE auto.known
    BY <1>7, <2>1, <2>2 DEF SetCredit, Budget
  <2>3. CASE ~auto.known
    <3>1. /\ \A q \in Procs \ {p} : task'[q].pc = task[q].pc
          /\ task'[p].pc = "request"
      BY <1>0, <1>7 DEF SetCredit, Goto, Task
    <3>2. /\ Cardinality(Pending') = Cardinality(Pending) - 1
          /\ Cardinality(InFlight') = Cardinality(InFlight) + 1
      BY <1>7, <3>1, CardSteps DEF Pending, InFlight, SetCredit
    <3>3. ~forgotten => auto'.count = 1 /\ auto.count = 0
      BY <1>7, <2>3 DEF SetCredit, Budget
    <3>4. forgotten' = forgotten
      BY <1>0, <1>7, <2>3 DEF SetCredit
    <3>5. sent' = sent
      BY <1>7 DEF SetCredit
    <3> QED
      BY <1>0, <2>1, <3>2, <3>3, <3>4, <3>5, Cards, CapAssumption DEF Budget
  <2> QED
    BY <2>2, <2>3
<1>8. ASSUME NEW p \in Procs, RequestOther(p)
      PROVE  Budget'
  <2>1. /\ \A q \in Procs \ {p} : task'[q].pc = task[q].pc
        /\ task'[p].pc = "idle"
    BY <1>0, <1>8 DEF RequestOther, Idle, Start
  <2> QED
    BY <1>8, <2>1, SendStep DEF RequestOther
<1>9. ASSUME NEW p \in Procs, NEW empty \in BOOLEAN, AfterFailure(p, empty)
      PROVE  /\ \A q \in Procs \ {p} : task'[q].pc = task[q].pc
             /\ task'[p].pc \in {"attempt", "mayRetry"}
  BY <1>0, <1>9 DEF AfterFailure, Task
<1>10. ASSUME NEW p \in Procs, RequestSucceeds(p)
       PROVE  Budget'
  <2>1. /\ \A q \in Procs \ {p} : task'[q].pc = task[q].pc
        /\ task'[p].pc = "settle"
    BY <1>0, <1>10 DEF RequestSucceeds, Goto, Task
  <2> QED
    BY <1>10, <2>1, SendStep DEF RequestSucceeds
<1>11. ASSUME NEW p \in Procs, RequestFails(p)
       PROVE  Budget'
  BY <1>9, <1>11, SendStep DEF RequestFails
<1>12. ASSUME NEW p \in Procs, RequestSuspect(p)
       PROVE  Budget'
  <2>1. /\ \A q \in Procs \ {p} : task'[q].pc = task[q].pc
        /\ task'[p].pc \in {"attempt", "mayRetry"}
    <3>1. CASE \E empty \in BOOLEAN : AfterFailure(p, empty /\ ~task[p].retrying)
      <4>1. PICK empty \in BOOLEAN : AfterFailure(p, empty)
        BY <1>0, <3>1 DEF Task
      <4> QED
        BY <1>9, <4>1
    <3>2. CASE Goto(p, "attempt")
      BY <1>0, <3>2 DEF Goto, Task
    <3> QED
      BY <1>12, <3>1, <3>2 DEF RequestSuspect
  <2> QED
    BY <1>12, <2>1, SendStep DEF RequestSuspect
<1>13. ASSUME NEW p \in Procs, RequestLimited(p)
       PROVE  Budget'
  <2>1. /\ \A q \in Procs \ {p} : task'[q].pc = task[q].pc
        /\ task'[p].pc = "attempt"
    BY <1>0, <1>13 DEF RequestLimited, Goto, Task
  <2> QED
    BY <1>13, <2>1, SendStep DEF RequestLimited
<1>14. ASSUME NEW p \in Procs, MayRetry(p)
       PROVE  Budget'
  <2>1. \A q \in Procs \ {p} : task'[q].pc = task[q].pc
    BY <1>0, <1>14 DEF MayRetry, Goto
  <2>2. CASE CanConsumeRetry(p) /\ ~IsSuppressed(p, BatchEnd(task[p]))
    <3>1. task'[p].pc = "record"
      BY <1>0, <1>14, <2>2 DEF MayRetry, Task
    <3> QED
      BY <1>14, <2>1, <2>2, <3>1, EnterStep DEF MayRetry, CanConsumeRetry
  <2>3. CASE ~(CanConsumeRetry(p) /\ ~IsSuppressed(p, BatchEnd(task[p])))
    <3>1. task'[p].pc = "attempt"
      BY <1>0, <1>14, <2>3 DEF MayRetry, Goto, Task
    <3> QED
      BY <1>14, <2>1, <3>1, QuietStep DEF MayRetry
  <2> QED
    BY <2>2, <2>3
<1>15. ASSUME NEW p \in Procs, Settle(p)
       PROVE  Budget'
  <2>1. \A q \in Procs : local'[q].auto = local[q].auto
    BY <1>0, <1>15 DEF Settle, Ledger
  <2>2. /\ \A q \in Procs \ {p} : task'[q].pc = task[q].pc
        /\ task'[p].pc \in {"check", "idle"}
    BY <1>0, <1>15 DEF Settle, Idle, Start, Task
  <2> QED
    BY <1>15, <2>1, <2>2, QuietStep DEF Settle
<1>16. ASSUME NEW p \in Procs, CountAttempt(p)
       PROVE  Budget'
  <2>1. \A q \in Procs : local'[q].auto = local[q].auto
    BY <1>0, <1>16 DEF CountAttempt, Ledger
  <2>2. /\ \A q \in Procs \ {p} : task'[q].pc = task[q].pc
        /\ task'[p].pc \in {"setRetry", "penalise"}
    BY <1>0, <1>16 DEF CountAttempt, Goto, Task
  <2> QED
    BY <1>16, <2>1, <2>2, QuietStep DEF CountAttempt
<1>17. ASSUME NEW p \in Procs, SetRetry(p)
       PROVE  Budget'
  <2>1. /\ \A q \in Procs \ {p} : task'[q].pc = task[q].pc
        /\ task'[p].pc = "penalise"
    BY <1>0, <1>17 DEF SetRetry, Goto, Task
  <2> QED
    BY <1>17, <2>1, QuietStep DEF SetRetry
<1>18. ASSUME NEW p \in Procs, Penalise(p)
       PROVE  Budget'
  <2>1. \A q \in Procs : local'[q].auto = local[q].auto
    BY <1>0, <1>18 DEF Penalise, Ledger
  <2>2. /\ \A q \in Procs \ {p} : task'[q].pc = task[q].pc
        /\ task'[p].pc = "idle"
    BY <1>0, <1>18 DEF Penalise, Idle, Start
  <2> QED
    BY <1>18, <2>1, <2>2, QuietStep DEF Penalise
<1>19. ASSUME NEW p \in Procs, ProcessDies(p)
       PROVE  Budget'
  <2>1. /\ \A q \in Procs \ {p} : task'[q].pc = task[q].pc /\ local'[q] = local[q]
        /\ task'[p].pc = "idle" /\ local'[p].auto = 0
    BY <1>0, <1>19 DEF ProcessDies, Idle, Start, NewLedger
  <2>2. /\ Cardinality(Pending') <= Cardinality(Pending)
        /\ Cardinality(InFlight') <= Cardinality(InFlight)
        /\ Cardinality(Pending') \in Int /\ Cardinality(InFlight') \in Int
    BY <1>0, <2>1, CardSteps DEF Pending, InFlight
  <2>3. auto.count \in Nat
    BY <1>0 DEF Counter
  <2> QED
    BY <1>0, <1>19, <2>1, <2>2, <2>3, Cards, CapAssumption DEF ProcessDies, Budget
<1>20. CASE CacheLost
  BY <1>20 DEF CacheLost, Budget, Unknown
<1> QED
  BY <1>1, <1>2, <1>3, <1>4, <1>5, <1>6, <1>7, <1>8, <1>10, <1>11, <1>12, <1>13, <1>14,
     <1>15, <1>16, <1>17, <1>18, <1>19, <1>20 DEF Next, Dispatch, Tick, vars

\* Although the cap is checked and counted in separate cache calls, the day's requests
\* exceed it by less than the number of processes while the shared count is kept.
THEOREM CreditsBounded == Spec => []OvershootBounded
<1>1. TypeOK /\ Budget => OvershootBounded
  <2> SUFFICES ASSUME TypeOK, Budget, ~forgotten
               PROVE  sent <= Cap + Cardinality(Procs) - 1
    BY DEF OvershootBounded
  <2>1. sent \in Nat /\ auto.count \in Nat
    BY DEF TypeOK, LedgerOK, Counter
  <2> QED
    BY <2>1, Cards, CapAssumption DEF Budget
<1>2. Spec => []Budget
  BY BudgetInit, BudgetStep, TypeCorrect, PTL DEF Spec
<1> QED
  BY <1>1, <1>2, TypeCorrect, PTL

-----------------------------------------------------------------------------
(* The coverage of the recovery.  Every plan begins at a latest candle, and *)
(* every further batch at the end of one that was answered, so what lies    *)
(* before a batch is accounted for, and stays so.                           *)

Accounted == stored \cup skipped \cup omitted

CoveredIn(A, c) == \A d \in Slots \ Closed : d <= c => d \in A

Coverage ==
    /\ NoSilentHole
    /\ \A p \in Procs :
        /\ task[p].kind = "candle" /\ task[p].pc # "plan" => CoveredIn(Accounted, task[p].from)
        /\ task[p].pc = "settle" => CoveredIn(Accounted, BatchEnd(task[p]))

\* A candle stored is covered together with all before it.
LEMMA CoveredStored ==
    ASSUME NoSilentHole, TypeOK, NEW c \in stored
    PROVE  CoveredIn(Accounted, c)
<1>1. ASSUME NEW d \in Slots \ Closed, d <= c
      PROVE  d \in Accounted
  <2>1. d \in Int /\ c \in Int
    BY TimeAssumption DEF TypeOK, TableOK, Slots
  <2>2. CASE d = c
    BY <2>2 DEF Accounted
  <2>3. CASE d < c
    BY <2>3 DEF NoSilentHole, Accounted
  <2> QED
    BY <1>1, <2>1, <2>2, <2>3
<1> QED
  BY <1>1 DEF CoveredIn

LEMMA CoveredGrows ==
    ASSUME NEW A, NEW B, A \subseteq B, NEW c, CoveredIn(A, c)
    PROVE  CoveredIn(B, c)
  BY DEF CoveredIn

\* A step that stores nothing leaves the candles and the other tasks as covered.
LEMMA QuietCoverage ==
    ASSUME Coverage, NEW p \in Procs, stored' = stored, Accounted \subseteq Accounted',
           \A q \in Procs \ {p} : task'[q] = task[q],
           task'[p].kind = "candle" /\ task'[p].pc # "plan" =>
                CoveredIn(Accounted', task'[p].from),
           task'[p].pc = "settle" => CoveredIn(Accounted', BatchEnd(task'[p]))
    PROVE  Coverage'
<1>1. NoSilentHole'
  BY DEF Coverage, NoSilentHole, Accounted
<1>2. ASSUME NEW q \in Procs
      PROVE  /\ task'[q].kind = "candle" /\ task'[q].pc # "plan" =>
                    CoveredIn(Accounted', task'[q].from)
             /\ task'[q].pc = "settle" => CoveredIn(Accounted', BatchEnd(task'[q]))
  BY CoveredGrows DEF Coverage
<1> QED
  BY <1>1, <1>2 DEF Coverage

\* A step that only moves a task on, or ends it.
LEMMA MoveCoverage ==
    ASSUME Coverage, NEW p \in Procs, UNCHANGED <<stored, skipped, omitted>>,
           \A q \in Procs \ {p} : task'[q] = task[q],
           task'[p].pc # "settle",
           task'[p].kind = "candle" /\ task'[p].pc # "plan" =>
                task[p].kind = "candle" /\ task[p].pc # "plan" /\ task'[p].from = task[p].from
    PROVE  Coverage'
<1>1. Accounted' = Accounted
  BY DEF Accounted
<1>2. task'[p].kind = "candle" /\ task'[p].pc # "plan" => CoveredIn(Accounted', task'[p].from)
  BY <1>1 DEF Coverage
<1> QED
  BY <1>1, <1>2, QuietCoverage

\* What an answer leaves out is accounted for, and what lies before its batch is covered.
LEMMA ReceiveCoverage ==
    ASSUME Coverage, TypeOK, NEW p \in Procs,
           task[p].kind = "candle", task[p].pc # "plan",
           NEW answer \in SUBSET Answerable(task[p]), Receive(p, answer), skipped' = skipped,
           \A q \in Procs \ {p} : task'[q] = task[q],
           task'[p].from = task[p].from, BatchEnd(task'[p]) = BatchEnd(task[p])
    PROVE  Coverage'
<1> DEFINE end == BatchEnd(task[p])
<1>1. Accounted \subseteq Accounted' /\ Batch(task[p]) \subseteq Accounted'
  BY DEF Receive, Accounted
<1>2. task[p] \in Task /\ BatchInPlace(task[p])
  BY DEF TypeOK, TasksOK
<1>3. end \in Slots /\ task[p].from \in Int
  BY <1>2, BatchEndType DEF Task
<1>4. CoveredIn(Accounted, task[p].from)
  BY DEF Coverage
<1>5. CoveredIn(Accounted', end)
  <2>1. ASSUME NEW d \in Slots \ Closed, d <= end
        PROVE  d \in Accounted'
    <3>1. CASE d <= task[p].from
      BY <1>1, <1>4, <3>1 DEF CoveredIn
    <3>2. CASE ~(d <= task[p].from)
      BY <1>1, <1>3, <2>1, <3>2, TimeAssumption DEF Batch, Slots
    <3> QED
      BY <3>1, <3>2
  <2> QED
    BY <2>1 DEF CoveredIn
<1>6. NoSilentHole'
  <2>1. ASSUME NEW e \in stored', NEW c \in Slots \ Closed, c < e
        PROVE  c \in Accounted'
    <3>1. CASE e \in stored
      BY <1>1, <2>1, <3>1 DEF Coverage, NoSilentHole, Accounted
    <3>2. CASE e \in Answerable(task[p])
      <4>1. c <= end
        BY <1>3, <2>1, <3>2, TimeAssumption DEF Answerable, Batch, Slots
      <4> QED
        BY <1>5, <4>1 DEF CoveredIn
    <3> QED
      BY <3>1, <3>2 DEF Receive
  <2> QED
    BY <2>1 DEF NoSilentHole, Accounted
<1>7. ASSUME NEW q \in Procs
      PROVE  /\ task'[q].kind = "candle" /\ task'[q].pc # "plan" =>
                    CoveredIn(Accounted', task'[q].from)
             /\ task'[q].pc = "settle" => CoveredIn(Accounted', BatchEnd(task'[q]))
  <2>1. CASE q = p
    BY <1>1, <1>4, <1>5, <2>1, CoveredGrows
  <2>2. CASE q # p
    BY <1>1, <2>2, CoveredGrows DEF Coverage
  <2> QED
    BY <2>1, <2>2
<1> QED
  BY <1>6, <1>7 DEF Coverage

LEMMA CoverageInit == Init => Coverage
  BY DEF Init, Coverage, NoSilentHole, Idle, Start, Slots

LEMMA CoverageStep == TypeOK /\ Coverage /\ [Next]_vars => Coverage'
<1> SUFFICES ASSUME TypeOK, Coverage, [Next]_vars
             PROVE  Coverage'
  OBVIOUS
<1> USE DEF ledger, history
<1>0. /\ task \in [Procs -> Task] /\ Coverage /\ TypeOK
      /\ \A p \in Procs : BatchInPlace(task[p])
  BY DEF TypeOK, TasksOK
<1>1. ASSUME UNCHANGED <<stored, task, history>>
      PROVE  Coverage'
  BY <1>0, <1>1 DEF Coverage, NoSilentHole, Accounted
<1>2. ASSUME NEW p \in Procs, Evaluate(p)
      PROVE  Coverage'
  <2>1. /\ \A q \in Procs \ {p} : task'[q] = task[q]
        /\ task'[p].pc # "settle"
        /\ task'[p].kind = "candle" /\ task'[p].pc # "plan" =>
                task[p].kind = "candle" /\ task[p].pc # "plan" /\ task'[p].from = task[p].from
    BY <1>0, <1>2 DEF Evaluate, Goto, Idle, Start, Task
  <2> QED
    BY <1>0, <1>2, <2>1, MoveCoverage DEF Evaluate
<1>3. ASSUME NEW p \in Procs, Plan(p)
      PROVE  Coverage'
  <2> DEFINE target == task[p].target
  <2>1. PICK latest \in Times :
          /\ IsLatest(latest)
          /\ LET plan == RecoveryPlan(latest, target)
             IN  IF target <= latest
                 THEN /\ task' = [task EXCEPT ![p] = Idle]
                      /\ UNCHANGED skipped
                 ELSE /\ task' = [task EXCEPT ![p].pc = "check", ![p].from = plan.from,
                                              ![p].step = plan.step]
                      /\ skipped' = skipped \cup
                           IF MarketClosureGap(latest, target)
                           THEN {c \in Slots \ Closed : latest < c /\ c <= plan.from}
                           ELSE {}
    BY <1>3 DEF Plan
  <2>2. stored' = stored /\ omitted' = omitted
    BY <1>3 DEF Plan
  <2>3. CASE target <= latest
    <3>1. /\ \A q \in Procs \ {p} : task'[q] = task[q]
          /\ task'[p].pc = "idle" /\ task'[p].kind = "none"
      BY <1>0, <2>1, <2>3 DEF Idle, Start
    <3> QED
      BY <1>0, <2>1, <2>2, <2>3, <3>1, MoveCoverage
  <2>4. CASE ~(target <= latest)
    <3> DEFINE plan == RecoveryPlan(latest, target)
    <3>1. /\ \A q \in Procs \ {p} : task'[q] = task[q]
          /\ task'[p].pc = "check" /\ task'[p].from = plan.from
      BY <1>0, <2>1, <2>4 DEF Task
    <3>2. Accounted \subseteq Accounted'
      BY <2>1, <2>2, <2>4 DEF Accounted
    <3>3. CoveredIn(Accounted, latest)
      BY <1>0, <2>1, CoveredStored DEF IsLatest, Coverage
    <3>4. CoveredIn(Accounted', plan.from)
      <4>1. target \in Int /\ latest \in Int
        BY <1>0 DEF Task, Times
      <4>2. CASE MarketClosureGap(latest, target)
        <5>1. {c \in Slots \ Closed : latest < c /\ c <= plan.from} \subseteq Accounted'
          BY <2>1, <2>4, <4>2 DEF Accounted
        <5>2. ASSUME NEW d \in Slots \ Closed, d <= plan.from
              PROVE  d \in Accounted'
          <6>1. CASE d <= latest
            BY <3>2, <3>3, <6>1 DEF CoveredIn
          <6>2. CASE latest < d
            BY <5>1, <5>2, <6>2
          <6> QED
            BY <4>1, <6>1, <6>2, TimeAssumption DEF Slots
        <5> QED
          BY <5>2 DEF CoveredIn
      <4>3. CASE ~MarketClosureGap(latest, target)
        <5>1. plan.from <= latest /\ plan.from \in Int
          BY <2>4, <4>1, <4>3, TimeAssumption DEF RecoveryPlan
        <5>2. ASSUME NEW d \in Slots \ Closed, d <= plan.from
              PROVE  d \in Accounted'
          <6>1. d <= latest
            BY <4>1, <5>1, <5>2, TimeAssumption DEF Slots
          <6> QED
            BY <3>2, <3>3, <6>1 DEF CoveredIn
        <5> QED
          BY <5>2 DEF CoveredIn
      <4> QED
        BY <4>2, <4>3
    <3> QED
      BY <1>0, <2>2, <3>1, <3>2, <3>4, QuietCoverage
  <2> QED
    BY <2>3, <2>4
<1>4. ASSUME NEW p \in Procs, BeginOther(p)
      PROVE  Coverage'
  <2>1. /\ \A q \in Procs \ {p} : task'[q] = task[q]
        /\ task'[p].pc # "settle"
        /\ task'[p].kind = "candle" /\ task'[p].pc # "plan" =>
                task[p].kind = "candle" /\ task[p].pc # "plan" /\ task'[p].from = task[p].from
    BY <1>0, <1>4 DEF BeginOther, Goto, Idle, Start, Task
  <2> QED
    BY <1>0, <1>4, <2>1, MoveCoverage DEF BeginOther
<1>5. ASSUME NEW p \in Procs, CheckCap(p)
      PROVE  Coverage'
  <2>1. /\ \A q \in Procs \ {p} : task'[q] = task[q]
        /\ task'[p].pc # "settle"
        /\ task'[p].kind = "candle" /\ task'[p].pc # "plan" =>
                task[p].kind = "candle" /\ task[p].pc # "plan" /\ task'[p].from = task[p].from
    BY <1>0, <1>5 DEF CheckCap, Goto, Idle, Start, Task
  <2> QED
    BY <1>0, <1>5, <2>1, MoveCoverage DEF CheckCap
<1>6. ASSUME NEW p \in Procs, RecordCredit(p)
      PROVE  Coverage'
  <2>1. /\ \A q \in Procs \ {p} : task'[q] = task[q]
        /\ task'[p].pc # "settle"
        /\ task'[p].kind = "candle" /\ task'[p].pc # "plan" =>
                task[p].kind = "candle" /\ task[p].pc # "plan" /\ task'[p].from = task[p].from
    BY <1>0, <1>6 DEF RecordCredit, Goto, Idle, Start, Task, BatchInPlace
  <2> QED
    BY <1>0, <1>6, <2>1, MoveCoverage DEF RecordCredit
<1>7. ASSUME NEW p \in Procs, SetCredit(p)
      PROVE  Coverage'
  <2>1. /\ \A q \in Procs \ {p} : task'[q] = task[q]
        /\ task'[p].pc # "settle"
        /\ task'[p].kind = "candle" /\ task'[p].pc # "plan" =>
                task[p].kind = "candle" /\ task[p].pc # "plan" /\ task'[p].from = task[p].from
    BY <1>0, <1>7 DEF SetCredit, Goto, Idle, Start, Task
  <2> QED
    BY <1>0, <1>7, <2>1, MoveCoverage DEF SetCredit
<1>8. ASSUME NEW p \in Procs, RequestOther(p)
      PROVE  Coverage'
  <2>1. /\ \A q \in Procs \ {p} : task'[q] = task[q]
        /\ task'[p].pc # "settle"
        /\ task'[p].kind = "candle" /\ task'[p].pc # "plan" =>
                task[p].kind = "candle" /\ task[p].pc # "plan" /\ task'[p].from = task[p].from
    BY <1>0, <1>8 DEF RequestOther, Goto, Idle, Start, Task
  <2> QED
    BY <1>0, <1>8, <2>1, MoveCoverage DEF RequestOther
<1>9. ASSUME NEW p \in Procs, RequestSucceeds(p)
      PROVE  Coverage'
  <2>1. /\ \A q \in Procs \ {p} : task'[q] = task[q]
        /\ task'[p].from = task[p].from
        /\ task'[p].step = task[p].step /\ task'[p].target = task[p].target
    BY <1>0, <1>9 DEF RequestSucceeds, Goto, Task
  <2>2. BatchEnd(task'[p]) = BatchEnd(task[p])
    BY <2>1 DEF BatchEnd
  <2> QED
    BY <1>0, <1>9, <2>1, <2>2, ReceiveCoverage DEF RequestSucceeds
<1>10. ASSUME NEW p \in Procs, RequestSuspect(p)
       PROVE  Coverage'
  <2>1. /\ \A q \in Procs \ {p} : task'[q] = task[q]
        /\ task'[p].from = task[p].from
        /\ task'[p].step = task[p].step /\ task'[p].target = task[p].target
    BY <1>0, <1>10 DEF RequestSuspect, AfterFailure, Goto, Task
  <2>2. BatchEnd(task'[p]) = BatchEnd(task[p])
    BY <2>1 DEF BatchEnd
  <2> QED
    BY <1>0, <1>10, <2>1, <2>2, ReceiveCoverage DEF RequestSuspect
<1>11. ASSUME NEW p \in Procs, RequestFails(p)
       PROVE  Coverage'
  <2>1. /\ \A q \in Procs \ {p} : task'[q] = task[q]
        /\ task'[p].pc # "settle"
        /\ task'[p].kind = "candle" /\ task'[p].pc # "plan" =>
                task[p].kind = "candle" /\ task[p].pc # "plan" /\ task'[p].from = task[p].from
    BY <1>0, <1>11 DEF RequestFails, Goto, Idle, Start, Task, AfterFailure
  <2> QED
    BY <1>0, <1>11, <2>1, MoveCoverage DEF RequestFails
<1>12. ASSUME NEW p \in Procs, RequestLimited(p)
       PROVE  Coverage'
  <2>1. /\ \A q \in Procs \ {p} : task'[q] = task[q]
        /\ task'[p].pc # "settle"
        /\ task'[p].kind = "candle" /\ task'[p].pc # "plan" =>
                task[p].kind = "candle" /\ task[p].pc # "plan" /\ task'[p].from = task[p].from
    BY <1>0, <1>12 DEF RequestLimited, Goto, Idle, Start, Task
  <2> QED
    BY <1>0, <1>12, <2>1, MoveCoverage DEF RequestLimited
<1>13. ASSUME NEW p \in Procs, MayRetry(p)
       PROVE  Coverage'
  <2>1. /\ \A q \in Procs \ {p} : task'[q] = task[q]
        /\ task'[p].pc # "settle"
        /\ task'[p].kind = "candle" /\ task'[p].pc # "plan" =>
                task[p].kind = "candle" /\ task[p].pc # "plan" /\ task'[p].from = task[p].from
    BY <1>0, <1>13 DEF MayRetry, Goto, Idle, Start, Task, BatchInPlace
  <2> QED
    BY <1>0, <1>13, <2>1, MoveCoverage DEF MayRetry
<1>14. ASSUME NEW p \in Procs, Settle(p)
       PROVE  Coverage'
  <2>1. /\ \A q \in Procs \ {p} : task'[q] = task[q]
        /\ task'[p].kind = "candle" => task'[p].from = BatchEnd(task[p])
        /\ task'[p].pc # "settle"
    BY <1>0, <1>14 DEF Settle, Idle, Start, Task
  <2>2. Accounted' = Accounted /\ stored' = stored
    BY <1>14 DEF Settle, Accounted
  <2>3. CoveredIn(Accounted, BatchEnd(task[p]))
    BY <1>0, <1>14 DEF Settle, Coverage
  <2> QED
    BY <1>0, <2>1, <2>2, <2>3, QuietCoverage
<1>15. ASSUME NEW p \in Procs, CountAttempt(p)
       PROVE  Coverage'
  <2>1. /\ \A q \in Procs \ {p} : task'[q] = task[q]
        /\ task'[p].pc # "settle"
        /\ task'[p].kind = "candle" /\ task'[p].pc # "plan" =>
                task[p].kind = "candle" /\ task[p].pc # "plan" /\ task'[p].from = task[p].from
    BY <1>0, <1>15 DEF CountAttempt, Goto, Idle, Start, Task, BatchInPlace
  <2> QED
    BY <1>0, <1>15, <2>1, MoveCoverage DEF CountAttempt
<1>16. ASSUME NEW p \in Procs, SetRetry(p)
       PROVE  Coverage'
  <2>1. /\ \A q \in Procs \ {p} : task'[q] = task[q]
        /\ task'[p].pc # "settle"
        /\ task'[p].kind = "candle" /\ task'[p].pc # "plan" =>
                task[p].kind = "candle" /\ task[p].pc # "plan" /\ task'[p].from = task[p].from
    BY <1>0, <1>16 DEF SetRetry, Goto, Idle, Start, Task, BatchInPlace
  <2> QED
    BY <1>0, <1>16, <2>1, MoveCoverage DEF SetRetry
<1>17. ASSUME NEW p \in Procs, Penalise(p)
       PROVE  Coverage'
  <2>1. /\ \A q \in Procs \ {p} : task'[q] = task[q]
        /\ task'[p].pc # "settle"
        /\ task'[p].kind = "candle" /\ task'[p].pc # "plan" =>
                task[p].kind = "candle" /\ task[p].pc # "plan" /\ task'[p].from = task[p].from
    BY <1>0, <1>17 DEF Penalise, Goto, Idle, Start, Task
  <2> QED
    BY <1>0, <1>17, <2>1, MoveCoverage DEF Penalise
<1>18. ASSUME NEW p \in Procs, ProcessDies(p)
       PROVE  Coverage'
  <2>1. /\ \A q \in Procs \ {p} : task'[q] = task[q]
        /\ task'[p].pc # "settle"
        /\ task'[p].kind = "candle" /\ task'[p].pc # "plan" =>
                task[p].kind = "candle" /\ task[p].pc # "plan" /\ task'[p].from = task[p].from
    BY <1>0, <1>18 DEF ProcessDies, Goto, Idle, Start, Task
  <2> QED
    BY <1>0, <1>18, <2>1, MoveCoverage DEF ProcessDies
<1> QED
  BY <1>1, <1>2, <1>3, <1>4, <1>5, <1>6, <1>7, <1>8, <1>9, <1>10, <1>11, <1>12, <1>13,
     <1>14, <1>15, <1>16, <1>17, <1>18 DEF Next, Dispatch, Tick, CacheLost, vars

\* However the batches of several processes interleave and fail, every market-open
\* candle before a stored one is stored, or was taken for closure, or was left out by
\* an answer of the provider.
THEOREM RecoveryCovers == Spec => []NoSilentHole
<1>1. Spec => []Coverage
  BY CoverageInit, CoverageStep, TypeCorrect, PTL DEF Spec
<1>2. Coverage => NoSilentHole
  BY DEF Coverage
<1> QED
  BY <1>1, <1>2, PTL

-----------------------------------------------------------------------------
(* Backtests.                                                              *)

RunStages == {"unsent", "queued", "loading", "loaded", "persisting", "inserting", "failing", "ended"}
RunWords == {"none", "RAISED", "LOST", "COMPLETED", "CALIBRATION_REQUIRED", "EVIDENCE_NOT_CONFIGURED"}

RunJob ==
    [at : RunStages \ {"unsent"}, request : Requests, claim : SUBSET Stock, next : Nat,
     loaded : SUBSET Stock, word : RunWords]

\* A task that was sent: an XAUUSD task was asked for an approved window, if it got as far as
\* loading, and has read nothing outside it.
JobSound(job) ==
    /\ job \in RunJob
    /\ job.request.market = "XAUUSD" =>
        /\ Approved(job.request.window)
        /\ \A b \in job.loaded :
               b[1] = "XAUUSD" /\ job.request.window[1] <= b[3] /\ b[3] < job.request.window[2]

\* What the rows of an XAUUSD task are called is what it has loaded, once that was verified.
JobVerified(job) ==
    job.request.market = "XAUUSD"
        /\ (job.at \in {"persisting", "inserting"} \/ (job.at = "ended" /\ job.word = "COMPLETED"))
    => job.loaded = job.claim

\* The key tells a completed run from a failure, and the data and setup of the result.
RowSound(row) ==
    /\ row.status \in {"COMPLETED", "FAILED"}
    /\ row.key.failed = (row.status = "FAILED")
    /\ row.status = "COMPLETED" /\ row.key.market = "XAUUSD" =>
        /\ row.result = [data |-> row.key.claim, setup |-> row.key.rest[2]]
        /\ \A b \in row.result.data : b[1] = "XAUUSD" /\ HistoryStart <= b[3] /\ b[3] < OosStart

\* A task that replied names a completed row.
ReplyBacked(job, rs) ==
    job.at = "ended" /\ job.word = "COMPLETED" => \E row \in rs : row.key = RunKey(job)

RunsInv ==
    /\ bars \subseteq Stock
    /\ jobs = [m \in Messages |-> jobs[m]]
    /\ \A m \in Messages : jobs[m] # Unsent => JobSound(jobs[m]) /\ JobVerified(jobs[m]) /\ ReplyBacked(jobs[m], runs)
    /\ \A row \in runs : RowSound(row)

-----------------------------------------------------------------------------
(* One task moves; rows keep their names.                                  *)

LEMMA JobFields ==
    ASSUME NEW job, JobSound(job), NEW at \in RunStages \ {"unsent"}, NEW word \in RunWords
    PROVE  LET new == [job EXCEPT !.at = at, !.word = word]
           IN  /\ JobSound(new)
               /\ new.at = at /\ new.word = word
               /\ new.loaded = job.loaded /\ new.claim = job.claim /\ new.request = job.request
<1> DEFINE new == [job EXCEPT !.at = at, !.word = word]
<1>1. /\ new \in RunJob /\ new.at = at /\ new.word = word
      /\ new.loaded = job.loaded /\ new.claim = job.claim /\ new.request = job.request
  BY DEF JobSound, RunJob
<1> QED
  BY <1>1 DEF JobSound

LEMMA MovedOn ==
    ASSUME NEW job, JobSound(job), NEW at \in RunStages \ {"unsent"}
    PROVE  LET new == [job EXCEPT !.at = at]
           IN  /\ JobSound(new)
               /\ new.at = at /\ new.word = job.word
               /\ new.loaded = job.loaded /\ new.claim = job.claim /\ new.request = job.request
<1> DEFINE new == [job EXCEPT !.at = at]
<1>1. /\ new \in RunJob /\ new.at = at /\ new.word = job.word
      /\ new.loaded = job.loaded /\ new.claim = job.claim /\ new.request = job.request
  BY DEF JobSound, RunJob
<1> QED
  BY <1>1 DEF JobSound

LEMMA EndingJob ==
    ASSUME NEW job, JobSound(job), NEW word \in RunWords, word # "COMPLETED"
    PROVE  /\ JobSound(Ending(job, word)) /\ JobVerified(Ending(job, word))
           /\ \A rs : ReplyBacked(Ending(job, word), rs)
<1> DEFINE new == Ending(job, word)
<1>1. /\ new \in RunJob /\ new.at = "ended" /\ new.word = word
      /\ new.loaded = job.loaded /\ new.request = job.request
  BY DEF JobSound, RunJob, RunStages, RunWords, Ending
<1> QED
  BY <1>1 DEF JobSound, JobVerified, ReplyBacked

LEMMA RunsJobStep ==
    ASSUME RunsInv, NEW m \in Messages, NEW job,
           jobs' = [jobs EXCEPT ![m] = job],
           JobSound(job), JobVerified(job), ReplyBacked(job, runs'),
           bars' \subseteq Stock,
           \A row \in runs' : RowSound(row),
           \A row \in runs : \E new \in runs' : new.key = row.key
    PROVE  RunsInv'
<1>1. jobs' = [n \in Messages |-> jobs'[n]] /\ jobs'[m] = job
  BY DEF RunsInv
<1>2. ASSUME NEW n \in Messages, jobs'[n] # Unsent
      PROVE  JobSound(jobs'[n]) /\ JobVerified(jobs'[n]) /\ ReplyBacked(jobs'[n], runs')
  <2>1. CASE n = m
    BY <2>1, <1>1 DEF ReplyBacked, RunKey
  <2>2. CASE n # m
    <3>1. jobs'[n] = jobs[n]
      BY <2>2 DEF RunsInv
    <3>2. JobSound(jobs[n]) /\ JobVerified(jobs[n]) /\ ReplyBacked(jobs[n], runs)
      BY <1>2, <3>1 DEF RunsInv
    <3> QED
      BY <3>1, <3>2 DEF ReplyBacked, RunKey
  <2> QED
    BY <2>1, <2>2
<1> QED
  BY <1>1, <1>2 DEF RunsInv, JobSound, JobVerified, RowSound, ReplyBacked, RunKey, Approved, Meets, Unsent

LEMMA SentJob ==
    ASSUME RunsInv, NEW m \in Messages, jobs[m].at # "unsent"
    PROVE  JobSound(jobs[m]) /\ JobVerified(jobs[m]) /\ ReplyBacked(jobs[m], runs)
  BY DEF RunsInv, Unsent

\* The steps that leave the table of runs alone need to say only what became of their task.
LEMMA RunsQuietStep ==
    ASSUME RunsInv, NEW m \in Messages, NEW job,
           jobs' = [jobs EXCEPT ![m] = job],
           JobSound(job), JobVerified(job), ReplyBacked(job, runs'),
           UNCHANGED <<bars, runs>>
    PROVE  RunsInv'
  BY RunsJobStep DEF RunsInv

-----------------------------------------------------------------------------
(* Each step.                                                              *)

LEMMA RunsStored == ASSUME RunsInv, NEW b \in Stock, StoreBar(b) PROVE RunsInv'
  BY DEF RunsInv, StoreBar, JobSound, JobVerified, RowSound, ReplyBacked, RunKey, Approved, Meets, Unsent

LEMMA RunsLaunched ==
    ASSUME RunsInv, NEW m \in Messages, NEW r \in Requests, NEW claim \in Claims(r), Launch(m, r, claim)
    PROVE  RunsInv'
<1> DEFINE job == [at |-> "queued", request |-> r, claim |-> claim, next |-> 1,
                   loaded |-> {}, word |-> "none"]
<1>1. claim \subseteq Stock
  BY DEF Claims, Queried, RunsInv
<1>2. JobSound(job) /\ JobVerified(job) /\ ReplyBacked(job, runs')
  BY <1>1 DEF Launch, JobSound, RunJob, RunStages, RunWords, JobVerified, ReplyBacked
<1> QED
  BY <1>2, RunsQuietStep DEF Launch

LEMMA RunsBegun == ASSUME RunsInv, NEW m \in Messages, BeginRun(m) PROVE RunsInv'
<1> DEFINE job == jobs[m]
           r == job.request
           started == [job EXCEPT !.at = "loading"]
<1>1. JobSound(job) /\ job.at = "queued"
  BY SentJob DEF BeginRun
<1>2. CASE r.market = "XAUUSD" /\ ~Approved(r.window)
  BY <1>1, <1>2 DEF JobSound
<1>3. CASE r.market = "XAUUSD" /\ Approved(r.window) /\ ~Resolves(r.profiles)
  <2>1. jobs' = [jobs EXCEPT ![m] = Ending(job, "CALIBRATION_REQUIRED")]
    BY <1>3 DEF BeginRun
  <2>2. "CALIBRATION_REQUIRED" \in RunWords \ {"COMPLETED"}
    BY DEF RunWords
  <2>3. /\ JobSound(Ending(job, "CALIBRATION_REQUIRED")) /\ JobVerified(Ending(job, "CALIBRATION_REQUIRED"))
        /\ ReplyBacked(Ending(job, "CALIBRATION_REQUIRED"), runs')
    BY <1>1, <2>2, EndingJob
  <2>4. UNCHANGED <<bars, runs>>
    BY DEF BeginRun
  <2> QED
    BY <2>1, <2>3, <2>4, RunsQuietStep
<1>4. CASE r.market = "XAUUSD" => Approved(r.window) /\ Resolves(r.profiles)
  <2>1. jobs' = [jobs EXCEPT ![m] = started]
    BY <1>4 DEF BeginRun
  <2>2. JobSound(started) /\ started.at = "loading"
    BY <1>1, MovedOn DEF RunStages
  <2> QED
    BY <2>1, <2>2, RunsQuietStep DEF BeginRun, JobVerified, ReplyBacked
<1> QED
  BY <1>2, <1>3, <1>4

LEMMA RunsUnlisted == ASSUME RunsInv, NEW m \in Messages, MissListing(m) PROVE RunsInv'
<1>1. JobSound(jobs[m])
  BY SentJob DEF MissListing
<1>2. jobs' = [jobs EXCEPT ![m] = Ending(jobs[m], "EVIDENCE_NOT_CONFIGURED")]
  BY DEF MissListing
<1>3. "EVIDENCE_NOT_CONFIGURED" \in RunWords \ {"COMPLETED"}
  BY DEF RunWords
<1>4. /\ JobSound(Ending(jobs[m], "EVIDENCE_NOT_CONFIGURED")) /\ JobVerified(Ending(jobs[m], "EVIDENCE_NOT_CONFIGURED"))
      /\ ReplyBacked(Ending(jobs[m], "EVIDENCE_NOT_CONFIGURED"), runs')
  BY <1>1, <1>3, EndingJob
<1>5. UNCHANGED <<bars, runs>>
  BY DEF MissListing
<1> QED
  BY <1>2, <1>4, <1>5, RunsQuietStep

LEMMA RunsLoaded == ASSUME RunsInv, NEW m \in Messages, LoadSeries(m) PROVE RunsInv'
<1> DEFINE job == jobs[m]
           read == Queried(job.request, Series[job.next])
           to == IF job.next = Len(Series) THEN "loaded" ELSE "loading"
           new == [job EXCEPT !.loaded = job.loaded \cup read, !.next = job.next + 1, !.at = to]
<1>1. JobSound(job) /\ job.at = "loading"
  BY SentJob DEF LoadSeries
<1>2. read \subseteq Stock
  BY DEF RunsInv, Queried
<1>3. job.request.market = "XAUUSD" =>
         \A b \in read : b[1] = "XAUUSD" /\ job.request.window[1] <= b[3] /\ b[3] < job.request.window[2]
  BY DEF Queried
<1>4. /\ new \in RunJob /\ new.at \in {"loading", "loaded"}
      /\ new.loaded = job.loaded \cup read /\ new.request = job.request
  <2>1. to \in {"loading", "loaded"}
    OBVIOUS
  <2>2. job \in RunJob /\ job.next + 1 \in Nat /\ job.loaded \cup read \in SUBSET Stock
    BY <1>1, <1>2 DEF JobSound, RunJob
  <2> HIDE DEF to, read
  <2> QED
    BY <2>1, <2>2 DEF RunJob, RunStages
<1>5. JobSound(new)
  BY <1>1, <1>3, <1>4 DEF JobSound
<1>6. JobVerified(new) /\ ReplyBacked(new, runs')
  BY <1>4 DEF JobVerified, ReplyBacked
<1>7. jobs' = [jobs EXCEPT ![m] = new] /\ UNCHANGED <<bars, runs>>
  BY DEF LoadSeries
<1> HIDE DEF new
<1> QED
  BY <1>5, <1>6, <1>7, RunsQuietStep

LEMMA RunsReplayed == ASSUME RunsInv, NEW m \in Messages, Run(m) PROVE RunsInv'
<1> DEFINE job == jobs[m]
           runs15m == \E b \in job.loaded : b[2] = Fifteen
           to == IF Verified(job) /\ runs15m THEN "persisting" ELSE "failing"
           new == [job EXCEPT !.at = to]
<1>1. JobSound(job)
  BY SentJob DEF Run
<1>2. CASE Verified(job) /\ job.request.quotes
  <2>1. jobs' = [jobs EXCEPT ![m] = Ending(job, "EVIDENCE_NOT_CONFIGURED")]
    BY <1>2 DEF Run
  <2>2. "EVIDENCE_NOT_CONFIGURED" \in RunWords \ {"COMPLETED"}
    BY DEF RunWords
  <2>3. /\ JobSound(Ending(job, "EVIDENCE_NOT_CONFIGURED")) /\ JobVerified(Ending(job, "EVIDENCE_NOT_CONFIGURED"))
        /\ ReplyBacked(Ending(job, "EVIDENCE_NOT_CONFIGURED"), runs')
    BY <1>1, <2>2, EndingJob
  <2>4. UNCHANGED <<bars, runs>>
    BY DEF Run
  <2> QED
    BY <2>1, <2>3, <2>4, RunsQuietStep
<1>3. CASE ~(Verified(job) /\ job.request.quotes)
  <2>1. jobs' = [jobs EXCEPT ![m] = new]
    BY <1>3 DEF Run
  <2>2. to \in RunStages \ {"unsent"} /\ to \in {"persisting", "failing"}
    BY DEF RunStages
  <2>3. /\ JobSound(new) /\ new.at = to
        /\ new.loaded = job.loaded /\ new.claim = job.claim /\ new.request = job.request
    BY <1>1, <2>2, MovedOn
  <2>4. JobVerified(new)
    BY <2>2, <2>3 DEF JobVerified, Verified
  <2>5. ReplyBacked(new, runs')
    BY <2>2, <2>3 DEF ReplyBacked
  <2> QED
    BY <2>1, <2>3, <2>4, <2>5, RunsQuietStep DEF Run
<1> QED
  BY <1>2, <1>3

\* The reply that a run is there: the task was verified before it looked for the row.
LEMMA CompletedReply ==
    ASSUME NEW job, JobSound(job), JobVerified(job), job.at \in {"persisting", "inserting"}
    PROVE  LET new == Ending(job, "COMPLETED")
           IN  JobSound(new) /\ JobVerified(new) /\ RunKey(new) = RunKey(job)
<1> DEFINE new == Ending(job, "COMPLETED")
<1>1. /\ new \in RunJob /\ new.at = "ended" /\ new.claim = job.claim
      /\ new.loaded = job.loaded /\ new.request = job.request
  BY DEF JobSound, RunJob, RunStages, RunWords, Ending
<1> QED
  BY <1>1 DEF JobSound, JobVerified, RunKey

LEMMA RunsFound == ASSUME RunsInv, NEW m \in Messages, FindRun(m) PROVE RunsInv'
<1> DEFINE job == jobs[m]
<1>1. JobSound(job) /\ JobVerified(job) /\ job.at = "persisting"
  BY SentJob DEF FindRun
<1>2. CASE Recorded(RunKey(job))
  <2> DEFINE new == Ending(job, "COMPLETED")
  <2>1. jobs' = [jobs EXCEPT ![m] = new]
    BY <1>2 DEF FindRun, Reply
  <2>2. JobSound(new) /\ JobVerified(new) /\ RunKey(new) = RunKey(job)
    BY <1>1, CompletedReply
  <2>3. ReplyBacked(new, runs')
    BY <1>2, <2>2 DEF ReplyBacked, Recorded, FindRun
  <2> QED
    BY <2>1, <2>2, <2>3, RunsQuietStep DEF FindRun
<1>3. CASE ~Recorded(RunKey(job))
  <2> DEFINE new == [job EXCEPT !.at = "inserting"]
  <2>1. jobs' = [jobs EXCEPT ![m] = new]
    BY <1>3 DEF FindRun
  <2>2. /\ JobSound(new) /\ new.at = "inserting"
        /\ new.loaded = job.loaded /\ new.claim = job.claim /\ new.request = job.request
    BY <1>1, MovedOn DEF RunStages
  <2>3. JobVerified(new) /\ ReplyBacked(new, runs')
    BY <1>1, <2>2 DEF JobVerified, ReplyBacked
  <2> QED
    BY <2>1, <2>2, <2>3, RunsQuietStep DEF FindRun
<1> QED
  BY <1>2, <1>3

\* The row of a verified task: its bars are those its name stands for, and lie in the history
\* the policy leaves to research.
LEMMA RowOfTask ==
    ASSUME NEW job, JobSound(job), JobVerified(job), job.at = "inserting"
    PROVE  RowSound(Row(RunKey(job), "COMPLETED", Outcome(job)))
<1> DEFINE w == job.request.window
<1>1. job.request \in Requests /\ job.loaded \subseteq Stock
  BY DEF JobSound, RunJob
<1>2. w[1] \in Int /\ w[2] \in Int
  BY <1>1, RunsAssumption DEF RunsAssumption
<1>3. ASSUME job.request.market = "XAUUSD", NEW b \in job.loaded
      PROVE  b[1] = "XAUUSD" /\ HistoryStart <= b[3] /\ b[3] < OosStart
  <2>1. b[3] \in Nat
    BY <1>1, RunsAssumption DEF RunsAssumption
  <2>2. HistoryStart <= w[1] /\ w[2] <= OosStart
    BY <1>3 DEF JobSound, Approved
  <2>3. b[1] = "XAUUSD" /\ w[1] <= b[3] /\ b[3] < w[2]
    BY <1>3 DEF JobSound
  <2>4. HistoryStart \in Int /\ OosStart \in Int
    BY RunsAssumption DEF RunsAssumption
  <2> QED
    BY <1>2, <2>1, <2>2, <2>3, <2>4
<1> QED
  BY <1>3 DEF RowSound, Row, RunKey, Outcome, JobVerified

LEMMA RunsInserted == ASSUME RunsInv, NEW m \in Messages, InsertRun(m) PROVE RunsInv'
<1> DEFINE job == jobs[m]
<1>1. JobSound(job) /\ JobVerified(job) /\ job.at = "inserting"
  BY SentJob DEF InsertRun
<1>2. CASE Recorded(RunKey(job))
  <2> DEFINE new == [job EXCEPT !.at = "failing"]
  <2>1. jobs' = [jobs EXCEPT ![m] = new] /\ UNCHANGED <<bars, runs>>
    BY <1>2 DEF InsertRun
  <2>2. JobSound(new) /\ new.at = "failing"
    BY <1>1, MovedOn DEF RunStages
  <2> QED
    BY <2>1, <2>2, RunsQuietStep DEF JobVerified, ReplyBacked
<1>3. CASE ~Recorded(RunKey(job))
  <2> DEFINE new == Ending(job, "COMPLETED")
             row == Row(RunKey(job), "COMPLETED", Outcome(job))
  <2>1. jobs' = [jobs EXCEPT ![m] = new] /\ runs' = runs \cup {row} /\ UNCHANGED bars
    BY <1>3 DEF InsertRun, Reply
  <2>2. JobSound(new) /\ JobVerified(new) /\ RunKey(new) = RunKey(job)
    BY <1>1, CompletedReply
  <2>3. row.key = RunKey(job)
    BY DEF Row
  <2>4. ReplyBacked(new, runs')
    BY <2>1, <2>2, <2>3 DEF ReplyBacked
  <2>5. RowSound(row)
    BY <1>1, RowOfTask
  <2>6. (\A r \in runs' : RowSound(r)) /\ bars' \subseteq Stock
    BY <2>1, <2>5 DEF RunsInv
  <2>7. \A r \in runs : \E n \in runs' : n.key = r.key
    BY <2>1
  <2> QED
    BY <2>1, <2>2, <2>4, <2>6, <2>7, RunsJobStep
<1> QED
  BY <1>2, <1>3

LEMMA RunsFailed == ASSUME RunsInv, NEW m \in Messages, RecordFailure(m) PROVE RunsInv'
<1> DEFINE job == jobs[m]
           new == Ending(job, "RAISED")
           row == Row(FailureKey(job), "FAILED", [data |-> {}, setup |-> job.request.setup])
<1>1. JobSound(job)
  BY SentJob DEF RecordFailure
<1>2. /\ jobs' = [jobs EXCEPT ![m] = new] /\ UNCHANGED bars
      /\ runs' = {r \in runs : r.key # FailureKey(job)} \cup {row}
  BY DEF RecordFailure, Reply
<1>3. JobSound(new) /\ JobVerified(new) /\ ReplyBacked(new, runs')
  <2>1. "RAISED" \in RunWords \ {"COMPLETED"}
    BY DEF RunWords
  <2> QED
    BY <1>1, <2>1, EndingJob
<1>4. row.key = FailureKey(job) /\ RowSound(row)
  BY DEF Row, FailureKey, RowSound
<1>5. (\A r \in runs' : RowSound(r)) /\ bars' \subseteq Stock
  BY <1>2, <1>4 DEF RunsInv
<1>6. ASSUME NEW r \in runs PROVE \E n \in runs' : n.key = r.key
  BY <1>2, <1>4
<1> QED
  BY <1>2, <1>3, <1>5, <1>6, RunsJobStep

LEMMA RunsBroken == ASSUME RunsInv, NEW m \in Messages, BreakRun(m) PROVE RunsInv'
<1>1. JobSound(jobs[m])
  BY SentJob DEF BreakRun
<1>2. jobs' = [jobs EXCEPT ![m] = Ending(jobs[m], "LOST")]
  BY DEF BreakRun, Reply
<1>3. "LOST" \in RunWords \ {"COMPLETED"}
  BY DEF RunWords
<1>4. /\ JobSound(Ending(jobs[m], "LOST")) /\ JobVerified(Ending(jobs[m], "LOST"))
      /\ ReplyBacked(Ending(jobs[m], "LOST"), runs')
  BY <1>1, <1>3, EndingJob
<1>5. UNCHANGED <<bars, runs>>
  BY DEF BreakRun
<1> QED
  BY <1>2, <1>4, <1>5, RunsQuietStep

-----------------------------------------------------------------------------
(* The invariant and what follows.                                         *)

LEMMA RunsBegin == RunsInit => RunsInv
  BY DEF RunsInit, RunsInv

LEMMA RunsStep == RunsInv /\ [RunsNext]_runVars => RunsInv'
<1> SUFFICES ASSUME RunsInv, [RunsNext]_runVars PROVE RunsInv'
  OBVIOUS
<1>1. CASE UNCHANGED runVars
  BY <1>1 DEF runVars, RunsInv, JobSound, JobVerified, RowSound, ReplyBacked, RunKey, Approved, Meets, Unsent
<1>2. CASE RunsNext
  BY <1>2, RunsStored, RunsLaunched, RunsBegun, RunsUnlisted, RunsLoaded, RunsReplayed, RunsFound,
     RunsInserted, RunsFailed, RunsBroken DEF RunsNext
<1> QED
  BY <1>1, <1>2

\* In any number of tasks: what a task has read lies in the window it was approved for, what a
\* row is called tells whether it is a completed run and which bars it stands for.
THEOREM RunsSound == RunsSpec => []RunsInv
<1>1. RunsInit => RunsInv
  BY RunsBegin
<1>2. RunsInv /\ [RunsNext]_runVars => RunsInv'
  BY RunsStep
<1> QED
  BY <1>1, <1>2, PTL DEF RunsSpec

\* ReplyMatchesRow (run_xauusd_backtest_task, persist_xauusd_backtest_run): for any tasks,
\* requests and bars, a task that replies has the figures of the row it names.
THEOREM RepliesMatch == RunsSpec => []ReplyMatchesRow
<1>1. RunsInv => ReplyMatchesRow
  <2> SUFFICES ASSUME RunsInv, NEW m \in Messages, jobs[m].at = "ended", jobs[m].word = "COMPLETED",
                      jobs[m].request.market = "XAUUSD"
               PROVE  \E row \in runs : row.key = RunKey(jobs[m]) /\ row.result = Outcome(jobs[m])
    BY DEF ReplyMatchesRow
  <2>1. JobVerified(jobs[m]) /\ ReplyBacked(jobs[m], runs)
    BY SentJob
  <2>2. PICK row \in runs : row.key = RunKey(jobs[m])
    BY <2>1 DEF ReplyBacked
  <2>3. RowSound(row)
    BY DEF RunsInv
  <2>4. row.key.market = "XAUUSD" /\ ~row.key.failed
        /\ row.key.claim = jobs[m].claim /\ row.key.rest[2] = jobs[m].request.setup
    BY <2>2 DEF RunKey
  <2>5. row.result = [data |-> row.key.claim, setup |-> row.key.rest[2]]
    BY <2>3, <2>4 DEF RowSound
  <2> QED
    BY <2>1, <2>2, <2>4, <2>5 DEF JobVerified, Outcome
<1> QED
  BY <1>1, RunsSound, PTL

\* ResearchIsIsolated (resolve_backtest_governance_spec and the queries of the task): no
\* completed run has seen a bar outside the history left to research.
THEOREM ResearchKeepsOut == RunsSpec => []ResearchIsIsolated
<1>1. RunsInv => ResearchIsIsolated
  BY DEF RunsInv, RowSound, ResearchIsIsolated
<1> QED
  BY <1>1, RunsSound, PTL

\* CompletedRunsStand (BacktestRun): a completed row is never changed or removed; failures, which
\* overwrite one another, have names of their own.
THEOREM RunsStand == RunsSpec => CompletedRunsStand
<1>1. ASSUME RunsInv, RunsNext, NEW row \in runs, row.status = "COMPLETED" PROVE row \in runs'
  <2>1. ~row.key.failed
    BY <1>1 DEF RunsInv, RowSound
  <2>2. ASSUME NEW m \in Messages, InsertRun(m) PROVE row \in runs'
    BY <2>2 DEF InsertRun
  <2>3. ASSUME NEW m \in Messages, RecordFailure(m) PROVE row \in runs'
    BY <2>1, <2>3 DEF RecordFailure, FailureKey
  <2> QED
    BY <1>1, <2>2, <2>3 DEF RunsNext, StoreBar, Launch, BeginRun, MissListing, LoadSeries, Run, FindRun, BreakRun
<1>2. RunsInv /\ [RunsNext]_runVars =>
          [\A row \in runs : row.status = "COMPLETED" => row \in runs']_runs
  BY <1>1 DEF runVars
<1> QED
  BY <1>2, RunsSound, PTL DEF RunsSpec, CompletedRunsStand

-----------------------------------------------------------------------------
(* The backfill.                                                           *)

HistoryStatuses == {"COMPLETED", "ALREADY_COVERED", "PARTIAL", "LOOP_GUARD_STOPPED", "PROVIDER_BOUNDARY"}
Looks == [ends : SUBSET Bars, sound : BOOLEAN, lived : BOOLEAN]
Fill ==
    [at : {"frame", "page", "received", "done"}, window : Windows, resume : BOOLEAN,
     frame : DOMAIN Frames, budget : Nat, end : Bars, attempt : Nat, page : SUBSET Bars,
     attempts : Nat, checked : BOOLEAN, statuses : Seq(HistoryStatuses),
     sinceBegin : Nat, sinceLook : Nat]

HistoryTyped ==
    /\ offered \in [FrameSet -> SUBSET Bars] /\ clock \in Bars
    /\ candles \in [FrameSet -> SUBSET Bars]
    /\ usage \in Nat
    /\ looks \in [FrameSet -> Looks]
    /\ fill \in Fill \cup {NoFill}

\* Attempts since the last look at the provider's count, when there was one.
SinceLook(f) ==
    IF f.attempts % RecheckEvery = 0 /\ ~f.checked THEN RecheckEvery ELSE f.attempts % RecheckEvery

\* The budget was what was left when the run began, and something was left at each look.
CreditsKept ==
    fill.at \in {"frame", "page", "received"} =>
        /\ fill.attempts <= fill.budget
        /\ usage + fill.budget <= (Ceiling - Reserve) + fill.attempts + fill.sinceBegin
        /\ fill.attempts < RecheckEvery \/ (fill.attempts = RecheckEvery /\ ~fill.checked) =>
               fill.sinceLook = fill.sinceBegin
        /\ fill.attempts >= RecheckEvery =>
               usage < (Ceiling - Reserve) + fill.sinceLook + SinceLook(fill)

\* The rows of a frame that only the backfill has written, to one end: no hole before that end.
HistoryWhole(f) ==
    LET l == looks[f]
    IN  /\ l.ends = {} /\ ~l.lived => candles[f] = {}
        /\ l.sound => \A e \in l.ends : e <= clock
        /\ l.sound /\ ~l.lived =>
             \A e \in Bars : l.ends = {e} =>
                \A b \in candles[f] :
                    b < e /\ \A c \in offered[f] : b <= c /\ c < e => c \in candles[f]

\* The looks say nothing against the frame.
Fair(f) == looks[f].ends = {fill.window[2]} /\ looks[f].sound

\* The run has all rows from the end of its next page on, and a page has no hole.
PagesWhole ==
    fill # NoFill =>
        /\ \A i \in DOMAIN fill.statuses : fill.window[2] \in looks[Frames[i]].ends
        /\ fill.at # "done" => Len(fill.statuses) = fill.frame - 1
        /\ fill.at = "done" => Len(fill.statuses) <= Len(Frames)
        /\ fill.at \in {"page", "received"} =>
             /\ fill.window[2] \in looks[Frame].ends /\ fill.end <= fill.window[2]
             /\ Fair(Frame) => \A c \in offered[Frame] : fill.end <= c /\ c < fill.window[2] => c \in candles[Frame]
        /\ fill.at = "received" /\ Fair(Frame) =>
             \A b \in fill.page, c \in offered[Frame] : b <= c /\ c < fill.end => c \in fill.page

\* What the steps keep: no frame and no page has a hole.
HolesNowhere == (\A f \in FrameSet : HistoryWhole(f)) /\ PagesWhole /\ FilledIsWhole

\* A multiple of R is not strictly between two neighbours.
LEMMA Multiples ==
    ASSUME NEW R \in Nat, R > 0, NEW d \in Int
    PROVE  /\ d >= 2 => R * d >= 2 * R
           /\ d <= -1 => R * d <= -R
  OBVIOUS

\* The remainder of the next number.
LEMMA NextRemainder ==
    ASSUME NEW a \in Nat, NEW R \in Nat, R > 0
    PROVE  (a + 1) % R = (IF a % R = R - 1 THEN 0 ELSE (a % R) + 1)
<1> DEFINE q == a \div R
           q2 == (a + 1) \div R
           r == a % R
           r2 == (a + 1) % R
<1>1. /\ q \in Int /\ r \in 0..(R - 1) /\ a = R * q + r
      /\ q2 \in Int /\ r2 \in 0..(R - 1) /\ a + 1 = R * q2 + r2
  OBVIOUS
<1> HIDE DEF q, q2, r, r2
<1>2. R * (q2 - q) = r + 1 - r2
  BY <1>1
<1>3. r + 1 - r2 < 2 * R /\ r + 1 - r2 > -R
  BY <1>1
<1>4. q2 - q \in {0, 1}
  BY <1>1, <1>2, <1>3, Multiples
<1>5. r + 1 - r2 \in {0, R}
  BY <1>2, <1>4
<1>6. r2 = (IF r = R - 1 THEN 0 ELSE r + 1)
  BY <1>1, <1>5
<1> QED
  BY <1>6 DEF r, r2

\* The members of S up to x.
UpTo(x, S) == {c \in S : c <= x}

\* Every set of bars that is not empty has a first one.
LEMMA LeastIsThere ==
    ASSUME NEW S \in SUBSET Nat, S # {}
    PROVE  Least(S) \in S /\ \A c \in S : Least(S) <= c
<1> DEFINE T == {UpTo(x, S) : x \in S}
<1>1. \A x \in S : UpTo(x, S) \in SUBSET S /\ IsFiniteSet(UpTo(x, S))
  <2> TAKE x \in S
  <2>1. UpTo(x, S) \in SUBSET Nat /\ \A s \in UpTo(x, S) : s <= x
    BY DEF UpTo
  <2> QED
    BY <2>1, FS_BoundedSetOfNaturals DEF UpTo
<1>2. T \subseteq FiniteSubsetsOf(S)
  BY <1>1 DEF FiniteSubsetsOf
<1>3. T # {}
  OBVIOUS
<1>4. PICK t \in T : \A u \in T : ~(<<u, t>> \in StrictSubsetOrdering(S))
  BY <1>2, <1>3, FS_StrictSubsetOrderingWellFounded, WFMin
<1>5. PICK x \in S : t = UpTo(x, S)
  OBVIOUS
<1>6. ASSUME NEW y \in S, y < x PROVE FALSE
  <2>1. x \in Nat /\ y \in Nat /\ S \subseteq Nat
    OBVIOUS
  <2>2. ASSUME NEW d \in UpTo(y, S) PROVE d \in UpTo(x, S)
    <3>1. d \in S /\ d \in Nat /\ d <= y
      BY <2>1 DEF UpTo
    <3>2. d <= x
      BY <1>6, <2>1, <3>1
    <3> QED
      BY <3>1, <3>2 DEF UpTo
  <2>3. x \in UpTo(x, S) /\ x \notin UpTo(y, S)
    BY <1>6, <2>1 DEF UpTo
  <2> QED
    BY <1>1, <1>4, <1>5, <2>2, <2>3 DEF StrictSubsetOrdering
<1>7. \A y \in S : x <= y
  BY <1>6
<1> QED
  BY <1>7 DEF Least

\* A page holds with a bar every later one it could hold.
LEMMA NewestIsUpward ==
    ASSUME NEW n \in Int, NEW S \in SUBSET Nat, IsFiniteSet(S), NEW b \in Newest(n, S), NEW c \in S, b <= c
    PROVE  c \in Newest(n, S)
<1> DEFINE B == {d \in S : d >= b}
           C == {d \in S : d >= c}
<1>1. C \subseteq B
  <2>1. b \in Nat /\ c \in Nat /\ S \subseteq Nat
    BY DEF Newest
  <2>2. ASSUME NEW d \in C PROVE d \in B
    <3>1. d \in Nat /\ d >= c
      BY <2>1
    <3>2. d >= b
      BY <2>1, <3>1
    <3> QED
      BY <3>2
  <2> QED
    BY <2>2
<1>2. B \subseteq S
  OBVIOUS
<1>3. IsFiniteSet(B) /\ Cardinality(B) <= n /\ Cardinality(B) \in Nat
  BY <1>2, FS_Subset, FS_CardinalityType DEF Newest
<1>4. Cardinality(C) <= Cardinality(B) /\ Cardinality(C) \in Nat
  BY <1>1, <1>3, FS_Subset, FS_CardinalityType
<1>5. Cardinality(C) <= n
  BY <1>3, <1>4
<1> QED
  BY <1>5 DEF Newest

-----------------------------------------------------------------------------
(* Types.                                                                  *)

LEMMA OpenFill ==
    ASSUME HistoryTyped
    PROVE  /\ fill.at \in {"frame", "page", "received"} => fill \in Fill
           /\ fill \in Fill => fill # NoFill /\ fill.at # "idle"
           /\ fill.at = "done" => fill \in Fill
           /\ fill # NoFill => fill \in Fill
  BY DEF HistoryTyped, NoFill, Fill

LEMMA FrameIsOne ==
    ASSUME HistoryTyped, fill \in Fill
    PROVE  /\ Frame \in FrameSet /\ fill.frame \in 1..Len(Frames) /\ Len(Frames) \in Nat
           /\ fill.window[1] \in Bars /\ fill.window[2] \in Bars /\ fill.window[1] < fill.window[2]
           /\ candles[Frame] \subseteq Bars /\ offered[Frame] \subseteq Bars
           /\ looks[Frame] \in Looks
           /\ Bars \subseteq Nat
<1> USE HistoryAssumption DEF HistoryAssumption
<1>1. fill.frame \in DOMAIN Frames /\ DOMAIN Frames = 1..Len(Frames) /\ Len(Frames) \in Nat
  BY DEF Fill
<1>2. Frame \in FrameSet
  BY <1>1 DEF Frame, FrameSet
<1>3. fill.window \in {w \in Bars \X Bars : w[1] < w[2]}
  BY DEF Fill
<1>4. fill.window[1] \in Bars /\ fill.window[2] \in Bars /\ fill.window[1] < fill.window[2]
  BY <1>3
<1>5. Bars \subseteq Nat
  BY DEF Bars
<1> QED
  BY <1>1, <1>2, <1>4, <1>5 DEF HistoryTyped

LEMMA StatusFields ==
    ASSUME HistoryTyped, fill \in Fill, NEW s \in HistoryStatuses
    PROVE  /\ WithStatus(s) \in Fill /\ Halted \in Fill
           /\ WithStatus(s).window = fill.window /\ Halted.window = fill.window
           /\ WithStatus(s).statuses = Append(fill.statuses, s)
           /\ Halted.statuses = Append(fill.statuses, "PARTIAL")
           /\ WithStatus(s).at = (IF fill.frame = Len(Frames) THEN "done" ELSE "frame")
           /\ WithStatus(s).frame = (IF fill.frame = Len(Frames) THEN fill.frame ELSE fill.frame + 1)
           /\ Halted.at = "done" /\ Halted.frame = fill.frame
           /\ \A k \in {"budget", "attempts", "checked", "sinceBegin", "sinceLook"} :
                 WithStatus(s)[k] = fill[k]
<1>1. fill.frame \in 1..Len(Frames) /\ DOMAIN Frames = 1..Len(Frames) /\ Len(Frames) \in Nat
  BY FrameIsOne, HistoryAssumption DEF HistoryAssumption
<1>2. Append(fill.statuses, s) \in Seq(HistoryStatuses) /\ Append(fill.statuses, "PARTIAL") \in Seq(HistoryStatuses)
  BY DEF Fill, HistoryStatuses
<1>3. (IF fill.frame = Len(Frames) THEN fill.frame ELSE fill.frame + 1) \in DOMAIN Frames
  BY <1>1
<1>4. WithStatus(s) \in Fill
  BY <1>2, <1>3 DEF WithStatus, Fill
<1>5. Halted \in Fill
  BY <1>2 DEF Halted, Fill
<1> QED
  BY <1>4, <1>5 DEF WithStatus, Halted, Fill

LEMMA PageIsBars ==
    ASSUME HistoryTyped, fill \in Fill
    PROVE  /\ Parsed(Page(Frame, fill.end), fill.end) \subseteq offered[Frame]
           /\ Inside \subseteq Bars /\ Inside \subseteq Nat
  BY FrameIsOne DEF Parsed, Page, Newest, Inside, Fill

LEMMA NextHistoryTyped == HistoryTyped /\ [HistoryNext]_historyVars => HistoryTyped'
<1> SUFFICES ASSUME HistoryTyped, [HistoryNext]_historyVars PROVE HistoryTyped'
  OBVIOUS
<1> USE HistoryAssumption DEF HistoryAssumption
<1>0. /\ offered \in [FrameSet -> SUBSET Bars] /\ clock \in Bars /\ candles \in [FrameSet -> SUBSET Bars]
      /\ usage \in Nat /\ looks \in [FrameSet -> Looks] /\ fill \in Fill \cup {NoFill}
  BY DEF HistoryTyped
<1>a. fill \in Fill => WithStatus("COMPLETED") \in Fill /\ WithStatus("ALREADY_COVERED") \in Fill
                       /\ WithStatus("LOOP_GUARD_STOPPED") \in Fill /\ WithStatus("PROVIDER_BOUNDARY") \in Fill
                       /\ Halted \in Fill
  BY StatusFields DEF HistoryStatuses
<1>b. fill.at \in {"frame", "page", "received"} => fill \in Fill
  BY OpenFill
<1>1. ASSUME NEW w \in Windows, NEW resume \in BOOLEAN, BeginFill(w, resume) PROVE HistoryTyped'
  <2>1. w[2] \in Bars
    BY DEF HistoryAssumption
  <2>2. 1 \in DOMAIN Frames
    OBVIOUS
  <2>3. (IF MaxRequests < Allowance THEN MaxRequests ELSE Allowance) \in Nat
    BY <1>0, <1>1 DEF BeginFill, Allowance
  <2>4. <<>> \in Seq(HistoryStatuses)
    OBVIOUS
  <2>5. fill' \in Fill
    BY <1>1, <2>1, <2>2, <2>3, <2>4 DEF BeginFill, Fill
  <2> QED
    BY <1>0, <1>1, <2>5 DEF BeginFill, table, HistoryTyped
<1>2. CASE ChooseEnd
  <2>1. fill \in Fill /\ fill.at = "frame"
    BY <1>2, <1>b DEF ChooseEnd
  <2>2. /\ Frame \in FrameSet /\ fill.window[1] \in Bars /\ fill.window[2] \in Bars
        /\ candles[Frame] \subseteq Bars /\ Bars \subseteq Nat /\ looks[Frame] \in Looks
    BY <2>1, FrameIsOne
  <2> DEFINE found == IF fill.resume THEN candles[Frame] \cap Window(fill.window) ELSE {}
             end   == IF found = {} THEN fill.window[2] ELSE Least(found)
  <2>3. end \in Bars
    <3>1. found \in SUBSET Nat /\ found \subseteq Bars
      BY <2>2
    <3> QED
      BY <2>2, <3>1, LeastIsThere
  <2>4. fill' = IF end <= fill.window[1] THEN WithStatus("ALREADY_COVERED")
                ELSE [fill EXCEPT !.at = "page", !.end = end, !.attempt = 1]
    BY <1>2 DEF ChooseEnd
  <2> HIDE DEF end, found
  <2>5. [fill EXCEPT !.at = "page", !.end = end, !.attempt = 1] \in Fill
    BY <2>1, <2>3 DEF Fill
  <2>6. fill' \in Fill
    BY <1>a, <2>1, <2>4, <2>5
  <2>7. looks' \in [FrameSet -> Looks]
    BY <1>0, <1>2, <2>1, <2>2 DEF ChooseEnd, Looked, Looks
  <2> QED
    BY <1>0, <1>2, <2>6, <2>7 DEF ChooseEnd, table, HistoryTyped
<1>3. CASE RunOutOfBudget \/ Recheck \/ LeaveFrame \/ BreakFill
  <2>1. fill.at \in {"page"} => [fill EXCEPT !.checked = TRUE, !.sinceLook = 0] \in Fill
    BY <1>b DEF Fill
  <2>2. fill' \in Fill \cup {NoFill}
    BY <1>3, <1>a, <1>b, <2>1 DEF RunOutOfBudget, Recheck, LeaveFrame, BreakFill
  <2> QED
    BY <1>0, <1>3, <2>2 DEF RunOutOfBudget, Recheck, LeaveFrame, BreakFill, table, HistoryTyped
<1>4. ASSUME NEW outcome \in {"answered", "transient", "refused"}, Request(outcome) PROVE HistoryTyped'
  <2>1. fill \in Fill
    BY <1>4, <1>b DEF Request
  <2>2. Parsed(Page(Frame, fill.end), fill.end) \in SUBSET Bars
    BY <2>1, PageIsBars, FrameIsOne
  <2> DEFINE got == Parsed(Page(Frame, fill.end), fill.end)
  <2>7. fill.attempts + 1 \in Nat /\ fill.attempt + 1 \in Nat
    BY <2>1 DEF Fill
  <2>8. Counted(fill) \in Fill /\ Counted(fill).attempt = fill.attempt
    <3>1. [fill EXCEPT !.attempts = fill.attempts + 1, !.checked = FALSE] \in Fill
      BY <2>1, <2>7 DEF Fill
    <3> QED
      BY <2>1, <3>1 DEF Counted, Fill
  <2>3. [Counted(fill) EXCEPT !.at = "received", !.page = got] \in Fill
    <3> HIDE DEF got
    <3>1. got \in SUBSET Bars
      BY <2>2 DEF got
    <3> QED
      BY <2>8, <3>1 DEF Fill
  <2>4. [Counted(fill) EXCEPT !.attempt = @ + 1] \in Fill
    <3>1. Counted(fill).attempt + 1 \in Nat
      BY <2>7, <2>8
    <3> QED
      BY <2>8, <3>1 DEF Fill
  <2>5. fill' \in Fill \cup {NoFill}
    BY <1>4, <2>3, <2>4 DEF Request
  <2>6. usage' \in Nat
    BY <1>0, <1>4 DEF Request
  <2> QED
    BY <1>0, <1>4, <2>5, <2>6 DEF Request, table, HistoryTyped
<1>5. CASE PersistPage
  <2>1. fill \in Fill
    BY <1>5, <1>b DEF PersistPage
  <2>2. Inside \in SUBSET Bars /\ Inside \subseteq Nat /\ Inside # {} /\ Frame \in FrameSet
    BY <1>5, <2>1, PageIsBars, FrameIsOne DEF PersistPage
  <2>3. Least(Inside) \in Bars
    BY <2>2, LeastIsThere
  <2>4. [fill EXCEPT !.at = "page", !.attempt = 1, !.end = Least(Inside)] \in Fill
    BY <2>1, <2>3 DEF Fill
  <2>5. fill' \in Fill
    BY <1>5, <1>a, <2>1, <2>4 DEF PersistPage
  <2>6. candles' \in [FrameSet -> SUBSET Bars]
    BY <1>0, <1>5, <2>2 DEF PersistPage
  <2> QED
    BY <1>0, <1>5, <2>5, <2>6 DEF PersistPage, HistoryTyped
<1>6. CASE NextBar
  <2>1. clock' \in Bars
    BY <1>0, <1>6 DEF NextBar, Bars
  <2> QED
    BY <1>0, <1>6, <2>1 DEF NextBar, table, filling, HistoryTyped
<1>7. ASSUME NEW f \in FrameSet, NEW to \in Bars, IngestLive(f, to) PROVE HistoryTyped'
  <2>1. candles' \in [FrameSet -> SUBSET Bars]
    BY <1>0, <1>7 DEF IngestLive
  <2>2. looks' \in [FrameSet -> Looks]
    BY <1>0, <1>7 DEF IngestLive, Looks
  <2> QED
    BY <1>0, <1>7, <2>1, <2>2 DEF IngestLive, HistoryTyped
<1>8. CASE RequestElsewhere
  <2>1. ASSUME fill \in Fill PROVE [fill EXCEPT !.sinceBegin = @ + 1, !.sinceLook = @ + 1] \in Fill
    <3>1. fill.sinceBegin + 1 \in Nat /\ fill.sinceLook + 1 \in Nat
      BY <2>1 DEF Fill
    <3> QED
      BY <2>1, <3>1 DEF Fill
  <2>2. fill' \in Fill \cup {NoFill}
    BY <1>0, <1>8, <2>1 DEF RequestElsewhere, NoFill
  <2>3. usage' \in Nat
    BY <1>0, <1>8 DEF RequestElsewhere
  <2> QED
    BY <1>0, <1>8, <2>2, <2>3 DEF RequestElsewhere, table, HistoryTyped
<1>9. CASE UNCHANGED historyVars
  BY <1>0, <1>9 DEF historyVars, HistoryTyped
<1> QED
  BY <1>1, <1>2, <1>3, <1>4, <1>5, <1>6, <1>7, <1>8, <1>9 DEF HistoryNext

-----------------------------------------------------------------------------
(* Credits.                                                                *)

LEMMA CreditNumbers ==
    ASSUME HistoryTyped, fill \in Fill
    PROVE  /\ fill.attempts \in Nat /\ fill.budget \in Nat /\ fill.sinceBegin \in Nat
           /\ fill.sinceLook \in Nat /\ fill.checked \in BOOLEAN /\ usage \in Nat
           /\ fill.attempts % RecheckEvery \in 0..(RecheckEvery - 1)
           /\ Ceiling \in Nat /\ Reserve \in Nat /\ RecheckEvery \in Nat /\ RecheckEvery > 0
<1>1. /\ fill.attempts \in Nat /\ fill.budget \in Nat /\ fill.sinceBegin \in Nat
      /\ fill.sinceLook \in Nat /\ fill.checked \in BOOLEAN /\ usage \in Nat
  BY DEF HistoryTyped, Fill
<1>2. Ceiling \in Nat /\ Reserve \in Nat /\ RecheckEvery \in Nat /\ RecheckEvery > 0
  BY HistoryAssumption DEF HistoryAssumption
<1> QED
  BY <1>1, <1>2

\* The counters of the run are what they were.
LEMMA CreditsStay ==
    ASSUME HistoryTyped, CreditsKept, fill \in Fill, fill.at \in {"frame", "page", "received"},
           usage' = usage, fill' \in Fill,
           \A k \in {"budget", "attempts", "checked", "sinceBegin", "sinceLook"} : fill'[k] = fill[k]
    PROVE  CreditsKept'
<1>1. /\ fill'.budget = fill.budget /\ fill'.attempts = fill.attempts /\ fill'.checked = fill.checked
      /\ fill'.sinceBegin = fill.sinceBegin /\ fill'.sinceLook = fill.sinceLook
  BY DEF Fill
<1> QED
  BY <1>1 DEF CreditsKept, SinceLook

LEMMA NextCredits == HistoryTyped /\ HistoryTyped' /\ CreditsKept /\ [HistoryNext]_historyVars => CreditsKept'
<1> SUFFICES ASSUME HistoryTyped, HistoryTyped', CreditsKept, [HistoryNext]_historyVars PROVE CreditsKept'
  OBVIOUS
<1>a. fill.at \in {"frame", "page", "received"} => fill \in Fill
  BY OpenFill
<1>b. fill'.at \in {"frame", "page", "received"} => fill' \in Fill
  BY DEF HistoryTyped, NoFill
<1>c. ASSUME NEW s \in HistoryStatuses, fill \in Fill, fill.at \in {"frame", "page", "received"},
             fill' = WithStatus(s) \/ fill' = Halted, usage' = usage
      PROVE  CreditsKept'
  <2>1. CASE fill' = WithStatus(s)
    <3>1. fill' \in Fill /\ \A k \in {"budget", "attempts", "checked", "sinceBegin", "sinceLook"} : fill'[k] = fill[k]
      BY <1>c, <2>1, StatusFields
    <3> QED
      BY <1>c, <3>1, CreditsStay
  <2>2. CASE fill' = Halted
    BY <1>c, <2>2, StatusFields DEF CreditsKept
  <2> QED
    BY <1>c, <2>1, <2>2
<1>1. ASSUME NEW w \in Windows, NEW resume \in BOOLEAN, BeginFill(w, resume) PROVE CreditsKept'
  <2>1. /\ fill'.attempts = 0 /\ fill'.sinceBegin = 0 /\ fill'.sinceLook = 0 /\ fill'.checked = TRUE
        /\ fill'.budget = (IF MaxRequests < Allowance THEN MaxRequests ELSE Allowance)
        /\ usage' = usage /\ Allowance > 0
    BY <1>1 DEF BeginFill
  <2>2. MaxRequests \in Nat /\ Ceiling \in Nat /\ Reserve \in Nat /\ RecheckEvery \in Nat /\ RecheckEvery > 0 /\ usage \in Nat
    BY HistoryAssumption DEF HistoryAssumption, HistoryTyped
  <2>3. Allowance = Ceiling - usage - Reserve
    BY <2>1, <2>2 DEF Allowance
  <2>4. usage + fill'.budget <= Ceiling - Reserve /\ 0 <= fill'.budget
    BY <2>1, <2>2, <2>3
  <2> QED
    BY <2>1, <2>2, <2>4 DEF CreditsKept
<1>2. CASE ChooseEnd
  <2>1. fill \in Fill /\ fill.at = "frame" /\ usage' = usage
    BY <1>2, <1>a DEF ChooseEnd
  <2> DEFINE found == IF fill.resume THEN candles[Frame] \cap Window(fill.window) ELSE {}
             end   == IF found = {} THEN fill.window[2] ELSE Least(found)
  <2>4. fill' = IF end <= fill.window[1] THEN WithStatus("ALREADY_COVERED")
                ELSE [fill EXCEPT !.at = "page", !.end = end, !.attempt = 1]
    BY <1>2 DEF ChooseEnd
  <2> HIDE DEF end, found
  <2>5. CASE fill' = WithStatus("ALREADY_COVERED")
    BY <1>c, <2>1, <2>5 DEF HistoryStatuses
  <2>6. CASE fill' = [fill EXCEPT !.at = "page", !.end = end, !.attempt = 1]
    <3>1. fill' \in Fill
      BY <2>1, <2>6, <1>b DEF Fill
    <3>2. \A k \in {"budget", "attempts", "checked", "sinceBegin", "sinceLook"} : fill'[k] = fill[k]
      BY <2>1, <2>6 DEF Fill
    <3> QED
      BY <2>1, <3>1, <3>2, CreditsStay
  <2> QED
    BY <2>4, <2>5, <2>6
<1>3. CASE RunOutOfBudget
  BY <1>3, <1>a, <1>c DEF RunOutOfBudget, HistoryStatuses
<1>4. CASE Recheck
  <2>1. fill \in Fill /\ fill.at = "page" /\ usage' = usage /\ RecheckDue /\ fill.attempts < fill.budget
    BY <1>4, <1>a DEF Recheck
  <2>2. CASE Allowance = 0
    BY <1>4, <2>1, <2>2, <1>c DEF Recheck, HistoryStatuses
  <2>3. CASE Allowance # 0
    <3>1. /\ fill'.attempts = fill.attempts /\ fill'.sinceBegin = fill.sinceBegin /\ fill'.sinceLook = 0
          /\ fill'.checked = TRUE /\ fill'.budget = fill.budget
      BY <1>4, <2>1, <2>3 DEF Recheck, Fill
    <3>2. usage < Ceiling - Reserve
      BY <2>3, CreditNumbers, <2>1 DEF Allowance
    <3>3. fill.attempts > 0 /\ fill.attempts % RecheckEvery = 0
      BY <2>1 DEF RecheckDue
    <3>4. fill.attempts >= RecheckEvery
      BY <3>3, <2>1, CreditNumbers
    <3>5. SinceLook(fill') = 0
      BY <3>1, <3>3 DEF SinceLook
    <3>6. /\ fill.attempts <= fill.budget
          /\ usage + fill.budget <= (Ceiling - Reserve) + fill.attempts + fill.sinceBegin
      BY <2>1 DEF CreditsKept
    <3>7. ~(fill.attempts < RecheckEvery)
      BY <3>4, <2>1, CreditNumbers
    <3>8. usage < (Ceiling - Reserve) + 0 + 0
      BY <3>2, <2>1, CreditNumbers
    <3> QED
      BY <2>1, <3>1, <3>5, <3>6, <3>7, <3>8 DEF CreditsKept
  <2> QED
    BY <2>2, <2>3
<1>5. ASSUME NEW outcome \in {"answered", "transient", "refused"}, Request(outcome) PROVE CreditsKept'
  <2>1. fill \in Fill /\ fill.at = "page" /\ usage' = usage + 1 /\ ~RecheckDue /\ fill.attempts < fill.budget
    BY <1>5, <1>a DEF Request
  <2>2. CASE fill' = NoFill
    BY <2>2 DEF NoFill, CreditsKept
  <2>3. CASE fill' # NoFill
    <3>1. /\ fill'.attempts = fill.attempts + 1 /\ fill'.checked = FALSE /\ fill'.budget = fill.budget
          /\ fill'.sinceBegin = fill.sinceBegin /\ fill'.sinceLook = fill.sinceLook
      BY <1>5, <2>1, <2>3 DEF Request, Counted, Fill
    <3> DEFINE R == RecheckEvery
               a == fill.attempts
               limit == Ceiling - Reserve
    <3>2. /\ a \in Nat /\ fill.budget \in Nat /\ fill.sinceBegin \in Nat /\ fill.sinceLook \in Nat
          /\ usage \in Nat /\ a % R \in 0..(R - 1) /\ R \in Nat /\ R > 0 /\ limit \in Int
      BY <2>1, CreditNumbers
    <3>3. /\ a <= fill.budget
          /\ usage + fill.budget <= limit + a + fill.sinceBegin
          /\ a < R => fill.sinceLook = fill.sinceBegin
          /\ a >= R => usage < limit + fill.sinceLook + SinceLook(fill)
      BY <2>1 DEF CreditsKept
    <3>4. a >= R => SinceLook(fill) = a % R
      BY <2>1, <3>2 DEF RecheckDue, SinceLook
    <3>5. (a + 1) % R = (IF a % R = R - 1 THEN 0 ELSE (a % R) + 1)
      BY <3>2, NextRemainder
    <3>6. SinceLook(fill') = IF (a + 1) % R = 0 THEN R ELSE (a + 1) % R
      BY <3>1 DEF SinceLook
    <3> HIDE DEF R, a, limit
    <3>7. SinceLook(fill') = (a % R) + 1
      BY <3>2, <3>5, <3>6
    <3>8. usage + 1 + fill.budget <= limit + (a + 1) + fill.sinceBegin
      BY <3>2, <3>3
    <3>9. a + 1 <= fill.budget
      BY <2>1, <3>2 DEF a
    <3>10. a + 1 < R \/ a + 1 = R => fill.sinceLook = fill.sinceBegin
      BY <3>2, <3>3
    <3>11. a + 1 >= R => usage + 1 < limit + fill.sinceLook + ((a % R) + 1)
      <4>1. CASE a >= R
        BY <3>2, <3>3, <3>4, <4>1
      <4>2. CASE a + 1 = R
        <5>1. a % R = a
          BY <3>2, <4>2
        <5>2. fill.sinceLook = fill.sinceBegin
          BY <3>10, <4>2
        <5> QED
          BY <3>2, <3>3, <3>9, <4>2, <5>1, <5>2
      <4> QED
        BY <3>2, <4>1, <4>2
    <3>12. /\ fill'.attempts <= fill'.budget
           /\ usage' + fill'.budget <= limit + fill'.attempts + fill'.sinceBegin
      BY <2>1, <3>1, <3>8, <3>9 DEF a
    <3>13. fill'.attempts < R \/ (fill'.attempts = R /\ ~fill'.checked) => fill'.sinceLook = fill'.sinceBegin
      BY <3>1, <3>10 DEF a
    <3>14. fill'.attempts >= R => usage' < limit + fill'.sinceLook + SinceLook(fill')
      BY <2>1, <3>1, <3>7, <3>11 DEF a
    <3> QED
      BY <3>12, <3>13, <3>14 DEF CreditsKept, R, limit
  <2> QED
    BY <2>2, <2>3
<1>6. CASE LeaveFrame
  BY <1>6, <1>a, <1>c DEF LeaveFrame, HistoryStatuses
<1>7. CASE PersistPage
  <2>1. fill \in Fill /\ fill.at = "received" /\ usage' = usage
    BY <1>7, <1>a DEF PersistPage
  <2>2. CASE fill' = WithStatus("COMPLETED")
    BY <2>1, <2>2, <1>c DEF HistoryStatuses
  <2>3. CASE fill' = [fill EXCEPT !.at = "page", !.attempt = 1, !.end = Least(Inside)]
    <3>1. \A k \in {"budget", "attempts", "checked", "sinceBegin", "sinceLook"} : fill'[k] = fill[k]
      BY <2>1, <2>3 DEF Fill
    <3>2. fill' \in Fill
      BY <2>1, <2>3, <1>b DEF Fill
    <3> QED
      BY <2>1, <3>1, <3>2, CreditsStay
  <2> QED
    BY <1>7, <2>2, <2>3 DEF PersistPage
<1>8. CASE BreakFill
  BY <1>8 DEF BreakFill, NoFill, CreditsKept
<1>9. CASE RequestElsewhere
  <2>1. CASE fill.at \in {"idle", "done"}
    BY <1>9, <2>1 DEF RequestElsewhere, CreditsKept
  <2>2. CASE fill.at \notin {"idle", "done"}
    <3>1. fill \in Fill /\ usage' = usage + 1
      BY <1>9, <2>2, OpenFill DEF RequestElsewhere, NoFill
    <3>2. /\ fill'.attempts = fill.attempts /\ fill'.checked = fill.checked /\ fill'.budget = fill.budget
          /\ fill'.sinceBegin = fill.sinceBegin + 1 /\ fill'.sinceLook = fill.sinceLook + 1
          /\ fill'.at = fill.at
      BY <1>9, <2>2, <3>1 DEF RequestElsewhere, Fill
    <3>3. SinceLook(fill') = SinceLook(fill) /\ SinceLook(fill) \in Int
      BY <3>1, <3>2, CreditNumbers DEF SinceLook
    <3>4. SUFFICES ASSUME fill.at \in {"frame", "page", "received"} PROVE CreditsKept'
      BY <3>2 DEF CreditsKept
    <3>5. /\ fill.attempts <= fill.budget
          /\ usage + fill.budget <= (Ceiling - Reserve) + fill.attempts + fill.sinceBegin
          /\ fill.attempts < RecheckEvery \/ (fill.attempts = RecheckEvery /\ ~fill.checked) =>
                 fill.sinceLook = fill.sinceBegin
          /\ fill.attempts >= RecheckEvery =>
                 usage < (Ceiling - Reserve) + fill.sinceLook + SinceLook(fill)
      BY <3>4 DEF CreditsKept
    <3>6. usage + 1 + fill.budget <= (Ceiling - Reserve) + fill.attempts + (fill.sinceBegin + 1)
      BY <3>1, <3>5, CreditNumbers
    <3>7. fill.attempts >= RecheckEvery =>
                 usage + 1 < (Ceiling - Reserve) + (fill.sinceLook + 1) + SinceLook(fill)
      BY <3>1, <3>3, <3>5, CreditNumbers
    <3> QED
      BY <3>1, <3>2, <3>3, <3>5, <3>6, <3>7 DEF CreditsKept
  <2> QED
    BY <2>1, <2>2
<1>10. CASE NextBar \/ UNCHANGED historyVars \/ \E f \in FrameSet, to \in Bars : IngestLive(f, to)
  <2>1. fill' = fill /\ usage' = usage
    BY <1>10 DEF NextBar, IngestLive, historyVars, filling
  <2> QED
    BY <2>1 DEF CreditsKept, SinceLook
<1> QED
  BY <1>1, <1>2, <1>3, <1>4, <1>5, <1>6, <1>7, <1>8, <1>9, <1>10 DEF HistoryNext

\* The reserve is left alone.
LEMMA CreditsFollow == HistoryTyped /\ CreditsKept => CreditsRespected
<1> SUFFICES ASSUME HistoryTyped, CreditsKept, fill.at \in {"frame", "page", "received"}
             PROVE  /\ usage <= (Ceiling - Reserve) + fill.sinceBegin
                    /\ fill.attempts >= RecheckEvery =>
                           usage <= (Ceiling - Reserve) + fill.sinceLook + (RecheckEvery - 1)
  BY DEF CreditsRespected
<1>1. fill \in Fill
  BY OpenFill
<1>2. /\ fill.attempts <= fill.budget
      /\ usage + fill.budget <= (Ceiling - Reserve) + fill.attempts + fill.sinceBegin
      /\ fill.attempts >= RecheckEvery =>
             usage < (Ceiling - Reserve) + fill.sinceLook + SinceLook(fill)
  BY DEF CreditsKept
<1>3. SinceLook(fill) \in Int /\ SinceLook(fill) <= RecheckEvery
  BY <1>1, CreditNumbers DEF SinceLook
<1> QED
  BY <1>1, <1>2, <1>3, CreditNumbers

-----------------------------------------------------------------------------
(* Rows without a hole.                                                    *)

\* A frame nobody touched, as time goes on.
LEMMA WholeStays ==
    ASSUME HistoryTyped, HistoryTyped', NEW f \in FrameSet, HistoryWhole(f),
           offered' = offered, candles'[f] = candles[f], looks'[f] = looks[f], clock <= clock'
    PROVE  HistoryWhole(f)'
<1> DEFINE l == looks[f]
<1>1. /\ l.ends = {} /\ ~l.lived => candles[f] = {}
      /\ l.sound => \A e \in l.ends : e <= clock
      /\ l.sound /\ ~l.lived =>
             \A e \in Bars : l.ends = {e} =>
                \A b \in candles[f] :
                    b < e /\ \A c \in offered[f] : b <= c /\ c < e => c \in candles[f]
  BY DEF HistoryWhole
<1>2. l.ends \subseteq Nat /\ clock \in Nat /\ clock' \in Nat
  BY HistoryAssumption DEF HistoryTyped, Looks, Bars, HistoryAssumption
<1>3. l.sound => \A e \in l.ends : e <= clock'
  BY <1>1, <1>2
<1>4. looks'[f] = l /\ candles'[f] = candles[f] /\ offered'[f] = offered[f]
  OBVIOUS
<1> HIDE DEF l
<1> QED
  BY <1>1, <1>3, <1>4 DEF HistoryWhole

\* What the looks of a window leave fair was fair before, where the end was looked for already.
LEMMA FairFalls ==
    ASSUME HistoryTyped, fill \in Fill, fill'.window = fill.window, fill.at = "frame", looks' = Looked(Frame),
           NEW g \in FrameSet, fill.window[2] \in looks[g].ends, Fair(g)'
    PROVE  Fair(g)
<1>1. looks'[g].ends = {fill.window[2]} /\ looks'[g].sound
  BY DEF Fair
<1>2. /\ looks'[g].sound => looks[g].sound
      /\ looks[g].ends \subseteq looks'[g].ends
  BY FrameIsOne DEF HistoryTyped, Looked, Looks
<1> QED
  BY <1>1, <1>2 DEF Fair

\* The summary of a frame.
LEMMA StatusAdded ==
    ASSUME HistoryTyped, fill \in Fill, fill.at # "done", PagesWhole, FilledIsWhole,
           NEW s \in HistoryStatuses, fill' = WithStatus(s) \/ (fill' = Halted /\ s = "PARTIAL"),
           offered' = offered,
           \A g \in FrameSet : candles[g] \subseteq candles'[g] /\ looks[g].ends \subseteq looks'[g].ends,
           \A g \in FrameSet : fill.window[2] \in looks[g].ends /\ Fair(g)' => Fair(g),
           NEW f \in FrameSet, f = Frame, fill.window[2] \in looks'[f].ends,
           s \in {"COMPLETED", "ALREADY_COVERED"} /\ Fair(f)' =>
               offered[f] \cap Window(fill.window) \subseteq candles'[f]
    PROVE  PagesWhole' /\ FilledIsWhole'
<1>1. /\ fill' \in Fill /\ fill'.window = fill.window /\ fill'.statuses = Append(fill.statuses, s)
      /\ fill'.at \in {"frame", "done"}
      /\ fill'.at # "done" => fill'.frame = fill.frame + 1
      /\ fill.frame \in 1..Len(Frames) /\ Len(Frames) \in Nat
  BY StatusFields, FrameIsOne
<1>2. fill.statuses \in Seq(HistoryStatuses) /\ Len(fill.statuses) = fill.frame - 1
  BY OpenFill DEF Fill, PagesWhole
<1>3. /\ DOMAIN fill.statuses = 1..(fill.frame - 1) /\ DOMAIN fill'.statuses = 1..fill.frame
      /\ Len(fill'.statuses) = fill.frame
      /\ fill'.statuses[fill.frame] = s
      /\ \A i \in 1..(fill.frame - 1) : fill'.statuses[i] = fill.statuses[i]
  BY <1>1, <1>2
<1>4. \A i \in 1..fill.frame : Frames[i] \in FrameSet
  BY <1>1, HistoryAssumption DEF HistoryAssumption, FrameSet
<1>5. \A i \in 1..(fill.frame - 1) : fill.window[2] \in looks[Frames[i]].ends
  BY <1>3, OpenFill DEF PagesWhole
<1>6. \A i \in 1..fill.frame : fill'.window[2] \in looks'[Frames[i]].ends
  <2> TAKE i \in 1..fill.frame
  <2>1. CASE i = fill.frame
    BY <1>1, <2>1 DEF Frame
  <2>2. CASE i # fill.frame
    <3>1. i \in 1..(fill.frame - 1)
      BY <1>1, <2>2
    <3> QED
      BY <1>1, <1>4, <1>5, <3>1
  <2> QED
    BY <2>1, <2>2
<1>7. PagesWhole'
  BY <1>1, <1>3, <1>6 DEF PagesWhole
<1>8. ASSUME NEW i \in 1..fill.frame, fill'.statuses[i] \in {"COMPLETED", "ALREADY_COVERED"},
             looks'[Frames[i]].ends = {fill'.window[2]}, looks'[Frames[i]].sound
      PROVE  offered'[Frames[i]] \cap Window(fill'.window) \subseteq candles'[Frames[i]]
  <2>1. CASE i = fill.frame
    <3>1. Frames[i] = f
      BY <2>1 DEF Frame
    <3>2. Fair(f)'
      BY <1>8, <3>1 DEF Fair
    <3> QED
      BY <1>1, <1>3, <1>8, <2>1, <3>1, <3>2
  <2>2. CASE i # fill.frame
    <3>1. i \in 1..(fill.frame - 1)
      BY <1>1, <2>2
    <3>2. fill.statuses[i] \in {"COMPLETED", "ALREADY_COVERED"}
      BY <1>3, <1>8, <3>1
    <3>3. Frames[i] \in FrameSet
      BY <1>4
    <3>4. Fair(Frames[i])
      <4> DEFINE g == Frames[i]
      <4>1. g \in FrameSet /\ fill.window[2] \in looks[g].ends /\ looks'[g].ends = {fill'.window[2]} /\ looks'[g].sound
        BY <1>5, <1>8, <3>1, <3>3
      <4> HIDE DEF g
      <4>2. Fair(g)'
        BY <4>1 DEF Fair
      <4> QED
        BY <4>1, <4>2 DEF g
    <3>5. i \in DOMAIN fill.statuses /\ fill # NoFill
      BY <1>3, <3>1, OpenFill
    <3>6. offered[Frames[i]] \cap Window(fill.window) \subseteq candles[Frames[i]]
      BY <3>2, <3>4, <3>5 DEF FilledIsWhole, Fair
    <3> QED
      BY <1>1, <3>3, <3>6
  <2> QED
    BY <2>1, <2>2
<1>9. FilledIsWhole'
  BY <1>1, <1>3, <1>8 DEF FilledIsWhole
<1> QED
  BY <1>7, <1>9


\* The end of the window is looked for, and what that leaves.
LEMMA ChooseEndWhole ==
    ASSUME HistoryTyped, HistoryTyped', HolesNowhere, ChooseEnd
    PROVE  HolesNowhere'
<1> USE HistoryAssumption DEF HistoryAssumption
<1>1. /\ fill \in Fill /\ fill.at = "frame" /\ fill # NoFill
      /\ looks' = Looked(Frame) /\ offered' = offered /\ candles' = candles /\ clock' = clock
  BY OpenFill DEF ChooseEnd, table
<1>f. PICK f \in FrameSet : f = Frame
  BY <1>1, FrameIsOne
<1>w. PICK w1 \in Nat, w2 \in Nat : w1 = fill.window[1] /\ w2 = fill.window[2]
  BY <1>1, FrameIsOne
<1> DEFINE found == IF fill.resume THEN candles[f] \cap Window(fill.window) ELSE {}
           end   == IF found = {} THEN w2 ELSE Least(found)
           inside == candles[f] \cap Window(fill.window)
           whole == inside # {} => offered[f] \cap (Least(inside)..(w2 - 1)) \subseteq inside
<1>2. /\ f \in FrameSet /\ w1 \in Bars /\ w2 \in Bars /\ w1 < w2 /\ Bars \subseteq Nat
      /\ candles[f] \subseteq Bars /\ offered[f] \subseteq Bars /\ looks[f] \in Looks
  BY <1>1, <1>f, <1>w, FrameIsOne
<1>3. /\ looks'[f].ends = looks[f].ends \cup {w2}
      /\ looks'[f].sound = (looks[f].sound /\ w2 <= clock /\ (~looks[f].lived \/ whole))
      /\ looks'[f].lived = looks[f].lived
      /\ \A g \in FrameSet : g # f => looks'[g] = looks[g]
  BY <1>1, <1>f, <1>w, <1>2 DEF Looked, HistoryTyped
<1>4. /\ looks[f].ends = {} /\ ~looks[f].lived => candles[f] = {}
      /\ looks[f].sound => \A e \in looks[f].ends : e <= clock
      /\ looks[f].sound /\ ~looks[f].lived =>
             \A e \in Bars : looks[f].ends = {e} =>
                \A b \in candles[f] :
                    b < e /\ \A c \in offered[f] : b <= c /\ c < e => c \in candles[f]
  BY <1>2 DEF HolesNowhere, HistoryWhole
<1>5. fill' = IF end <= w1 THEN WithStatus("ALREADY_COVERED")
              ELSE [fill EXCEPT !.at = "page", !.end = end, !.attempt = 1]
  BY <1>1, <1>f, <1>w DEF ChooseEnd
<1>6. fill'.window = fill.window
  BY <1>1, <1>5, StatusFields DEF HistoryStatuses, Fill
<1>7. found = inside \/ found = {}
  OBVIOUS
<1>8. inside \subseteq Nat /\ \A b \in inside : b \in candles[f] /\ w1 <= b /\ b < w2
  <2>1. Window(fill.window) = w1..(w2 - 1)
    BY <1>w DEF Window
  <2>2. \A b \in inside : b \in candles[f] /\ b \in Nat /\ b \in w1..(w2 - 1)
    BY <1>2, <2>1
  <2> QED
    BY <1>2, <2>2
<1>9. inside # {} => Least(inside) \in inside /\ \A c \in inside : Least(inside) <= c
  BY <1>8, LeastIsThere
<1>10. /\ end \in Bars /\ end <= w2 /\ w1 <= end
       /\ found = {} => end = w2
       /\ found # {} => end = Least(inside) /\ end \in inside
  <2>1. CASE found = {}
    <3>1. end = w2
      BY <2>1
    <3>2. w2 <= w2 /\ w1 <= w2
      BY <1>2
    <3> QED
      BY <1>2, <2>1, <3>1, <3>2
  <2>2. CASE found # {}
    <3>1. found = inside /\ inside # {} /\ end = Least(inside)
      BY <2>2, <1>7
    <3>2. end \in inside
      BY <1>9, <3>1
    <3>3. end \in Bars /\ w1 <= end /\ end < w2
      BY <1>2, <1>8, <3>2
    <3>5. \A e \in Bars : e < w2 => e <= w2
      BY <1>2
    <3>4. end <= w2
      BY <3>3, <3>5
    <3> QED
      BY <2>2, <3>1, <3>2, <3>3, <3>4
  <2> QED
    BY <2>1, <2>2
<1>11. \A g \in FrameSet : w2 \in looks[g].ends /\ Fair(g)' => Fair(g)
  BY <1>1, <1>6, <1>w, FairFalls
<1> HIDE DEF found, end, inside, whole
\* The rows of the frame have no hole before the end, if the looks say nothing against it.
<1>12. HistoryWhole(f)'
  <2>1. looks'[f].ends # {}
    BY <1>3
  <2>2. looks'[f].sound => \A e \in looks'[f].ends : e <= clock'
    BY <1>1, <1>3, <1>4
  <2>3. ASSUME looks'[f].sound, ~looks'[f].lived, NEW e \in Bars, looks'[f].ends = {e}, NEW b \in candles[f]
        PROVE  b < e /\ \A c \in offered[f] : b <= c /\ c < e => c \in candles[f]
    <3>1. looks[f].ends # {}
      BY <1>3, <1>4, <2>3
    <3>2. looks[f].ends = {e}
      BY <1>3, <2>3, <3>1
    <3> QED
      BY <1>3, <1>4, <2>3, <3>2
  <2>4. candles'[f] = candles[f] /\ offered'[f] = offered[f]
    BY <1>1
  <2> QED
    BY <2>1, <2>2, <2>3, <2>4 DEF HistoryWhole
<1>13. ASSUME NEW g \in FrameSet PROVE HistoryWhole(g)'
  <2>1. CASE g = f
    BY <1>12, <2>1
  <2>2. CASE g # f
    <3>1. clock <= clock'
      BY <1>1 DEF HistoryTyped, Bars
    <3> QED
      BY <1>1, <1>3, <2>2, <3>1, WholeStays DEF HolesNowhere
  <2> QED
    BY <2>1, <2>2
\* From the end of the page on, the rows are there.
<1>14. ASSUME looks'[f].ends = {w2}, looks'[f].sound, NEW c \in offered[f], end <= c, c < w2
       PROVE  c \in candles[f]
  <2>1. c \in Nat /\ end \in Nat
    BY <1>2, <1>10
  <2>2. found # {} /\ end = Least(inside) /\ end \in inside
    BY <1>2, <1>10, <1>14, <2>1
  <2>3. CASE looks[f].lived
    <3>1. offered[f] \cap (end..(w2 - 1)) \subseteq inside
      BY <1>3, <1>14, <2>2, <2>3 DEF whole
    <3>2. c \in end..(w2 - 1)
      BY <1>14, <2>1
    <3> QED
      BY <1>8, <1>14, <3>1, <3>2
  <2>4. CASE ~looks[f].lived
    <3>1. end \in candles[f] /\ ~looks'[f].lived
      BY <1>3, <1>8, <2>2, <2>4
    <3>3. looks[f].ends # {} /\ looks[f].sound
      BY <1>3, <1>4, <1>14, <2>4, <3>1
    <3>2. looks[f].ends = {w2} /\ looks[f].sound
      BY <1>3, <1>14, <3>3
    <3> QED
      BY <1>2, <1>4, <1>14, <2>4, <3>1, <3>2
  <2> QED
    BY <2>3, <2>4
<1>15. PagesWhole' /\ FilledIsWhole'
  <2>1. CASE end <= w1
    <3>1. fill' = WithStatus("ALREADY_COVERED")
      BY <1>5, <2>1
    <3>2. Fair(f)' => offered[f] \cap Window(fill.window) \subseteq candles'[f]
      <4>1. SUFFICES ASSUME Fair(f)', NEW c \in offered[f], c \in Window(fill.window) PROVE c \in candles'[f]
        OBVIOUS
      <4>2. looks'[f].ends = {w2} /\ looks'[f].sound
        BY <1>6, <1>w, <4>1 DEF Fair
      <4>3. end <= c /\ c < w2
        <5>1. c \in w1..(w2 - 1) /\ end \in Nat
          BY <1>2, <1>10, <1>w, <4>1 DEF Window
        <5> QED
          BY <2>1, <5>1
      <4> QED
        BY <1>1, <1>14, <4>1, <4>2, <4>3
    <3>3. \A g \in FrameSet : candles[g] \subseteq candles'[g] /\ looks[g].ends \subseteq looks'[g].ends
      BY <1>1, <1>3
    <3>4. w2 \in looks'[f].ends /\ "ALREADY_COVERED" \in HistoryStatuses /\ fill.at # "done"
      BY <1>1, <1>3 DEF HistoryStatuses
    <3>5. PagesWhole /\ FilledIsWhole
      BY DEF HolesNowhere
    <3> QED
      BY <1>1, <1>f, <1>w, <1>11, <3>1, <3>2, <3>3, <3>4, <3>5, StatusAdded
  <2>2. CASE ~(end <= w1)
    <3>1. fill' = [fill EXCEPT !.at = "page", !.end = end, !.attempt = 1]
      BY <1>5, <2>2
    <3>2. /\ fill'.at = "page" /\ fill'.end = end /\ fill'.statuses = fill.statuses /\ fill'.frame = fill.frame
          /\ Frame' = Frame /\ fill' \in Fill /\ fill' # NoFill
      <4>1. fill'.at = "page" /\ fill'.end = end /\ fill'.statuses = fill.statuses /\ fill'.frame = fill.frame
        BY <1>1, <3>1 DEF Fill
      <4>2. fill' \in Fill
        BY <1>1, <1>10, <3>1 DEF Fill
      <4> QED
        BY <4>1, <4>2 DEF Frame, NoFill
    <3>3. /\ \A i \in DOMAIN fill.statuses : w2 \in looks[Frames[i]].ends
          /\ Len(fill.statuses) = fill.frame - 1
      BY <1>f, <1>w, <1>1 DEF HolesNowhere, PagesWhole
    <3>4. DOMAIN fill.statuses = 1..(fill.frame - 1) /\ fill.frame \in DOMAIN Frames
      BY <1>1, <3>3 DEF Fill
    <3>5. ASSUME NEW i \in DOMAIN fill.statuses
          PROVE  Frames[i] \in FrameSet /\ w2 \in looks[Frames[i]].ends /\ w2 \in looks'[Frames[i]].ends
      <4>1. Frames[i] \in FrameSet
        BY <3>4 DEF FrameSet
      <4> QED
        BY <1>1, <1>3, <3>3, <4>1
    <3>6. PagesWhole'
      <4>1. \A i \in DOMAIN fill'.statuses : fill'.window[2] \in looks'[Frames[i]].ends
        BY <1>f, <1>w, <1>6, <3>2, <3>5
      <4>2. fill'.window[2] \in looks'[Frame'].ends /\ fill'.end <= fill'.window[2]
        BY <1>f, <1>w, <1>3, <1>6, <1>10, <3>2
      <4>3. Fair(Frame)' => \A c \in offered'[Frame'] : fill'.end <= c /\ c < fill'.window[2] => c \in candles'[Frame']
        BY <1>f, <1>w, <1>1, <1>6, <1>14, <3>2 DEF Fair
      <4> QED
        BY <3>2, <3>3, <4>1, <4>2, <4>3 DEF PagesWhole
    <3>7. FilledIsWhole'
      <4>1. ASSUME NEW i \in DOMAIN fill.statuses, fill.statuses[i] \in {"COMPLETED", "ALREADY_COVERED"},
                   looks'[Frames[i]].ends = {w2}, looks'[Frames[i]].sound
            PROVE  offered[Frames[i]] \cap Window(fill.window) \subseteq candles[Frames[i]]
        <5> DEFINE g == Frames[i]
        <5>1. Fair(g)
          <6>1. g \in FrameSet /\ w2 \in looks[g].ends /\ looks'[g].ends = {fill'.window[2]} /\ looks'[g].sound
            BY <1>f, <1>w, <1>6, <3>5, <4>1
          <6> HIDE DEF g
          <6>2. Fair(g)'
            BY <6>1 DEF Fair
          <6> QED
            BY <1>11, <6>1, <6>2
        <5> QED
          BY <1>f, <1>w, <1>1, <4>1, <5>1 DEF HolesNowhere, FilledIsWhole, Fair
      <4> QED
        BY <1>f, <1>w, <1>1, <1>6, <3>2, <4>1 DEF FilledIsWhole
    <3> QED
      BY <3>6, <3>7
  <2> QED
    BY <2>1, <2>2
<1> QED
  BY <1>13, <1>15 DEF HolesNowhere

\* A step of the run that leaves rows, looks and time alone and goes on with a page.
LEMMA PageGoesOn ==
    ASSUME HistoryTyped, HistoryTyped', HolesNowhere, fill \in Fill, fill.at \in {"page", "received"}, fill' \in Fill,
           offered' = offered, candles' = candles, looks' = looks, clock' = clock,
           fill'.at \in {"page", "received"}, fill'.window = fill.window, fill'.statuses = fill.statuses,
           fill'.frame = fill.frame, fill'.end = fill.end,
           fill'.at = "received" /\ Fair(Frame) =>
              \A b \in fill'.page, c \in offered[Frame] : b <= c /\ c < fill.end => c \in fill'.page
    PROVE  HolesNowhere'
<1>1. fill # NoFill /\ fill' # NoFill /\ Frame' = Frame
  BY DEF Fill, NoFill, Frame
<1>2. \A g \in FrameSet : HistoryWhole(g)'
  <2> TAKE g \in FrameSet
  <2>1. clock <= clock'
    BY DEF HistoryTyped, Bars
  <2> QED
    BY <2>1, WholeStays DEF HolesNowhere
<1>3. \A g : Fair(g)' <=> Fair(g)
  BY DEF Fair
<1>4. PagesWhole'
  BY <1>1 DEF HolesNowhere, PagesWhole, Fair
<1>5. FilledIsWhole'
  BY <1>1 DEF HolesNowhere, FilledIsWhole
<1> QED
  BY <1>2, <1>4, <1>5 DEF HolesNowhere

\* A page that has come has no hole, for a frame the looks say nothing against.
LEMMA AnswerWhole ==
    ASSUME HistoryTyped, HolesNowhere, fill \in Fill, fill.at = "page", Fair(Frame),
           NEW b \in Parsed(Page(Frame, fill.end), fill.end), NEW c \in offered[Frame], b <= c, c < fill.end
    PROVE  c \in Parsed(Page(Frame, fill.end), fill.end)
<1>f. PICK f \in FrameSet : f = Frame
  BY FrameIsOne
<1>e. PICK e \in Nat : e = fill.end
  BY HistoryAssumption DEF Fill, Bars, HistoryAssumption
<1>w. PICK w2 \in Nat : w2 = fill.window[2]
  BY FrameIsOne
<1>1. e <= w2 /\ w2 <= clock /\ clock \in Nat
  <2>1. fill # NoFill /\ looks[f].ends = {w2} /\ looks[f].sound
    BY <1>f, <1>w DEF Fair, Fill, NoFill
  <2>2. e <= w2
    BY <2>1, <1>f, <1>e, <1>w DEF HolesNowhere, PagesWhole
  <2>3. w2 <= clock
    BY <2>1 DEF HolesNowhere, HistoryWhole
  <2> QED
    BY <2>2, <2>3 DEF HistoryTyped, Bars
<1>2. offered[f] \subseteq Bars /\ Bars \subseteq Nat /\ LastBar \in Nat
  BY <1>f, FrameIsOne, HistoryAssumption DEF HistoryAssumption
<1>3. c \in Nat /\ c < e /\ c <= e /\ c < clock /\ c <= clock
  <2>1. c \in Nat
    BY <1>2, <1>f
  <2>2. c < e
    BY <1>e
  <2> QED
    BY <1>1, <2>1, <2>2
<1> DEFINE S == {d \in offered[f] : d <= e /\ d <= clock}
<1>4. S \in SUBSET Nat /\ IsFiniteSet(S)
  <2>1. IsFiniteSet(Bars)
    BY <1>2, FS_Interval DEF Bars
  <2> QED
    BY <1>2, <2>1, FS_Subset
<1>5. c \in S
  BY <1>3, <1>f
<1>6. b \in Newest(PageSize, S) /\ Parsed(Page(Frame, fill.end), fill.end) = {d \in Newest(PageSize, S) : d <= e /\ d < clock}
  BY <1>f, <1>e DEF Parsed, Page
<1> HIDE DEF S
<1>7. c \in Newest(PageSize, S)
  <2>1. PageSize \in Int
    BY HistoryAssumption DEF HistoryAssumption
  <2> QED
    BY <1>4, <1>5, <1>6, <2>1, NewestIsUpward
<1> QED
  BY <1>3, <1>6, <1>7

\* A page is stored; the next one ends at its first row, or the frame is complete.
LEMMA PersistWhole ==
    ASSUME HistoryTyped, HistoryTyped', HolesNowhere, PersistPage
    PROVE  HolesNowhere'
<1> USE HistoryAssumption DEF HistoryAssumption
<1>1. /\ fill \in Fill /\ fill.at = "received" /\ fill # NoFill
      /\ looks' = looks /\ offered' = offered /\ clock' = clock
  BY OpenFill DEF PersistPage
<1>f. PICK f \in FrameSet : f = Frame
  BY <1>1, FrameIsOne
<1>w. PICK w1 \in Nat, w2 \in Nat, e \in Nat : w1 = fill.window[1] /\ w2 = fill.window[2] /\ e = fill.end
  BY <1>1, FrameIsOne DEF Fill
<1>2. /\ f \in FrameSet /\ w1 \in Bars /\ w2 \in Bars /\ w1 < w2 /\ Bars \subseteq Nat
      /\ candles[f] \subseteq Bars /\ offered[f] \subseteq Bars /\ looks[f] \in Looks
  BY <1>1, <1>f, <1>w, FrameIsOne
<1>3. Inside \subseteq Nat /\ Inside # {} /\ \A b : b \in Inside <=> b \in fill.page /\ w1 <= b /\ b < e
  BY <1>1, <1>w, PageIsBars DEF PersistPage, Inside
<1>i. PICK I \in SUBSET Nat : I = Inside
  BY <1>3
<1>l. PICK low \in Nat : low = Least(I) /\ low \in I /\ \A c \in I : low <= c
  BY <1>3, <1>i, LeastIsThere
<1>4. /\ candles'[f] = candles[f] \cup I /\ \A g \in FrameSet : g # f => candles'[g] = candles[g]
      /\ \A g \in FrameSet : candles[g] \subseteq candles'[g]
  BY <1>f, <1>i DEF PersistPage, HistoryTyped
<1>5. /\ \A i \in DOMAIN fill.statuses : w2 \in looks[Frames[i]].ends
      /\ Len(fill.statuses) = fill.frame - 1
      /\ w2 \in looks[f].ends /\ e <= w2
      /\ Fair(f) => \A c \in offered[f] : e <= c /\ c < w2 => c \in candles[f]
      /\ Fair(f) => \A b \in fill.page, c \in offered[f] : b <= c /\ c < e => c \in fill.page
  BY <1>1, <1>f, <1>w DEF HolesNowhere, PagesWhole
\* From a stored bar of the page to the end of the window nothing is missing.
<1>6. ASSUME Fair(f), NEW b \in I, NEW c \in offered[f], b <= c, c < w2
      PROVE  c \in candles'[f]
  <2>1. c \in Nat /\ b \in Nat /\ b \in fill.page /\ w1 <= b
    BY <1>2, <1>3, <1>i
  <2>2. CASE e <= c
    BY <1>4, <1>5, <1>6, <2>2
  <2>3. CASE c < e
    <3>1. c \in fill.page
      BY <1>5, <1>6, <2>1, <2>3
    <3>2. w1 <= c
      BY <1>6, <2>1
    <3> QED
      BY <1>3, <1>4, <1>i, <2>3, <3>1, <3>2
  <2> QED
    BY <2>1, <2>2, <2>3
<1>7. HistoryWhole(f)'
  <2>1. /\ looks[f].sound => \A x \in looks[f].ends : x <= clock
        /\ looks[f].sound /\ ~looks[f].lived =>
             \A x \in Bars : looks[f].ends = {x} =>
                \A b \in candles[f] :
                    b < x /\ \A c \in offered[f] : b <= c /\ c < x => c \in candles[f]
    BY DEF HolesNowhere, HistoryWhole
  <2>2. looks'[f].ends # {}
    BY <1>1, <1>5
  <2>3. ASSUME looks[f].sound, ~looks[f].lived, NEW x \in Bars, looks[f].ends = {x}, NEW b \in candles'[f]
        PROVE  b < x /\ \A c \in offered[f] : b <= c /\ c < x => c \in candles'[f]
    <3>1. x = w2 /\ Fair(f)
      BY <1>5, <1>w, <2>3 DEF Fair
    <3>2. CASE b \in candles[f]
      BY <1>4, <2>1, <2>3, <3>2
    <3>3. CASE b \in I
      <4>1. b \in Nat /\ b < e
        BY <1>3, <1>i, <3>3
      <4>2. b < x
        BY <1>5, <3>1, <4>1
      <4> QED
        BY <1>6, <3>1, <3>3, <4>2
    <3> QED
      BY <1>4, <2>3, <3>2, <3>3
  <2>4. offered'[f] = offered[f] /\ looks'[f] = looks[f] /\ clock' = clock
    BY <1>1
  <2> QED
    BY <2>1, <2>2, <2>3, <2>4 DEF HistoryWhole
<1>8. ASSUME NEW g \in FrameSet PROVE HistoryWhole(g)'
  <2>1. CASE g = f
    BY <1>7, <2>1
  <2>2. CASE g # f
    <3>1. clock <= clock'
      BY <1>1 DEF HistoryTyped, Bars
    <3> QED
      BY <1>1, <1>4, <2>2, <3>1, WholeStays DEF HolesNowhere
  <2> QED
    BY <2>1, <2>2
<1>9. PagesWhole' /\ FilledIsWhole'
  <2>0. fill' = IF low <= w1 THEN WithStatus("COMPLETED")
                ELSE [fill EXCEPT !.at = "page", !.attempt = 1, !.end = low]
    BY <1>i, <1>l, <1>w DEF PersistPage
  <2>1. CASE low <= w1
    <3>1. fill' = WithStatus("COMPLETED")
      BY <2>0, <2>1
    <3>2. fill'.window = fill.window
      BY <1>1, <3>1, StatusFields DEF HistoryStatuses
    <3>3. \A g \in FrameSet : w2 \in looks[g].ends /\ Fair(g)' => Fair(g)
      BY <1>1, <1>w, <3>2 DEF Fair
    <3>4. Fair(f)' => offered[f] \cap Window(fill.window) \subseteq candles'[f]
      <4>1. SUFFICES ASSUME Fair(f), NEW c \in offered[f], c \in Window(fill.window) PROVE c \in candles'[f]
        BY <1>1, <1>5, <3>3
      <4>2. c \in w1..(w2 - 1)
        BY <1>w, <4>1 DEF Window
      <4>3. low <= c /\ c < w2
        BY <2>1, <4>2
      <4> QED
        BY <1>6, <1>l, <4>1, <4>3
    <3>5. w2 \in looks'[f].ends /\ "COMPLETED" \in HistoryStatuses /\ fill.at # "done"
      BY <1>1, <1>5 DEF HistoryStatuses
    <3>6. PagesWhole /\ FilledIsWhole
      BY DEF HolesNowhere
    <3>7. \A g \in FrameSet : candles[g] \subseteq candles'[g] /\ looks[g].ends \subseteq looks'[g].ends
      BY <1>1, <1>4
    <3> QED
      BY <1>1, <1>f, <1>w, <3>1, <3>3, <3>4, <3>5, <3>6, <3>7, StatusAdded
  <2>2. CASE ~(low <= w1)
    <3>1. fill' = [fill EXCEPT !.at = "page", !.attempt = 1, !.end = low]
      BY <2>0, <2>2
    <3>2. /\ fill'.at = "page" /\ fill'.end = low /\ fill'.statuses = fill.statuses /\ fill'.frame = fill.frame
          /\ Frame' = Frame /\ fill' \in Fill /\ fill' # NoFill /\ fill'.window = fill.window
      <4>1. /\ fill'.at = "page" /\ fill'.end = low /\ fill'.statuses = fill.statuses
            /\ fill'.frame = fill.frame /\ fill'.window = fill.window
        BY <1>1, <3>1 DEF Fill
      <4>2. fill' # NoFill /\ Frame' = Frame
        BY <4>1 DEF Frame, NoFill
      <4> QED
        BY <4>1, <4>2 DEF HistoryTyped
    <3>3. low <= w2 /\ low < e
      <4>1. low < e
        BY <1>3, <1>i, <1>l
      <4> QED
        BY <1>5, <4>1
    <3>4. ASSUME Fair(f), NEW c \in offered[f], low <= c, c < w2 PROVE c \in candles'[f]
      BY <1>6, <1>l, <3>4
    <3>5. PagesWhole'
      <4>1. \A i \in DOMAIN fill'.statuses : fill'.window[2] \in looks'[Frames[i]].ends
        BY <1>1, <1>5, <1>w, <3>2
      <4>2. fill'.window[2] \in looks'[Frame'].ends /\ fill'.end <= fill'.window[2]
        BY <1>1, <1>5, <1>f, <1>w, <3>2, <3>3
      <4>3. Fair(Frame)' => \A c \in offered'[Frame'] : fill'.end <= c /\ c < fill'.window[2] => c \in candles'[Frame']
        BY <1>1, <1>f, <1>w, <3>2, <3>4 DEF Fair
      <4> QED
        BY <1>5, <3>2, <4>1, <4>2, <4>3 DEF PagesWhole
    <3>6. FilledIsWhole'
      <4>1. DOMAIN fill.statuses = 1..(fill.frame - 1) /\ fill.frame \in DOMAIN Frames
        BY <1>1, <1>5 DEF Fill
      <4>2. \A i \in DOMAIN fill.statuses : Frames[i] \in FrameSet
        BY <4>1 DEF FrameSet
      <4> QED
        BY <1>1, <1>4, <3>2, <4>2 DEF HolesNowhere, FilledIsWhole
    <3> QED
      BY <3>5, <3>6
  <2> QED
    BY <2>1, <2>2
<1> QED
  BY <1>8, <1>9 DEF HolesNowhere

LEMMA NextHolesNowhere ==
    HistoryTyped /\ HistoryTyped' /\ HolesNowhere /\ [HistoryNext]_historyVars => HolesNowhere'
<1> SUFFICES ASSUME HistoryTyped, HistoryTyped', HolesNowhere, [HistoryNext]_historyVars PROVE HolesNowhere'
  OBVIOUS
<1> USE HistoryAssumption DEF HistoryAssumption
<1>a. fill.at \in {"frame", "page", "received"} => fill \in Fill /\ fill # NoFill
  BY OpenFill
\* What leaves the rows and the looks alone leaves the frames whole.
<1>b. ASSUME offered' = offered, candles' = candles, looks' = looks, clock' = clock
      PROVE  \A g \in FrameSet : HistoryWhole(g)'
  <2> TAKE g \in FrameSet
  <2>1. clock <= clock'
    BY <1>b DEF HistoryTyped, Bars
  <2> QED
    BY <1>b, <2>1, WholeStays DEF HolesNowhere
<1>c. ASSUME fill' = NoFill PROVE PagesWhole' /\ FilledIsWhole'
  BY <1>c DEF PagesWhole, FilledIsWhole
<1>d. ASSUME fill.at \in {"page", "received"}, NEW s \in HistoryStatuses \ {"COMPLETED", "ALREADY_COVERED"},
             fill' = WithStatus(s) \/ (fill' = Halted /\ s = "PARTIAL"),
             offered' = offered, candles' = candles, looks' = looks, clock' = clock
      PROVE  HolesNowhere'
  <2>1. fill \in Fill /\ fill # NoFill /\ fill.at # "done"
    BY <1>a, <1>d
  <2>2. PICK f \in FrameSet : f = Frame
    BY <2>1, FrameIsOne
  <2>3. fill'.window = fill.window
    BY <1>d, <2>1, StatusFields
  <2>4. \A g \in FrameSet : fill.window[2] \in looks[g].ends /\ Fair(g)' => Fair(g)
    BY <1>d, <2>3 DEF Fair
  <2>5. fill.window[2] \in looks'[f].ends
    BY <1>d, <2>1, <2>2 DEF HolesNowhere, PagesWhole
  <2>6. PagesWhole /\ FilledIsWhole /\ s \in HistoryStatuses /\ s \notin {"COMPLETED", "ALREADY_COVERED"}
    BY <1>d DEF HolesNowhere
  <2>7. \A g \in FrameSet : candles[g] \subseteq candles'[g] /\ looks[g].ends \subseteq looks'[g].ends
    BY <1>d
  <2>8. PagesWhole' /\ FilledIsWhole'
    BY <1>d, <2>1, <2>2, <2>4, <2>5, <2>6, <2>7, StatusAdded
  <2> QED
    BY <1>b, <1>d, <2>8 DEF HolesNowhere
<1>1. ASSUME NEW w \in Windows, NEW resume \in BOOLEAN, BeginFill(w, resume) PROVE HolesNowhere'
  <2>1. fill'.at = "frame" /\ fill'.statuses = <<>> /\ fill'.frame = 1
    BY <1>1 DEF BeginFill
  <2>2. DOMAIN fill'.statuses = {} /\ Len(fill'.statuses) = 0
    BY <2>1
  <2>3. PagesWhole' /\ FilledIsWhole'
    BY <2>1, <2>2 DEF PagesWhole, FilledIsWhole
  <2> QED
    BY <1>1, <1>b, <2>3 DEF BeginFill, table, HolesNowhere
<1>2. CASE ChooseEnd
  BY <1>2, ChooseEndWhole
<1>3. CASE RunOutOfBudget
  BY <1>3, <1>d DEF RunOutOfBudget, table, HistoryStatuses
<1>4. CASE Recheck
  <2>1. fill.at = "page" /\ fill \in Fill /\ offered' = offered /\ candles' = candles /\ looks' = looks /\ clock' = clock
    BY <1>4, <1>a DEF Recheck, table
  <2>2. CASE fill' = Halted
    BY <2>1, <2>2, <1>d DEF HistoryStatuses
  <2>3. CASE fill' = [fill EXCEPT !.checked = TRUE, !.sinceLook = 0]
    <3>1. /\ fill'.at = "page" /\ fill'.window = fill.window /\ fill'.statuses = fill.statuses
          /\ fill'.frame = fill.frame /\ fill'.end = fill.end
      BY <2>1, <2>3 DEF Fill
    <3>2. fill' \in Fill
      BY <3>1 DEF HistoryTyped, NoFill
    <3> QED
      BY <2>1, <3>1, <3>2, PageGoesOn
  <2> QED
    BY <1>4, <2>2, <2>3 DEF Recheck
<1>5. ASSUME NEW outcome \in {"answered", "transient", "refused"}, Request(outcome) PROVE HolesNowhere'
  <2>1. fill.at = "page" /\ fill \in Fill /\ offered' = offered /\ candles' = candles /\ looks' = looks /\ clock' = clock
    BY <1>5, <1>a DEF Request, table
  <2> DEFINE got == Parsed(Page(Frame, fill.end), fill.end)
  <2>2. CASE fill' = NoFill
    BY <1>b, <1>c, <2>1, <2>2 DEF HolesNowhere
  <2>3. CASE fill' = [Counted(fill) EXCEPT !.at = "received", !.page = got]
    <3> HIDE DEF got
    <3>1. /\ fill'.at = "received" /\ fill'.window = fill.window /\ fill'.statuses = fill.statuses
          /\ fill'.frame = fill.frame /\ fill'.end = fill.end /\ fill'.page = got
      BY <2>1, <2>3 DEF Fill, Counted
    <3>2. fill' \in Fill
      BY <3>1 DEF HistoryTyped, NoFill
    <3>3. ASSUME Fair(Frame), NEW b \in fill'.page, NEW c \in offered[Frame], b <= c, c < fill.end
          PROVE  c \in fill'.page
      BY <2>1, <3>1, <3>3, AnswerWhole DEF got
    <3> QED
      BY <2>1, <3>1, <3>2, <3>3, PageGoesOn
  <2>4. CASE fill' = [Counted(fill) EXCEPT !.attempt = @ + 1]
    <3>1. /\ fill'.at = "page" /\ fill'.window = fill.window /\ fill'.statuses = fill.statuses
          /\ fill'.frame = fill.frame /\ fill'.end = fill.end
      BY <2>1, <2>4 DEF Fill, Counted
    <3>2. fill' \in Fill
      BY <3>1 DEF HistoryTyped, NoFill
    <3> QED
      BY <2>1, <3>1, <3>2, PageGoesOn
  <2> QED
    BY <1>5, <2>2, <2>3, <2>4 DEF Request
<1>6. CASE LeaveFrame
  <2>1. PICK s \in {"LOOP_GUARD_STOPPED", "PROVIDER_BOUNDARY"} : fill' = WithStatus(s)
    BY <1>6 DEF LeaveFrame
  <2> QED
    BY <1>6, <1>d, <2>1 DEF LeaveFrame, table, HistoryStatuses
<1>7. CASE PersistPage
  BY <1>7, PersistWhole
<1>8. CASE BreakFill
  BY <1>8, <1>b, <1>c DEF BreakFill, table, HolesNowhere
<1>9. CASE NextBar
  <2>1. offered' = offered /\ candles' = candles /\ looks' = looks /\ fill' = fill /\ clock' = clock + 1 /\ clock \in Nat
    BY <1>9 DEF NextBar, table, filling, HistoryTyped, Bars
  <2>2. \A g \in FrameSet : HistoryWhole(g)'
    <3> TAKE g \in FrameSet
    <3>1. clock <= clock'
      BY <2>1
    <3> QED
      BY <2>1, <3>1, WholeStays DEF HolesNowhere
  <2>3. Frame' = Frame
    BY <2>1 DEF Frame
  <2> QED
    BY <2>1, <2>2, <2>3 DEF HolesNowhere, PagesWhole, FilledIsWhole, Fair
<1>10. ASSUME NEW f \in FrameSet, NEW to \in Bars, IngestLive(f, to) PROVE HolesNowhere'
  <2>1. offered' = offered /\ fill' = fill /\ clock' = clock /\ Frame' = Frame
    BY <1>10 DEF IngestLive, Frame
  <2>2. /\ \A g \in FrameSet : candles[g] \subseteq candles'[g]
        /\ \A g \in FrameSet : g # f => candles'[g] = candles[g] /\ looks'[g] = looks[g]
        /\ looks'[f].ends = looks[f].ends /\ looks'[f].sound = looks[f].sound /\ looks'[f].lived
    BY <1>10 DEF IngestLive, HistoryTyped, Looks
  <2>3. \A g \in FrameSet : looks'[g].ends = looks[g].ends /\ looks'[g].sound = looks[g].sound
    BY <2>2
  <2>4. ASSUME NEW g \in FrameSet PROVE HistoryWhole(g)'
    <3>1. CASE g = f
      <4>1. looks[f].sound => \A e \in looks[f].ends : e <= clock
        BY DEF HolesNowhere, HistoryWhole
      <4> QED
        BY <2>1, <2>2, <3>1, <4>1 DEF HistoryWhole
    <3>2. CASE g # f
      <4>1. clock <= clock'
        BY <2>1 DEF HistoryTyped, Bars
      <4> QED
        BY <2>1, <2>2, <3>2, <4>1, WholeStays DEF HolesNowhere
    <3> QED
      BY <3>1, <3>2
  <2>5. ASSUME fill # NoFill
        PROVE  /\ fill \in Fill /\ Frame \in FrameSet
               /\ \A i \in DOMAIN fill.statuses : Frames[i] \in FrameSet
    <3>1. fill \in Fill
      BY <2>5, OpenFill
    <3>2. Frame \in FrameSet /\ fill.frame \in 1..Len(Frames) /\ Len(Frames) \in Nat
      BY <3>1, FrameIsOne
    <3>3. Len(fill.statuses) <= Len(Frames) /\ DOMAIN fill.statuses = 1..Len(fill.statuses) /\ Len(fill.statuses) \in Nat
      <4>1. DOMAIN fill.statuses = 1..Len(fill.statuses) /\ Len(fill.statuses) \in Nat
        BY <3>1 DEF Fill
      <4>2. (fill.at # "done" => Len(fill.statuses) = fill.frame - 1) /\ (fill.at = "done" => Len(fill.statuses) <= Len(Frames))
        BY <2>5 DEF HolesNowhere, PagesWhole
      <4> QED
        BY <3>2, <4>1, <4>2
    <3>4. \A i \in DOMAIN fill.statuses : i \in DOMAIN Frames
      BY <3>2, <3>3
    <3> QED
      BY <3>1, <3>2, <3>4 DEF FrameSet
  <2>6. \A g \in FrameSet : Fair(g)' <=> Fair(g)
    BY <2>1, <2>3 DEF Fair
  <2>7. PagesWhole'
    <3> SUFFICES ASSUME fill # NoFill PROVE PagesWhole'
      BY <2>1 DEF PagesWhole
    <3>1. \A i \in DOMAIN fill'.statuses : fill'.window[2] \in looks'[Frames[i]].ends
      BY <2>1, <2>3, <2>5 DEF HolesNowhere, PagesWhole
    <3>2. Fair(Frame)' <=> Fair(Frame)
      BY <2>1, <2>3, <2>5 DEF Fair
    <3>3. looks'[Frame].ends = looks[Frame].ends /\ candles[Frame] \subseteq candles'[Frame]
      BY <2>2, <2>3, <2>5
    <3> QED
      BY <2>1, <3>1, <3>2, <3>3 DEF HolesNowhere, PagesWhole
  <2>8. FilledIsWhole'
    BY <2>1, <2>2, <2>3, <2>5 DEF HolesNowhere, FilledIsWhole
  <2> QED
    BY <2>4, <2>7, <2>8 DEF HolesNowhere
<1>11. CASE RequestElsewhere
  <2>1. offered' = offered /\ candles' = candles /\ looks' = looks /\ clock' = clock
    BY <1>11 DEF RequestElsewhere, table
  <2>2. CASE fill' = fill
    <3>1. Frame' = Frame
      BY <2>2 DEF Frame
    <3> QED
      BY <1>b, <2>1, <2>2, <3>1 DEF HolesNowhere, PagesWhole, FilledIsWhole, Fair
  <2>3. CASE fill.at \notin {"idle", "done"}
    <3>1. fill \in Fill /\ fill # NoFill
      BY <2>3, OpenFill DEF NoFill
    <3>2. /\ fill'.at = fill.at /\ fill'.window = fill.window /\ fill'.statuses = fill.statuses
          /\ fill'.frame = fill.frame /\ fill'.end = fill.end /\ fill'.page = fill.page
      BY <1>11, <2>3, <3>1 DEF RequestElsewhere, Fill
    <3>3. fill' # NoFill /\ Frame' = Frame
      BY <3>1, <3>2, OpenFill DEF NoFill, Frame
    <3> QED
      BY <1>b, <2>1, <3>1, <3>2, <3>3 DEF HolesNowhere, PagesWhole, FilledIsWhole, Fair
  <2> QED
    BY <1>11, <2>2, <2>3 DEF RequestElsewhere
<1>12. CASE UNCHANGED historyVars
  <2>1. offered' = offered /\ candles' = candles /\ looks' = looks /\ clock' = clock /\ fill' = fill /\ Frame' = Frame
    BY <1>12 DEF historyVars, Frame
  <2> QED
    BY <1>b, <2>1 DEF HolesNowhere, PagesWhole, FilledIsWhole, Fair
<1> QED
  BY <1>1, <1>2, <1>3, <1>4, <1>5, <1>6, <1>7, <1>8, <1>9, <1>10, <1>11, <1>12 DEF HistoryNext

LEMMA HistoryStarts == HistoryInit => HistoryTyped /\ CreditsKept /\ HolesNowhere
<1> SUFFICES ASSUME HistoryInit PROVE HistoryTyped /\ CreditsKept /\ HolesNowhere
  OBVIOUS
<1>1. HistoryTyped
  BY HistoryAssumption DEF HistoryInit, HistoryTyped, HistoryAssumption, Looks
<1>2. fill = NoFill /\ fill.at = "idle"
  BY DEF HistoryInit, NoFill
<1>3. \A f \in FrameSet : HistoryWhole(f)
  BY DEF HistoryInit, HistoryWhole
<1> QED
  BY <1>1, <1>2, <1>3 DEF CreditsKept, HolesNowhere, PagesWhole, FilledIsWhole

\* backfill_xauusd_twelve_data.py leaves the reserve of credits alone while it runs.
THEOREM ReserveIsLeft == HistorySpec => []CreditsRespected
<1>1. HistoryInit => HistoryTyped /\ CreditsKept
  BY HistoryStarts
<1>2. HistoryTyped /\ CreditsKept /\ [HistoryNext]_historyVars => HistoryTyped' /\ CreditsKept'
  BY NextHistoryTyped, NextCredits
<1>3. HistoryTyped /\ CreditsKept => CreditsRespected
  BY CreditsFollow
<1> QED
  BY <1>1, <1>2, <1>3, PTL DEF HistorySpec

\* A frame that a run calls complete has every bar of its window.
THEOREM CompletedHasNoHole == HistorySpec => []FilledIsWhole
<1>1. HistoryInit => HistoryTyped /\ HolesNowhere
  BY HistoryStarts
<1>2. HistoryTyped /\ HolesNowhere /\ [HistoryNext]_historyVars => HistoryTyped' /\ HolesNowhere'
  BY NextHistoryTyped, NextHolesNowhere
<1>3. HolesNowhere => FilledIsWhole
  BY DEF HolesNowhere
<1> QED
  BY <1>1, <1>2, <1>3, PTL DEF HistorySpec

-----------------------------------------------------------------------------
(* The readiness audit.                                                    *)

\* Every set of bars that is not empty has a first one.
LEMMA FirstIsThere ==
    ASSUME NEW S \in SUBSET Nat, S # {}
    PROVE  Min(S) \in S /\ \A c \in S : Min(S) <= c
  BY LeastIsThere DEF Least, Min

\* The members of S from x on.
AtLeast(x, S) == {c \in S : c >= x}

\* Numbers up to one of them have a greatest.
LEMMA LatestIsThere ==
    ASSUME NEW S \in SUBSET Nat, NEW n \in Nat, \A d \in S : d <= n, S # {}
    PROVE  Max(S) \in S /\ \A y \in S : Max(S) >= y
<1> DEFINE T == {AtLeast(x, S) : x \in S}
<1>1. IsFiniteSet(S) /\ \A x \in S : AtLeast(x, S) \in SUBSET S
  BY FS_BoundedSetOfNaturals DEF AtLeast
<1>2. T \subseteq FiniteSubsetsOf(S)
  BY <1>1, FS_FiniteSubsetsOfFinite
<1>3. T # {}
  OBVIOUS
<1>4. PICK t \in T : \A u \in T : ~(<<u, t>> \in StrictSubsetOrdering(S))
  BY <1>2, <1>3, FS_StrictSubsetOrderingWellFounded, WFMin
<1>5. PICK x \in S : t = AtLeast(x, S)
  OBVIOUS
<1>6. ASSUME NEW y \in S, x < y PROVE FALSE
  <2>1. x \in Nat /\ y \in Nat /\ S \subseteq Nat
    OBVIOUS
  <2>2. ASSUME NEW d \in AtLeast(y, S) PROVE d \in AtLeast(x, S)
    <3>1. d \in S /\ d \in Nat /\ d >= y
      BY <2>1 DEF AtLeast
    <3>2. d >= x
      BY <1>6, <2>1, <3>1
    <3> QED
      BY <3>1, <3>2 DEF AtLeast
  <2>3. x \in AtLeast(x, S) /\ x \notin AtLeast(y, S)
    BY <1>6, <2>1 DEF AtLeast
  <2> QED
    BY <1>1, <1>4, <1>5, <2>2, <2>3 DEF StrictSubsetOrdering
<1>7. \A y \in S : x >= y
  BY <1>6
<1> QED
  BY <1>7 DEF Max

\* Rows that reach across the window, more of them do too.
LEMMA CoverGrows ==
    ASSUME NEW S \in SUBSET AuditBars, NEW T \in SUBSET AuditBars, S \subseteq T, Covers(S, AuditWindow)
    PROVE  Covers(T, AuditWindow)
<1>1. AuditBars \subseteq Nat /\ LastAuditBar \in Nat /\ \A b \in AuditBars : b <= LastAuditBar
  BY AuditAssumption DEF AuditAssumption, AuditBars
<1>2. AuditWindow[1] \in Nat /\ AuditWindow[2] \in Nat
  BY <1>1, AuditAssumption DEF AuditAssumption
<1>3. S \in SUBSET Nat /\ T \in SUBSET Nat /\ S # {} /\ T # {}
  BY <1>1 DEF Covers
<1>4. PICK a \in S, b \in S, c \in T, d \in T :
          /\ a = Min(S) /\ b = Max(S) /\ c = Min(T) /\ d = Max(T)
          /\ (\A y \in T : c <= y) /\ (\A y \in T : d >= y)
  BY <1>1, <1>3, LatestIsThere, FirstIsThere
<1>5. a \in Nat /\ b \in Nat /\ c \in Nat /\ d \in Nat /\ c <= a /\ d >= b
  BY <1>3, <1>4
<1>6. a <= AuditWindow[1] /\ b + 1 >= AuditWindow[2]
  BY <1>4 DEF Covers, First
<1>7. c <= AuditWindow[1] /\ d + 1 >= AuditWindow[2]
  BY <1>2, <1>5, <1>6
<1> QED
  BY <1>3, <1>4, <1>7 DEF Covers, First

-----------------------------------------------------------------------------
(* The statistics of a pass over the rows, by induction over the rows: a   *)
(* set for which they were wrong would have a smallest one inside it.      *)

LEMMA BarsAreFinite == AuditBars \subseteq Nat /\ IsFiniteSet(AuditBars) /\ \A S \in SUBSET AuditBars : IsFiniteSet(S)
<1>1. AuditBars \subseteq Nat /\ IsFiniteSet(AuditBars)
  BY AuditAssumption, FS_Interval DEF AuditAssumption, AuditBars
<1> QED
  BY <1>1, FS_Subset

\* Two ends of a set of bars.
LEMMA EndsAreThere ==
    ASSUME NEW S \in SUBSET AuditBars, S # {}
    PROVE  /\ Max(S) \in S /\ \A c \in S : c <= Max(S)
           /\ Min(S) \in S /\ \A c \in S : Min(S) <= c
<1>1. S \in SUBSET Nat /\ LastAuditBar \in Nat /\ \A d \in S : d <= LastAuditBar
  BY AuditAssumption DEF AuditAssumption, AuditBars
<1>2. PICK x \in S : x = Max(S) /\ \A y \in S : x >= y
  BY <1>1, LatestIsThere
<1>3. \A c \in S : c <= x
  BY <1>1, <1>2
<1> QED
  BY <1>1, <1>2, <1>3, FirstIsThere

\* What holds of a set if it holds of its subsets holds of all: a set for which it does not, and
\* for every smaller one it does.
LEMMA SmallestSet ==
    ASSUME NEW S \in SUBSET AuditBars, NEW Bad, Bad \subseteq SUBSET S, Bad # {}
    PROVE  \E s \in Bad : \A t \in SUBSET s : t # s => t \notin Bad
<1>1. Bad \subseteq FiniteSubsetsOf(S)
  BY BarsAreFinite, FS_FiniteSubsetsOfFinite
<1>2. PICK s \in Bad : \A t \in Bad : ~(<<t, s>> \in StrictSubsetOrdering(S))
  BY <1>1, FS_StrictSubsetOrderingWellFounded, WFMin
<1> QED
  BY <1>2 DEF StrictSubsetOrdering

\* The two folds of the audit, over rows in their order: what they start from, and a step.
Base(kind) == IF kind = "pass" THEN Unseen ELSE 0
Step(kind, S, b, x) == IF kind = "pass" THEN WithRow(b, x) ELSE GapAfter(S, b) + x

\* g is the fold over every part of D.
Folding(kind, S, D, g) ==
    g = [s \in SUBSET D |-> IF s = {} THEN Base(kind) ELSE Step(kind, S, Max(s), g[s \ {Max(s)}])]

LEMMA FoldsExist ==
    ASSUME NEW kind, NEW S, NEW D \in SUBSET AuditBars
    PROVE  \E g : Folding(kind, S, D, g)
<1> DEFINE Bad == {s \in SUBSET D : ~\E g : Folding(kind, S, s, g)}
<1> SUFFICES ASSUME D \in Bad PROVE FALSE
  OBVIOUS
<1>1. PICK s \in Bad : \A t \in SUBSET s : t # s => t \notin Bad
  <2>1. D \in SUBSET AuditBars /\ Bad \subseteq SUBSET D /\ Bad # {}
    OBVIOUS
  <2> HIDE DEF Bad
  <2> QED
    BY ONLY <2>1, SmallestSet, Zenon
<1>2. s # {}
  <2>1. Folding(kind, S, {}, [t \in SUBSET {} |-> Base(kind)])
    BY DEF Folding
  <2> QED
    BY <2>1
<1>3. PICK m \in s : m = Max(s) /\ \A c \in s : c <= m
  BY <1>2, EndsAreThere
<1> DEFINE r == s \ {m}
<1>4. PICK g : Folding(kind, S, r, g)
  BY <1>1, <1>3
<1> DEFINE h == [t \in SUBSET s |-> IF m \in t THEN Step(kind, S, m, g[t \ {m}]) ELSE g[t]]
<1>5. ASSUME NEW t \in SUBSET s
      PROVE  h[t] = IF t = {} THEN Base(kind) ELSE Step(kind, S, Max(t), h[t \ {Max(t)}])
  <2>1. CASE m \in t
    <3>1. Max(t) = m
      <4>1. t \in SUBSET AuditBars /\ t # {} /\ AuditBars \subseteq Nat
        BY <2>1, BarsAreFinite
      <4>2. PICK x \in t : x = Max(t) /\ m <= x
        BY <2>1, <4>1, EndsAreThere
      <4>3. x <= m /\ x \in Nat /\ m \in Nat
        BY <1>3, <2>1, <4>1
      <4> QED
        BY <4>2, <4>3
    <3>2. t \ {m} \in SUBSET s /\ m \notin t \ {m}
      OBVIOUS
    <3>3. h[t \ {m}] = g[t \ {m}] /\ h[t] = Step(kind, S, m, g[t \ {m}])
      BY <2>1, <3>2
    <3> QED
      BY <2>1, <3>1, <3>3
  <2>2. CASE m \notin t
    <3>1. t \in SUBSET r /\ h[t] = g[t]
      BY <2>2
    <3>2. g[t] = IF t = {} THEN Base(kind) ELSE Step(kind, S, Max(t), g[t \ {Max(t)}])
      BY <1>4, <3>1 DEF Folding
    <3>3. h[t \ {Max(t)}] = g[t \ {Max(t)}]
      BY <2>2
    <3> QED
      BY <3>1, <3>2, <3>3
  <2> QED
    BY <2>1, <2>2
<1>6. Folding(kind, S, s, h)
  <2> HIDE DEF r
  <2>1. h = [t \in SUBSET s |-> h[t]]
    OBVIOUS
  <2> HIDE DEF h
  <2> QED
    BY <1>5, <2>1 DEF Folding
<1> QED
  BY <1>6

\* What the folds of the modules come to, part by part.
Passed(D) == CHOOSE g : g = [s \in SUBSET D |-> IF s = {} THEN Unseen ELSE WithRow(Max(s), g[s \ {Max(s)}])]
Added(S, D) == CHOOSE g : g = [s \in SUBSET D |-> IF s = {} THEN 0 ELSE GapAfter(S, Max(s)) + g[s \ {Max(s)}]]

LEMMA FoldsFold ==
    ASSUME NEW S, NEW D \in SUBSET AuditBars
    PROVE  /\ Folding("pass", S, D, Passed(D))
           /\ Folding("sum", S, D, Added(S, D))
<1>1. \A g : Folding("pass", S, D, g) <=>
             g = [s \in SUBSET D |-> IF s = {} THEN Unseen ELSE WithRow(Max(s), g[s \ {Max(s)}])]
  BY DEF Folding, Base, Step
<1>2. \A g : Folding("sum", S, D, g) <=>
             g = [s \in SUBSET D |-> IF s = {} THEN 0 ELSE GapAfter(S, Max(s)) + g[s \ {Max(s)}]]
  BY DEF Folding, Base, Step
<1>3. (\E g : Folding("pass", S, D, g)) /\ (\E g : Folding("sum", S, D, g))
  BY FoldsExist
<1>4. Folding("pass", S, D, Passed(D))
  BY ONLY <1>1, <1>3, Zenon DEF Passed
<1>5. Folding("sum", S, D, Added(S, D))
  BY ONLY <1>2, <1>3, Zenon DEF Added
<1> QED
  BY <1>4, <1>5

LEMMA StreamedIsPassed ==
    ASSUME NEW D
    PROVE  Streamed(D) = [complete |-> Covers(D, AuditWindow), count |-> Passed(D)[D].count,
               gaps |-> Passed(D)[D].gaps, missing |-> Passed(D)[D].missing, largest |-> Passed(D)[D].largest]
  BY DEF Streamed, MapThenFoldSet, Passed

LEMMA ListedIsAdded ==
    ASSUME NEW S
    PROVE  Listed(S).missing = Added(S, Followed(S))[Followed(S)]
  BY DEF Listed, MapThenFoldSet, Added

\* The bars missing after the rows of R, among the rows of S, and the gaps.
MissingAfter(S, R) == {h \in AuditBars : \E b \in R : b < h /\ h < Following(S, b)}
Gaps(S, R) == {b \in R : GapAfter(S, b) > 0}

LEMMA FollowingIsNext ==
    ASSUME NEW S \in SUBSET AuditBars, NEW b \in Followed(S)
    PROVE  /\ b \in S /\ Following(S, b) \in S /\ b < Following(S, b)
           /\ \A c \in S : c > b => Following(S, b) <= c
           /\ GapAfter(S, b) = Following(S, b) - (b + 1) /\ GapAfter(S, b) \in Nat
<1> DEFINE later == {c \in S : c > b}
<1>1. later \in SUBSET AuditBars /\ later # {} /\ b \in S
  BY DEF Followed
<1>2. PICK n \in later : n = Following(S, b) /\ \A c \in later : n <= c
  <2> HIDE DEF later
  <2>1. Min(later) \in later /\ \A c \in later : Min(later) <= c
    BY <1>1, EndsAreThere
  <2>2. Following(S, b) = Min(later)
    BY DEF Following, later
  <2> QED
    BY <2>1, <2>2
<1>3. b \in Nat /\ n \in Nat /\ n > b /\ n \in S
  BY <1>1, <1>2, BarsAreFinite
<1>4. GapAfter(S, b) = n - (b + 1)
  <2>1. CASE n > b + 1
    BY <1>2, <2>1 DEF GapAfter, Gap
  <2>2. CASE n = b + 1
    BY <1>2, <1>3, <2>2 DEF GapAfter, Gap
  <2> QED
    BY <1>3, <2>1, <2>2
<1> QED
  BY <1>1, <1>2, <1>3, <1>4

\* One row more, beyond the others.
LEMMA OneGapMore ==
    ASSUME NEW S \in SUBSET AuditBars, NEW R \in SUBSET Followed(S), NEW m \in Followed(S),
           \A b \in R : b < m
    PROVE  /\ Cardinality(MissingAfter(S, R \cup {m})) = Cardinality(MissingAfter(S, R)) + GapAfter(S, m)
           /\ Cardinality(MissingAfter(S, R)) \in Nat
           /\ Cardinality(Gaps(S, R \cup {m})) = Cardinality(Gaps(S, R)) + (IF GapAfter(S, m) > 0 THEN 1 ELSE 0)
           /\ Cardinality(Gaps(S, R)) \in Nat
<1>1. PICK n \in S : n = Following(S, m) /\ m < n /\ GapAfter(S, m) = n - (m + 1)
  BY FollowingIsNext
<1>2. m \in Nat /\ n \in Nat /\ m \in S /\ S \subseteq Nat /\ n <= LastAuditBar /\ LastAuditBar \in Nat
  BY <1>1, BarsAreFinite, AuditAssumption DEF Followed, AuditBars, AuditAssumption
<1>3. (m + 1)..(n - 1) \subseteq AuditBars
  BY <1>2 DEF AuditBars
<1>4. MissingAfter(S, R \cup {m}) = MissingAfter(S, R) \cup ((m + 1)..(n - 1))
  <2>1. \A h \in AuditBars : (m < h /\ h < n) <=> h \in (m + 1)..(n - 1)
    BY <1>2, BarsAreFinite
  <2> QED
    BY <1>1, <1>3, <2>1 DEF MissingAfter
<1>5. MissingAfter(S, R) \cap ((m + 1)..(n - 1)) = {}
  <2> SUFFICES ASSUME NEW h \in MissingAfter(S, R), h \in (m + 1)..(n - 1) PROVE FALSE
    OBVIOUS
  <2>1. PICK b \in R : b < h /\ h < Following(S, b)
    BY DEF MissingAfter
  <2>2. PICK k \in S : k = Following(S, b) /\ \A c \in S : c > b => k <= c
    BY FollowingIsNext
  <2>3. k <= m /\ h < k /\ h > m /\ k \in Nat /\ h \in Nat
    BY <1>2, <2>1, <2>2 DEF MissingAfter
  <2> QED
    BY <1>2, <2>3
<1>6. MissingAfter(S, R) \in SUBSET AuditBars /\ Gaps(S, R) \in SUBSET AuditBars
  BY DEF MissingAfter, Gaps, Followed
<1>7. IsFiniteSet(MissingAfter(S, R)) /\ IsFiniteSet(Gaps(S, R)) /\ Cardinality(MissingAfter(S, R)) \in Nat
      /\ Cardinality(Gaps(S, R)) \in Nat
  BY <1>6, BarsAreFinite, FS_CardinalityType
<1>8. IsFiniteSet((m + 1)..(n - 1)) /\ Cardinality((m + 1)..(n - 1)) = n - (m + 1)
  <2>1. m + 1 \in Int /\ n - 1 \in Int /\ (m + 1 > n - 1 => n = m + 1)
    BY <1>1, <1>2
  <2>2. IsFiniteSet((m + 1)..(n - 1)) /\ Cardinality((m + 1)..(n - 1)) = IF m + 1 > n - 1 THEN 0 ELSE (n - 1) - (m + 1) + 1
    BY <2>1, FS_Interval
  <2> QED
    BY <1>2, <2>1, <2>2
<1>9. Cardinality(MissingAfter(S, R \cup {m})) = Cardinality(MissingAfter(S, R)) + GapAfter(S, m)
  <2>1. Cardinality(MissingAfter(S, R \cup {m})) = Cardinality(MissingAfter(S, R)) + Cardinality((m + 1)..(n - 1)) - Cardinality({})
    <3> DEFINE A == MissingAfter(S, R)
               B == (m + 1)..(n - 1)
    <3>1. IsFiniteSet(A) /\ IsFiniteSet(B) /\ A \cap B = {} /\ MissingAfter(S, R \cup {m}) = A \cup B
      BY <1>4, <1>5, <1>7, <1>8
    <3> HIDE DEF A, B
    <3>2. Cardinality(A \cup B) = Cardinality(A) + Cardinality(B) - Cardinality(A \cap B)
      BY ONLY <3>1, FS_Union
    <3> QED
      BY ONLY <3>1, <3>2, Zenon DEF A, B
  <2> QED
    BY <1>1, <1>2, <1>7, <1>8, <2>1, FS_EmptySet
<1>10. Cardinality(Gaps(S, R \cup {m})) = Cardinality(Gaps(S, R)) + (IF GapAfter(S, m) > 0 THEN 1 ELSE 0)
  <2>1. m \notin Gaps(S, R)
    BY <1>2 DEF Gaps
  <2>2. CASE GapAfter(S, m) > 0
    <3>1. Gaps(S, R \cup {m}) = Gaps(S, R) \cup {m}
      BY <2>2 DEF Gaps
    <3> QED
      BY <1>7, <2>1, <2>2, <3>1, FS_AddElement
  <2>3. CASE ~(GapAfter(S, m) > 0)
    <3>1. Gaps(S, R \cup {m}) = Gaps(S, R)
      BY <2>3 DEF Gaps
    <3> QED
      BY <1>7, <2>3, <3>1
  <2> QED
    BY <2>2, <2>3
<1> QED
  BY <1>7, <1>9, <1>10

LEMMA OneWider ==
    ASSUME NEW S \in SUBSET AuditBars, NEW R \in SUBSET Followed(S), NEW m \in Followed(S)
    PROVE  /\ Widest(S, R) \in Nat
           /\ Widest(S, R \cup {m}) = IF GapAfter(S, m) > Widest(S, R) THEN GapAfter(S, m) ELSE Widest(S, R)
<1> DEFINE gaps == {GapAfter(S, b) : b \in R}
           more == {GapAfter(S, b) : b \in R \cup {m}}
<1>1. \A b \in Followed(S) : GapAfter(S, b) \in AuditBars /\ GapAfter(S, b) \in Nat
  <2> TAKE b \in Followed(S)
  <2>1. PICK n \in S : GapAfter(S, b) = n - (b + 1) /\ GapAfter(S, b) \in Nat
    BY FollowingIsNext
  <2>2. b \in Nat /\ n \in Nat /\ n <= LastAuditBar /\ LastAuditBar \in Nat
    BY BarsAreFinite, AuditAssumption DEF Followed, AuditBars, AuditAssumption
  <2> QED
    BY <2>1, <2>2 DEF AuditBars
<1>2. gaps \in SUBSET AuditBars /\ more \in SUBSET AuditBars /\ more = gaps \cup {GapAfter(S, m)} /\ more # {}
  BY <1>1
<1>3. PICK g \in Nat : g = GapAfter(S, m)
  BY <1>1
<1>4. PICK y \in more : y = Max(more) /\ \A c \in more : c <= y
  <2> HIDE DEF more
  <2> QED
    BY <1>2, EndsAreThere
<1>5. Widest(S, R \cup {m}) = y
  BY <1>4 DEF Widest
<1>6. CASE R = {}
  <2>1. Widest(S, R) = 0 /\ y = g
    BY <1>2, <1>3, <1>4, <1>6 DEF Widest
  <2> QED
    BY <1>3, <1>5, <2>1
<1>7. CASE R # {}
  <2>1. gaps # {}
    BY <1>7
  <2>2. PICK x \in gaps : x = Max(gaps) /\ \A c \in gaps : c <= x
    <3> HIDE DEF gaps
    <3> QED
      BY <1>2, <2>1, EndsAreThere
  <2>3. Widest(S, R) = x
    BY <1>7, <2>2 DEF Widest
  <2>4. x \in Nat /\ y \in Nat /\ x <= y /\ g <= y /\ (y = g \/ y <= x)
    <3> HIDE DEF gaps, more
    <3> QED
      BY <1>2, <1>3, <1>4, <2>2, BarsAreFinite
  <2> QED
    BY <1>3, <1>5, <2>3, <2>4
<1> QED
  BY <1>6, <1>7

\* The sum over the rows that another follows is the number of bars missing between them.
LEMMA AddedCounts ==
    ASSUME NEW S \in SUBSET AuditBars
    PROVE  \A R \in SUBSET Followed(S) : Added(S, Followed(S))[R] = Cardinality(MissingAfter(S, R))
<1> DEFINE F == Followed(S)
           sum == Added(S, F)
           Bad == {R \in SUBSET F : sum[R] # Cardinality(MissingAfter(S, R))}
<1>1. F \in SUBSET AuditBars
  BY DEF Followed
<1>2. Folding("sum", S, F, sum)
  <2> HIDE DEF F
  <2> QED
    BY <1>1, FoldsFold
<1> HIDE DEF sum, F
<1> SUFFICES ASSUME Bad # {} PROVE FALSE
  BY DEF sum, F
<1>3. PICK R \in Bad : \A t \in SUBSET R : t # R => t \notin Bad
  <2>1. Bad \subseteq SUBSET F
    OBVIOUS
  <2> HIDE DEF Bad
  <2> QED
    BY <1>1, <2>1, SmallestSet, Zenon
<1>4. sum[R] = IF R = {} THEN 0 ELSE GapAfter(S, Max(R)) + sum[R \ {Max(R)}]
  BY <1>2 DEF Folding, Base, Step
<1>5. R # {}
  <2>1. MissingAfter(S, {}) = {}
    BY DEF MissingAfter
  <2> QED
    BY <1>4, <2>1, FS_EmptySet
<1>6. R \in SUBSET AuditBars /\ R \in SUBSET F
  BY <1>1
<1>7. PICK m \in R : m = Max(R) /\ \A c \in R : c <= m
  BY <1>5, <1>6, EndsAreThere
<1> DEFINE q == R \ {m}
<1>8. \A b \in q : b < m
  BY <1>6, <1>7, BarsAreFinite
<1>9. sum[q] = Cardinality(MissingAfter(S, q))
  BY <1>3, <1>7
<1>10. q \in SUBSET Followed(S) /\ m \in Followed(S) /\ q \cup {m} = R
  BY <1>6, <1>7 DEF F
<1> HIDE DEF q
<1>11. Cardinality(MissingAfter(S, R)) = Cardinality(MissingAfter(S, q)) + GapAfter(S, m)
       /\ Cardinality(MissingAfter(S, q)) \in Nat /\ GapAfter(S, m) \in Nat
  BY <1>8, <1>10, OneGapMore, FollowingIsNext
<1>12. sum[R] = GapAfter(S, m) + sum[q]
  BY <1>4, <1>5, <1>7 DEF q
<1> QED
  BY <1>9, <1>11, <1>12

\* What a pass has counted up to some row.
Tally(S, d) ==
    [count |-> Cardinality(d), last |-> IF d = {} THEN -1 ELSE Max(d),
     gaps |-> Cardinality(Gaps(S, Followed(d))), missing |-> Cardinality(MissingAfter(S, Followed(d))),
     largest |-> Widest(S, Followed(d))]

UpToSome(S) == {d \in SUBSET S : \A b \in d, c \in S : c <= b => c \in d}

LEMMA TallyGrows ==
    ASSUME NEW S \in SUBSET AuditBars, NEW d \in UpToSome(S), d # {}, NEW m \in d, m = Max(d)
    PROVE  d \ {m} \in UpToSome(S) /\ WithRow(m, Tally(S, d \ {m})) = Tally(S, d)
<1> DEFINE r == d \ {m}
<1>1. d \in SUBSET AuditBars /\ r \in SUBSET AuditBars /\ d \in SUBSET S /\ r \in SUBSET S /\ m \in Nat
      /\ S \subseteq Nat /\ \A c \in d : c <= m
  BY EndsAreThere, BarsAreFinite DEF UpToSome
<1>2. r \in UpToSome(S)
  <2> SUFFICES ASSUME NEW b \in r, NEW c \in S, c <= b PROVE c \in r
    BY <1>1 DEF UpToSome
  <2>1. c \in d /\ b # m /\ b <= m /\ b \in Nat /\ c \in Nat
    BY <1>1 DEF UpToSome
  <2> QED
    BY <1>1, <2>1
<1>3. Cardinality(d) = Cardinality(r) + 1 /\ Cardinality(r) \in Nat /\ (Cardinality(r) = 0 <=> r = {})
  <2>1. IsFiniteSet(d) /\ IsFiniteSet(r)
    BY <1>1, BarsAreFinite
  <2>2. Cardinality(d) \in Nat /\ Cardinality(r) \in Nat /\ Cardinality(r) = Cardinality(d) - 1
    BY <2>1, FS_CardinalityType, FS_RemoveElement
  <2> QED
    BY <2>1, <2>2, FS_EmptySet
<1>4. CASE r = {}
  <2>1. d = {m} /\ Followed(d) = {} /\ Followed(r) = {}
    BY <1>1, <1>4 DEF Followed
  <2>2. Gaps(S, {}) = {} /\ MissingAfter(S, {}) = {} /\ Widest(S, {}) = 0
    BY DEF Gaps, MissingAfter, Widest
  <2>3. Tally(S, r) = Unseen
    BY <1>3, <1>4, <2>1, <2>2, FS_EmptySet DEF Tally, Unseen
  <2>4. Tally(S, d) = [count |-> 1, last |-> m, gaps |-> 0, missing |-> 0, largest |-> 0]
    <3>1. Cardinality(d) = 1 /\ d # {}
      BY <1>3, <1>4
    <3> HIDE DEF r
    <3> QED
      BY <2>1, <2>2, <3>1, FS_EmptySet DEF Tally
  <2> QED
    BY <1>2, <2>3, <2>4 DEF WithRow, WithGap, Unseen
<1>5. CASE r # {}
  <2>1. PICK p \in r : p = Max(r) /\ \A c \in r : c <= p
    BY <1>1, <1>5, EndsAreThere
  <2>2. p \in S /\ p \in Nat /\ p < m /\ m \in S /\ p \in Followed(S)
    BY <1>1, <2>1 DEF Followed
  <2>3. Following(S, p) = m
    <3>1. PICK n \in S : n = Following(S, p) /\ p < n /\ n <= m
      BY <2>2, FollowingIsNext
    <3>2. n \in d /\ n \in Nat
      BY <1>1, <3>1 DEF UpToSome
    <3>3. n \notin r
      BY <2>1, <2>2, <3>1, <3>2
    <3> QED
      BY <3>1, <3>2, <3>3
  <2>4. Followed(d) = Followed(r) \cup {p} /\ \A b \in Followed(r) : b < p
    <3>1. \A b \in Followed(r) : b \in r /\ b < p
      BY <1>1, <2>1, <2>2 DEF Followed
    <3>2. \A b \in r : b # p => b < p
      BY <1>1, <2>1, <2>2
    <3>3. \A b \in d : b \in r \/ b = m
      OBVIOUS
    <3>4. m \notin Followed(d)
      BY <1>1 DEF Followed
    <3>5. \A b \in r : b < m
      BY <1>1
    <3>6. r \subseteq Followed(d)
      BY <3>5 DEF Followed
    <3>7. Followed(d) \subseteq r /\ Followed(r) \subseteq r
      BY <3>4 DEF Followed
    <3>8. r \subseteq Followed(r) \cup {p}
      BY <2>1, <3>2 DEF Followed
    <3> HIDE DEF r
    <3> QED
      BY <2>1, <3>1, <3>6, <3>7, <3>8
  <2>5. Followed(r) \in SUBSET Followed(S)
    BY <1>1 DEF Followed
  <2>6. PICK g \in Nat : g = GapAfter(S, p) /\ g = Gap(p, m)
    BY <2>2, <2>3, FollowingIsNext DEF GapAfter
  <2>7. /\ Cardinality(MissingAfter(S, Followed(d))) = Cardinality(MissingAfter(S, Followed(r))) + g
        /\ Cardinality(Gaps(S, Followed(d))) = Cardinality(Gaps(S, Followed(r))) + (IF g > 0 THEN 1 ELSE 0)
        /\ Cardinality(Gaps(S, Followed(r))) \in Nat
    <3> DEFINE R == Followed(r)
    <3>1. R \in SUBSET Followed(S) /\ p \in Followed(S) /\ (\A b \in R : b < p) /\ Followed(d) = R \cup {p}
      BY <2>2, <2>4, <2>5
    <3> HIDE DEF R
    <3>2. /\ Cardinality(MissingAfter(S, R \cup {p})) = Cardinality(MissingAfter(S, R)) + GapAfter(S, p)
          /\ Cardinality(Gaps(S, R \cup {p})) = Cardinality(Gaps(S, R)) + (IF GapAfter(S, p) > 0 THEN 1 ELSE 0)
          /\ Cardinality(Gaps(S, R)) \in Nat
      BY <3>1, OneGapMore
    <3> QED
      BY <2>6, <3>1, <3>2 DEF R
  <2>8. Widest(S, Followed(d)) = IF g > Widest(S, Followed(r)) THEN g ELSE Widest(S, Followed(r))
    <3> DEFINE R == Followed(r)
    <3>1. R \in SUBSET Followed(S) /\ p \in Followed(S) /\ Followed(d) = R \cup {p}
      BY <2>2, <2>4, <2>5
    <3> HIDE DEF R
    <3>2. Widest(S, R \cup {p}) = IF GapAfter(S, p) > Widest(S, R) THEN GapAfter(S, p) ELSE Widest(S, R)
      BY <3>1, OneWider
    <3> QED
      BY <2>6, <3>1, <3>2 DEF R
  <2>9. WithRow(m, Tally(S, r)) = WithGap(m, g, Tally(S, r))
    BY <1>3, <1>5, <2>1, <2>6 DEF WithRow, Tally
  <2>10. WithGap(m, g, Tally(S, r)) =
           [count |-> Cardinality(r) + 1, last |-> m,
            gaps |-> IF g > 0 THEN Cardinality(Gaps(S, Followed(r))) + 1 ELSE Cardinality(Gaps(S, Followed(r))),
            missing |-> Cardinality(MissingAfter(S, Followed(r))) + g,
            largest |-> IF g > Widest(S, Followed(r)) THEN g ELSE Widest(S, Followed(r))]
    BY DEF WithGap, Tally
  <2>11. Tally(S, d) = WithGap(m, g, Tally(S, r))
    <3> HIDE DEF r
    <3> QED
      BY <1>3, <2>6, <2>7, <2>8, <2>10 DEF Tally
  <2> QED
    BY <1>2, <2>9, <2>11
<1> QED
  BY <1>4, <1>5

LEMMA PassedTallies ==
    ASSUME NEW S \in SUBSET AuditBars
    PROVE  \A d \in UpToSome(S) : Passed(S)[d] = Tally(S, d)
<1> DEFINE pass == Passed(S)
           Bad == {d \in UpToSome(S) : pass[d] # Tally(S, d)}
<1>1. Folding("pass", S, S, pass)
  BY FoldsFold
<1> HIDE DEF pass
<1> SUFFICES ASSUME Bad # {} PROVE FALSE
  BY DEF pass
<1>2. PICK d \in Bad : \A t \in SUBSET d : t # d => t \notin Bad
  <2>1. Bad \subseteq SUBSET S
    BY DEF UpToSome
  <2> HIDE DEF Bad
  <2> QED
    BY <2>1, SmallestSet, Zenon
<1>3. d \in UpToSome(S) /\ d \in SUBSET S /\ d \in SUBSET AuditBars
  BY DEF UpToSome
<1>4. pass[d] = IF d = {} THEN Unseen ELSE WithRow(Max(d), pass[d \ {Max(d)}])
  BY <1>1, <1>3 DEF Folding, Base, Step
<1>5. d # {}
  <2>1. Followed({}) = {} /\ Gaps(S, {}) = {} /\ MissingAfter(S, {}) = {} /\ Widest(S, {}) = 0
    BY DEF Followed, Gaps, MissingAfter, Widest
  <2>2. Tally(S, {}) = Unseen
    BY <2>1, FS_EmptySet DEF Tally, Unseen
  <2> QED
    BY <1>4, <2>2
<1>6. PICK m \in d : m = Max(d)
  BY <1>3, <1>5, EndsAreThere
<1>7. d \ {m} \in UpToSome(S) /\ WithRow(m, Tally(S, d \ {m})) = Tally(S, d)
  BY <1>3, <1>5, <1>6, TallyGrows
<1>8. pass[d \ {m}] = Tally(S, d \ {m})
  BY <1>2, <1>6, <1>7
<1> QED
  BY <1>4, <1>5, <1>6, <1>7, <1>8

\* The bars missing after all rows are those between the ends that are not there.
LEMMA AllMissing ==
    ASSUME NEW S \in SUBSET AuditBars, S # {}
    PROVE  MissingAfter(S, Followed(S)) = (First(S)..Max(S)) \ S
<1>1. PICK a \in S, z \in S : a = First(S) /\ z = Max(S) /\ \A c \in S : a <= c /\ c <= z
  BY EndsAreThere DEF First
<1>2. a \in Nat /\ z \in Nat /\ S \subseteq Nat /\ z <= LastAuditBar /\ LastAuditBar \in Nat
  BY <1>1, BarsAreFinite, AuditAssumption DEF AuditBars, AuditAssumption
<1>3. ASSUME NEW h \in MissingAfter(S, Followed(S)) PROVE h \in (a..z) \ S
  <2>1. PICK b \in Followed(S) : b < h /\ h < Following(S, b) /\ h \in Nat
    BY BarsAreFinite DEF MissingAfter
  <2>2. PICK n \in S : n = Following(S, b) /\ b \in S /\ \A c \in S : c > b => n <= c
    BY FollowingIsNext
  <2>3. n \in Nat /\ b \in Nat /\ a <= b /\ n <= z /\ h < n
    BY <1>1, <1>2, <2>1, <2>2
  <2>4. h \notin S
    BY <2>1, <2>2, <2>3
  <2> QED
    BY <1>2, <2>1, <2>3, <2>4
<1>4. ASSUME NEW h \in a..z, h \notin S PROVE h \in MissingAfter(S, Followed(S))
  <2> DEFINE before == {c \in S : c < h}
  <2>1. h \in Nat /\ h \in AuditBars /\ a < h /\ h < z
    BY <1>1, <1>2, <1>4 DEF AuditBars
  <2>2. before \in SUBSET AuditBars /\ before # {}
    BY <2>1
  <2>3. PICK b \in before : \A c \in before : c <= b
    <3> HIDE DEF before
    <3> QED
      BY <2>2, EndsAreThere
  <2>4. b \in S /\ b < h /\ b \in Nat /\ b \in Followed(S)
    BY <1>1, <1>2, <2>1 DEF Followed
  <2>5. PICK n \in S : n = Following(S, b) /\ b < n
    BY <2>4, FollowingIsNext
  <2>6. n \in Nat /\ ~(n < h) /\ n # h
    BY <1>2, <1>4, <2>3, <2>4, <2>5
  <2>7. h < n
    BY <2>1, <2>6
  <2> QED
    BY <2>1, <2>4, <2>5, <2>7 DEF MissingAfter
<1> QED
  BY <1>1, <1>3, <1>4

\* Both ways of counting agree, and count what is missing.
LEMMA PassCountsTrue ==
    ASSUME NEW S \in SUBSET AuditBars
    PROVE  /\ Streamed(S) = Listed(S)
           /\ S # {} => Streamed(S).missing = Cardinality((First(S)..Max(S)) \ S)
<1>1. S \in UpToSome(S)
  BY DEF UpToSome
<1>2. Passed(S)[S] = Tally(S, S)
  BY <1>1, PassedTallies
<1>3. Streamed(S) = [complete |-> Covers(S, AuditWindow), count |-> Cardinality(S),
               gaps |-> Cardinality(Gaps(S, Followed(S))), missing |-> Cardinality(MissingAfter(S, Followed(S))),
               largest |-> Widest(S, Followed(S))]
  BY <1>2, StreamedIsPassed DEF Tally
<1>4. Listed(S).missing = Cardinality(MissingAfter(S, Followed(S)))
  BY ListedIsAdded, AddedCounts
<1>5. Listed(S) = [complete |-> Covers(S, AuditWindow), count |-> Cardinality(S),
               gaps |-> Cardinality(Gaps(S, Followed(S))), missing |-> Listed(S).missing,
               largest |-> Widest(S, Followed(S))]
  BY DEF Listed, Gaps
<1> QED
  BY <1>3, <1>4, <1>5, AllMissing

-----------------------------------------------------------------------------
(* What an audit relies on while others store rows.                        *)

Coverages == {Streamed(S) : S \in SUBSET AuditBars}

Audits ==
    [at : {"coverage", "identity", "fingerprint"}, frame : DOMAIN AuditFrames, foreign : BOOLEAN,
     total : BOOLEAN, warm : BOOLEAN, coverage : Seq(Coverages), read : Seq(SUBSET AuditBars),
     analysed : SUBSET AuditBars]

\* What an audit has read is still there.
AuditHolds(a) ==
    /\ Len(a.coverage) = Len(a.read)
    /\ Len(a.read) = IF a.at = "coverage" THEN a.frame - 1 ELSE Len(AuditFrames)
    /\ \A i \in DOMAIN a.read :
           /\ a.read[i] \subseteq rows[AuditFrames[i]]
           /\ a.coverage[i] = Streamed(a.read[i])
           /\ a.at = "fingerprint" /\ a.total /\ AuditFrames[i] = Analysed => a.read[i] \subseteq a.analysed
    /\ a.at = "fingerprint" /\ a.total => a.analysed \subseteq rows[Analysed]

\* What is sealed of a frame is the outcome of one pass over rows of it.
PassesSealed ==
    manifest # Unsealed =>
        \A i \in DOMAIN AuditFrames :
            manifest.read[i] \in SUBSET AuditBars /\ manifest.coverage[i] = Streamed(manifest.read[i])

AuditInv ==
    /\ rows \in [AuditFrameSet -> SUBSET AuditBars] /\ foreign \in BOOLEAN
    /\ audit # NoAudit => audit \in Audits /\ AuditHolds(audit)
    /\ FingerprintsCover /\ PassesSealed

LEMMA StreamedCovers == \A S : Streamed(S).complete = Covers(S, AuditWindow)
  BY Zenon DEF Streamed

\* Whatever is stored meanwhile, the audit holds on.
LEMMA AuditHoldsOn ==
    ASSUME AuditInv, audit # NoAudit, audit' = audit, rows' \in [AuditFrameSet -> SUBSET AuditBars],
           \A f \in AuditFrameSet : rows[f] \subseteq rows'[f]
    PROVE  audit' \in Audits /\ AuditHolds(audit)'
<1>1. audit \in Audits /\ AuditHolds(audit)
  BY DEF AuditInv
<1>2. audit.frame \in 1..Len(AuditFrames) /\ Len(AuditFrames) \in Nat
  BY <1>1, AuditAssumption DEF Audits, AuditAssumption
<1>3. DOMAIN audit.read = 1..Len(audit.read) /\ Len(audit.read) \in Nat
  BY <1>1 DEF Audits
<1>4. Len(audit.read) <= Len(AuditFrames)
  BY <1>1, <1>2, <1>3 DEF AuditHolds
<1>5. \A i \in DOMAIN audit.read : AuditFrames[i] \in AuditFrameSet
  BY <1>2, <1>3, <1>4, AuditAssumption DEF AuditAssumption, AuditFrameSet
<1>6. Analysed \in AuditFrameSet
  BY AuditAssumption DEF AuditAssumption
<1> QED
  BY <1>1, <1>5, <1>6 DEF AuditHolds

LEMMA NextAuditInv == AuditInv /\ [AuditNext]_auditVars => AuditInv'
<1> SUFFICES ASSUME AuditInv, [AuditNext]_auditVars PROVE AuditInv'
  OBVIOUS
<1> USE AuditAssumption DEF AuditAssumption
<1>1. ASSUME NEW f \in AuditFrameSet, NEW from \in AuditBars, NEW to \in AuditBars, StoreRows(f, from, to)
      PROVE  AuditInv'
  <2>1. rows' = [rows EXCEPT ![f] = rows[f] \cup (from..to)] /\ audit' = audit /\ manifest' = manifest /\ foreign' = foreign
    BY <1>1 DEF StoreRows
  <2>2. from..to \subseteq AuditBars
    BY DEF AuditBars
  <2>3. rows' \in [AuditFrameSet -> SUBSET AuditBars]
    BY <2>1, <2>2 DEF AuditInv
  <2>4. \A g \in AuditFrameSet : rows[g] \subseteq rows'[g]
    BY <2>1 DEF AuditInv
  <2>5. audit' # NoAudit => audit' \in Audits /\ AuditHolds(audit)'
    BY <2>1, <2>3, <2>4, AuditHoldsOn
  <2> QED
    BY <2>1, <2>3, <2>5 DEF AuditInv, FingerprintsCover, PassesSealed
<1>2. CASE StoreForeign \/ UNCHANGED auditVars
  <2>1. rows' = rows /\ audit' = audit /\ manifest' = manifest /\ foreign' \in BOOLEAN
    BY <1>2 DEF StoreForeign, auditVars, AuditInv
  <2> QED
    BY <2>1 DEF AuditInv, FingerprintsCover, PassesSealed, AuditHolds
<1>3. CASE CountRows
  <2>1. /\ rows' = rows /\ manifest' = manifest /\ foreign' = foreign
        /\ audit' = [at |-> "coverage", frame |-> 1, foreign |-> foreign,
                 total |-> \E f \in AuditFrameSet : rows[f] # {},
                 warm |-> Cardinality(rows[Analysed]) >= Warmup,
                 coverage |-> <<>>, read |-> <<>>, analysed |-> {}]
    BY <1>3 DEF CountRows
  <2>2. 1 \in DOMAIN AuditFrames
    <3>1. AuditFrames # <<>>
      BY DEF AuditFrameSet
    <3> QED
      BY <3>1
  <2>3. PICK total \in BOOLEAN, warm \in BOOLEAN :
            audit' = [at |-> "coverage", frame |-> 1, foreign |-> foreign, total |-> total, warm |-> warm,
                      coverage |-> <<>>, read |-> <<>>, analysed |-> {}]
    <3>1. (\E f \in AuditFrameSet : rows[f] # {}) \in BOOLEAN
      BY Zenon
    <3>2. (Cardinality(rows[Analysed]) >= Warmup) \in BOOLEAN
      <4>1. rows[Analysed] \in SUBSET AuditBars
        BY DEF AuditInv
      <4>2. IsFiniteSet(AuditBars)
        BY FS_Interval DEF AuditBars
      <4>3. Cardinality(rows[Analysed]) \in Nat
        BY <4>1, <4>2, FS_Subset, FS_CardinalityType
      <4> QED
        BY <4>3
    <3> QED
      BY <2>1, <3>1, <3>2, Zenon
  <2>4. <<>> \in Seq(Coverages) /\ <<>> \in Seq(SUBSET AuditBars) /\ foreign \in BOOLEAN
    BY DEF AuditInv
  <2>5. audit' \in Audits
    BY <2>2, <2>3, <2>4 DEF Audits
  <2>6. AuditHolds(audit)'
    BY <2>3 DEF AuditHolds
  <2> QED
    BY <2>1, <2>5, <2>6 DEF AuditInv, FingerprintsCover, PassesSealed
<1>a. audit.at \in {"coverage", "identity", "fingerprint"} => audit # NoAudit /\ audit \in Audits /\ AuditHolds(audit)
  BY DEF AuditInv, NoAudit
<1>4. CASE ReadCoverage
  <2>1. /\ audit.at = "coverage" /\ audit \in Audits /\ AuditHolds(audit)
        /\ rows' = rows /\ manifest' = manifest /\ foreign' = foreign
    BY <1>4, <1>a DEF ReadCoverage
  <2>2. PICK n \in Nat, k \in Nat : n = Len(AuditFrames) /\ k \in 1..n /\ k = audit.frame /\ DOMAIN AuditFrames = 1..n
    BY <2>1 DEF Audits
  <2>3. PICK f \in AuditFrameSet : f = AuditFrames[k]
    BY <2>2 DEF AuditFrameSet
  <2>4. PICK S \in SUBSET AuditBars : S = rows[f]
    BY DEF AuditInv
  <2>5. PICK x \in Coverages : x = Streamed(S)
    BY DEF Coverages
  <2>6. audit' = [audit EXCEPT !.coverage = Append(audit.coverage, x), !.read = Append(audit.read, S),
                                  !.at = IF k = n THEN "identity" ELSE audit.at,
                                  !.frame = IF k = n THEN audit.frame ELSE audit.frame + 1]
    BY <1>4, <2>2, <2>3, <2>4, <2>5 DEF ReadCoverage
  <2>7. audit.coverage \in Seq(Coverages) /\ audit.read \in Seq(SUBSET AuditBars)
    BY <2>1 DEF Audits
  <2>8. Append(audit.coverage, x) \in Seq(Coverages) /\ Append(audit.read, S) \in Seq(SUBSET AuditBars)
    BY <2>7
  <2>9. (IF k = n THEN audit.frame ELSE audit.frame + 1) \in DOMAIN AuditFrames
    BY <2>2
  <2>10. audit' \in Audits
    BY <2>1, <2>6, <2>8, <2>9 DEF Audits
  <2>11. /\ audit'.coverage = Append(audit.coverage, x) /\ audit'.read = Append(audit.read, S)
         /\ audit'.at = (IF k = n THEN "identity" ELSE "coverage")
         /\ audit'.frame = (IF k = n THEN k ELSE k + 1)
    BY <2>1, <2>2, <2>6 DEF Audits
  <2>12. Len(audit.coverage) = k - 1 /\ Len(audit.read) = k - 1
    BY <2>1, <2>2 DEF AuditHolds
  <2>13. Len(audit'.coverage) = k /\ Len(audit'.read) = k /\ DOMAIN audit'.read = 1..k
    BY <2>2, <2>7, <2>8, <2>11, <2>12
  <2>14. ASSUME NEW i \in 1..k
         PROVE  audit'.read[i] \subseteq rows[AuditFrames[i]] /\ audit'.coverage[i] = Streamed(audit'.read[i])
    <3>1. CASE i = k
      <4>1. audit'.read[i] = S /\ audit'.coverage[i] = x
        BY <2>7, <2>11, <2>12, <3>1
      <4> QED
        BY <2>3, <2>4, <2>5, <3>1, <4>1
    <3>2. CASE i # k
      <4>1. i \in 1..(k - 1)
        BY <2>2, <3>2
      <4>2. audit'.read[i] = audit.read[i] /\ audit'.coverage[i] = audit.coverage[i] /\ i \in DOMAIN audit.read
        BY <2>7, <2>11, <2>12, <4>1
      <4> QED
        BY <2>1, <4>2 DEF AuditHolds
    <3> QED
      BY <3>1, <3>2
  <2>15. AuditHolds(audit)'
    <3>1. Len(audit'.read) = IF audit'.at = "coverage" THEN audit'.frame - 1 ELSE Len(AuditFrames)
      BY <2>2, <2>11, <2>13
    <3> QED
      BY <2>1, <2>11, <2>13, <2>14, <3>1 DEF AuditHolds
  <2> QED
    BY <2>1, <2>10, <2>15 DEF AuditInv, FingerprintsCover, PassesSealed
<1>5. CASE ReadIdentity
  <2>1. /\ audit.at = "identity" /\ audit \in Audits /\ AuditHolds(audit)
        /\ rows' = rows /\ manifest' = manifest /\ foreign' = foreign
    BY <1>5, <1>a DEF ReadIdentity
  <2>2. Identified[Analysed] \in SUBSET AuditBars
    BY DEF Identified, AuditInv
  <2>3. audit' = [audit EXCEPT !.at = "fingerprint", !.analysed = Identified[Analysed]]
    BY <1>5 DEF ReadIdentity
  <2>4. audit' \in Audits
    BY <2>1, <2>2, <2>3 DEF Audits
  <2>5. /\ audit'.read = audit.read /\ audit'.coverage = audit.coverage /\ audit'.at = "fingerprint"
        /\ audit'.total = audit.total /\ audit'.analysed = Identified[Analysed]
    BY <2>1, <2>3 DEF Audits
  <2>6. audit.total => Identified[Analysed] = rows[Analysed]
    BY DEF Identified
  <2>7. AuditHolds(audit)'
    BY <2>1, <2>5, <2>6 DEF AuditHolds
  <2> QED
    BY <2>1, <2>4, <2>7 DEF AuditInv, FingerprintsCover, PassesSealed
<1>6. ASSUME NEW macro \in BOOLEAN, NEW friction \in BOOLEAN, NEW quotes \in BOOLEAN, Seal(macro, friction, quotes)
      PROVE  AuditInv'
  <2>1. /\ audit.at = "fingerprint" /\ audit \in Audits /\ AuditHolds(audit)
        /\ rows' = rows /\ foreign' = foreign /\ audit' = NoAudit
        /\ manifest' = [decision |-> Decision(macro, friction, quotes), coverage |-> audit.coverage,
                    read |-> audit.read, analysed |-> audit.analysed, all |-> Identified]
    BY <1>6, <1>a DEF Seal
  <2>0. /\ DOMAIN audit.read = DOMAIN AuditFrames /\ DOMAIN audit.coverage = DOMAIN AuditFrames
        /\ \A i \in DOMAIN AuditFrames : audit.read[i] \in SUBSET AuditBars /\ audit.coverage[i] = Streamed(audit.read[i])
    <3>1. /\ DOMAIN audit.read = 1..Len(audit.read) /\ DOMAIN audit.coverage = 1..Len(audit.coverage)
          /\ DOMAIN AuditFrames = 1..Len(AuditFrames) /\ audit.read \in Seq(SUBSET AuditBars)
      BY <2>1 DEF Audits
    <3>2. Len(audit.read) = Len(AuditFrames) /\ Len(audit.coverage) = Len(audit.read)
      BY <2>1 DEF AuditHolds
    <3>3. \A i \in DOMAIN audit.read : audit.coverage[i] = Streamed(audit.read[i])
      BY <2>1 DEF AuditHolds
    <3> QED
      BY <3>1, <3>2, <3>3
  <2>p. PassesSealed'
    BY <2>0, <2>1 DEF PassesSealed
  <2>2. SUFFICES ASSUME Decision(macro, friction, quotes) \in CandlesReady,
                        NEW i \in DOMAIN AuditFrames, NEW f, f = AuditFrames[i], NEW seen, seen = audit.read[i]
                 PROVE  /\ Covers(Identified[f], AuditWindow)
                        /\ seen \subseteq Identified[f]
                        /\ f = Analysed => seen \subseteq audit.analysed /\ audit.analysed \subseteq Identified[f]
    BY <2>1, <2>p DEF AuditInv, FingerprintsCover
  <2>3. audit.total /\ \A j \in DOMAIN audit.coverage : audit.coverage[j].complete
    <3>1. "CALIBRATION_DATA_NOT_READY" \notin CandlesReady
      BY DEF CandlesReady
    <3>2. audit.total
      <4>1. ~audit.total => Decision(macro, friction, quotes) = "CALIBRATION_DATA_NOT_READY"
        BY DEF Decision
      <4> QED
        BY <2>2, <3>1, <4>1
    <3>3. ASSUME NEW j \in DOMAIN audit.coverage, ~audit.coverage[j].complete PROVE FALSE
      <4>1. Decision(macro, friction, quotes) = "CALIBRATION_DATA_NOT_READY"
        BY <3>3 DEF Decision
      <4> QED
        BY <2>2, <3>1, <4>1
    <3> QED
      BY <3>2, <3>3
  <2>4. Identified = rows
    BY <2>3 DEF Identified
  <2>5. i \in DOMAIN audit.read /\ i \in DOMAIN audit.coverage
    BY <2>0, <2>2
  <2>6. f \in AuditFrameSet /\ seen \in SUBSET AuditBars /\ rows[f] \in SUBSET AuditBars
    <3>1. f \in AuditFrameSet
      BY <2>2 DEF AuditFrameSet
    <3>2. seen \in SUBSET AuditBars
      BY <2>0, <2>2
    <3> QED
      BY <3>1, <3>2 DEF AuditInv
  <2>7. seen \subseteq rows[f] /\ Covers(seen, AuditWindow)
    <3>1. seen \subseteq rows[f]
      BY <2>1, <2>2, <2>5 DEF AuditHolds
    <3>2. Covers(seen, AuditWindow)
      BY <2>0, <2>2, <2>3, <2>5, StreamedCovers
    <3> QED
      BY <3>1, <3>2
  <2>8. Covers(rows[f], AuditWindow)
    BY <2>6, <2>7, CoverGrows
  <2>9. f = Analysed => seen \subseteq audit.analysed /\ audit.analysed \subseteq rows[f]
    BY <2>1, <2>2, <2>3, <2>5 DEF AuditHolds
  <2> QED
    BY <2>4, <2>7, <2>8, <2>9
<1> QED
  BY <1>1, <1>2, <1>3, <1>4, <1>5, <1>6 DEF AuditNext

LEMMA AuditStarts == AuditInit => AuditInv
  BY DEF AuditInit, AuditInv, FingerprintsCover, PassesSealed, Unsealed, NoAudit

\* A manifest counts the bars that were missing between the rows it read, and one whose candles
\* are ready fingerprints rows that reach across the window and hold all that was read, whatever
\* was stored between the queries of readiness.py.
THEOREM ManifestsAreTrue == AuditSpec => []ManifestIsTrue
<1>1. AuditInv => ManifestIsTrue
  <2>1. ASSUME PassesSealed PROVE CountsAreTrue
    BY <2>1, PassCountsTrue DEF PassesSealed, CountsAreTrue
  <2> QED
    BY <2>1 DEF AuditInv, ManifestIsTrue
<1> QED
  BY <1>1, AuditStarts, NextAuditInv, PTL DEF AuditSpec
=============================================================================
