---------------------- MODULE DecisionPipeline_proofs ----------------------
(* Safety of DecisionPipeline for any number of candles, workers, retries,  *)
(* faults and late rows.                                                    *)
EXTENDS DecisionPipeline, FiniteSetTheorems, TLAPS

-----------------------------------------------------------------------------
(* Facts about the operators of the model.                                 *)

\* Appending a row adds exactly that row to the recorded ones.
LEMMA AppendRecords ==
    ASSUME signals \in Seq(Fingerprints), NEW f \in Fingerprints,
           signals' = Append(signals, f)
    PROVE  Recorded' = Recorded \cup {f}
<1>1. /\ Len(signals') = Len(signals) + 1
      /\ \A i \in 1..Len(signals) : signals'[i] = signals[i]
      /\ signals'[Len(signals) + 1] = f
      /\ Len(signals) \in Nat
  OBVIOUS
<1>2. DOMAIN signals = 1..Len(signals) /\ DOMAIN signals' = 1..(Len(signals) + 1)
  OBVIOUS
<1> QED
  BY <1>1, <1>2 DEF Recorded

\* Recorded rows are fingerprints.
LEMMA RecordedType == signals \in Seq(Fingerprints) => Recorded \subseteq Fingerprints
  BY DEF Recorded

\* Queueing one first attempt per candle keeps every queue within its bound.
LEMMA EnqueueType ==
    ASSUME queue \in [Messages -> 0..MaxCopies], NEW U, EnqueueFirst(U)
    PROVE  queue' \in [Messages -> 0..MaxCopies]
<1>1. ASSUME NEW m \in Messages, m.attempt = 0, m.candle \in U
      PROVE  queue[m] + 1 \in 0..MaxCopies
  <2>1. m = First(m.candle)
    BY <1>1 DEF Messages, First
  <2>2. queue[m] < MaxCopies /\ queue[m] \in 0..MaxCopies
    BY <1>1, <2>1 DEF EnqueueFirst
  <2> QED
    BY <2>2, BoundsAssumption
<1> QED
  BY <1>1 DEF EnqueueFirst

-----------------------------------------------------------------------------
(* Types.                                                                  *)

LEMMA InitType == Init => TypeOK
<1> SUFFICES ASSUME Init PROVE TypeOK
  OBVIOUS
<1>1. signals \in Seq(Fingerprints)
  BY DEF Init
<1>2. queue \in [Messages -> 0..MaxCopies] /\ errors \in 0..MaxErrors /\ crashes \in 0..MaxCrashes
  BY BoundsAssumption DEF Init
<1>3. pc \in [Workers -> Steps] /\ job \in [Workers -> Messages \cup {None}]
      /\ fp \in [Workers -> NullableFingerprint] /\ owes \in [Workers -> NullableFingerprint]
  BY DEF Init, Steps, NullableFingerprint
<1>4. alert \in [Fingerprints -> AlertStatuses] /\ sends \in [Fingerprints -> Nat]
      /\ evaluations \in [Candles -> Nat]
  BY DEF Init, AlertStatuses
<1>5. monitor \in [signal: NullableFingerprint, plan: NullableFingerprint, sequence: Nat]
  BY DEF Init, NullableFingerprint
<1> QED
  BY <1>1, <1>2, <1>3, <1>4, <1>5 DEF Init, TypeOK

\* A step keeps the types, given that every task that is not idle has its message.
LEMMA NextType == TypeOK /\ TaskIsConsistent /\ [Next]_vars => TypeOK'
<1> SUFFICES ASSUME TypeOK, TaskIsConsistent, [Next]_vars PROVE TypeOK'
  OBVIOUS
<1>t. \A w \in Workers : pc[w] # "idle" => job[w] \in Messages
  BY DEF TaskIsConsistent, ConsistentTask
<1>a. \A w \in Workers : owes[w] # None => owes[w] \in Fingerprints
  BY DEF TypeOK, NullableFingerprint
<1>s. \A w \in Workers : pc[w] \in {"saveSignal"} \cup Decided => fp[w] \in Fingerprints
  BY DEF TaskIsConsistent, ConsistentTask
<1> USE BoundsAssumption DEF TypeOK, Steps, AlertStatuses, NullableFingerprint,
        rowVars, workVars, monVars, alertVars, obsVars, faultVars
<1>1. ASSUME NEW c \in Candles, IngestCandle(c) PROVE TypeOK'
  BY <1>1, EnqueueType DEF IngestCandle
<1>2. ASSUME NEW c \in Candles, IngestWithoutDispatch(c) PROVE TypeOK'
  BY <1>2 DEF IngestWithoutDispatch, ProcessDies
<1>3. ASSUME NEW r \in LateRows, ArriveLateRow(r) PROVE TypeOK'
  BY <1>3 DEF ArriveLateRow
<1>4. CASE CatchUp
  BY <1>4, EnqueueType DEF CatchUp
<1>5. ASSUME NEW w \in Workers, NEW m \in Messages, Receive(w, m) PROVE TypeOK'
  <2>1. queue[m] - 1 \in 0..MaxCopies
    BY <1>5 DEF Receive
  <2>2. queue' \in [Messages -> 0..MaxCopies]
    BY <1>5, <2>1 DEF Receive
  <2>3. pc' \in [Workers -> Steps] /\ job' \in [Workers -> Messages \cup {None}]
    BY <1>5 DEF Receive, Goto
  <2> QED
    BY <1>5, <2>2, <2>3 DEF Receive
<1>6. ASSUME NEW w \in Workers, Guard(w) PROVE TypeOK'
  BY <1>6, RecordedType DEF Guard, AlreadyProcessed, Goto
<1>7. ASSUME NEW w \in Workers, ReadHistory(w) PROVE TypeOK'
  BY <1>7, <1>t DEF ReadHistory, Goto, Messages, Fingerprints
<1>8. ASSUME NEW w \in Workers, SaveSignal(w) PROVE TypeOK'
  BY <1>8, <1>s DEF SaveSignal, Persisted, AfterSave, Goto
<1>9. ASSUME NEW w \in Workers, SavePlan(w) PROVE TypeOK'
  BY <1>9, <1>s DEF SavePlan, Goto, Decided
<1>10. ASSUME NEW w \in Workers, CommitDecision(w) PROVE TypeOK'
  <2>1. fp[w] \in Fingerprints /\ job[w] \in Messages
    BY <1>10, <1>s, <1>t DEF CommitDecision, NewAlert, Decided
  <2>2. monitor' \in [signal: NullableFingerprint, plan: NullableFingerprint, sequence: Nat]
    BY <1>10, <2>1 DEF CommitDecision, NewAlert
  <2>3. evaluations' \in [Candles -> Nat]
    BY <1>10, <2>1 DEF CommitDecision, NewAlert, Messages
  <2>4. alert' \in [Fingerprints -> AlertStatuses] /\ owes' \in [Workers -> NullableFingerprint]
    BY <1>10, <2>1 DEF CommitDecision, NewAlert
  <2>5. pc' \in [Workers -> Steps]
    BY <1>10 DEF CommitDecision, NewAlert, Goto
  <2> QED
    BY <1>10, <2>2, <2>3, <2>4, <2>5 DEF CommitDecision, NewAlert
<1>11. ASSUME NEW w \in Workers, RunHooks(w) PROVE TypeOK'
  <2>1. alert' \in [Fingerprints -> AlertStatuses]
    BY <1>11 DEF RunHooks
  <2>2. sends' \in [Fingerprints -> Nat]
    <3>1. CASE sends' = sends
      BY <3>1
    <3>2. CASE owes[w] # None /\ sends' = [sends EXCEPT ![owes[w]] = @ + 1]
      <4>1. owes[w] \in Fingerprints
        BY <3>2, <1>a
      <4>2. sends[owes[w]] + 1 \in Nat
        BY <4>1
      <4> QED
        BY <3>2, <4>2
    <3> QED
      BY <1>11, <3>1, <3>2 DEF RunHooks
  <2>3. pc' \in [Workers -> Steps] /\ owes' \in [Workers -> NullableFingerprint]
    BY <1>11 DEF RunHooks, Goto
  <2> QED
    BY <1>11, <2>1, <2>2, <2>3 DEF RunHooks
<1>12. ASSUME NEW w \in Workers, MarkAlert(w) PROVE TypeOK'
  BY <1>12, <1>a DEF MarkAlert, Goto
<1>13. ASSUME NEW w \in Workers, HandOn(w) PROVE TypeOK'
  BY <1>13, <1>s DEF HandOn, Goto, Finish, Decided
<1>14. ASSUME NEW w \in Workers, HandOnFails(w) PROVE TypeOK'
  BY <1>14 DEF HandOnFails, Goto, Finish, StatementRaises
<1>15. ASSUME NEW w \in Workers, TaskFails(w) PROVE TypeOK'
  <2>1. job[w] \in Messages
    BY <1>15, <1>t DEF TaskFails, Retries
  <2>2. queue' \in [Messages -> 0..MaxCopies]
    <3> DEFINE again == Again(job[w])
    <3>1. CASE job[w].attempt < MaxRetries
      <4>1. again \in Messages
        BY <2>1, <3>1 DEF Messages, Again
      <4>2. queue[again] + 1 \in 0..MaxCopies /\ queue' = [queue EXCEPT ![again] = @ + 1]
        <5>1. queue[again] < MaxCopies /\ queue' = [queue EXCEPT ![again] = @ + 1]
          BY <1>15, <3>1 DEF TaskFails, Retries
        <5>2. queue[again] \in 0..MaxCopies
          BY <4>1
        <5> QED
          BY <5>1, <5>2
      <4> QED
        BY <4>1, <4>2
    <3>2. CASE ~(job[w].attempt < MaxRetries)
      BY <1>15, <3>2 DEF TaskFails, Retries
    <3> QED
      BY <3>1, <3>2
  <2> QED
    BY <1>15, <2>2 DEF TaskFails, Retries, Goto, Finish, StatementRaises
<1>16. ASSUME NEW w \in Workers, WorkerKilled(w) PROVE TypeOK'
  BY <1>16 DEF WorkerKilled, Goto, Finish, ProcessDies
<1>17. CASE ReconstructRead
  BY <1>17, RecordedType DEF ReconstructRead
<1>18. CASE ReconstructWrite
  BY <1>18 DEF ReconstructWrite
<1>19. ASSUME NEW f \in Fingerprints, Observe(f) PROVE TypeOK'
  BY <1>19 DEF Observe
<1>20. ASSUME NEW f \in Fingerprints, LoseObservation(f) PROVE TypeOK'
  BY <1>20 DEF LoseObservation, ProcessDies
<1>21. CASE UNCHANGED vars
  BY <1>21 DEF vars
<1>22. ASSUME NEW c \in Candles, BackfillCandle(c) PROVE TypeOK'
  BY <1>22 DEF BackfillCandle
<1> QED
  BY <1>1, <1>2, <1>3, <1>4, <1>5, <1>6, <1>7, <1>8, <1>9, <1>10, <1>11, <1>12, <1>13,
     <1>14, <1>15, <1>16, <1>17, <1>18, <1>19, <1>20, <1>21, <1>22
  DEF Next, WorkerStep, WorkerFault
-----------------------------------------------------------------------------
(* Consistency of the tasks and of the rows they write.                    *)

RowsAreConsistent ==
    /\ ProjectionIsDurable
    /\ ReadsAreDurable
    /\ AlertAtMostOnce
    /\ AlertIsBacked
    /\ ObservationIsBacked

\* The inductive invariant.  The rows need the tasks: what a task writes next is
\* sound only because of what it knows to be committed already.
Consistent == TypeOK /\ TaskIsConsistent /\ RowsAreConsistent

LEMMA InitConsistent == Init => Consistent
<1> SUFFICES ASSUME Init PROVE Consistent
  OBVIOUS
<1>1. TypeOK
  BY InitType
<1>2. TaskIsConsistent
  BY DEF Init, TaskIsConsistent, ConsistentTask, Decided
<1>3. RowsAreConsistent
  BY NoneAssumption DEF Init, RowsAreConsistent, ProjectionIsDurable, ReadsAreDurable,
     AlertAtMostOnce, AlertIsBacked, ObservationIsBacked
<1> QED
  BY <1>1, <1>2, <1>3 DEF Consistent

\* A step keeps every task consistent, its own and the others'.
LEMMA NextTask == Consistent /\ [Next]_vars => TaskIsConsistent'
<1> SUFFICES ASSUME Consistent, [Next]_vars PROVE TaskIsConsistent'
  OBVIOUS
<1>t. TypeOK'
  BY NextType DEF Consistent
<1> USE NoneAssumption, CandidateAssumption DEF Consistent, TaskIsConsistent, ConsistentTask, RowsAreConsistent, AlertAtMostOnce,
        Decided, Recorded, Window,
        rowVars, workVars, monVars, alertVars, obsVars, faultVars
<1>1. ASSUME NEW c \in Candles, IngestCandle(c) PROVE TaskIsConsistent'
  BY <1>1 DEF IngestCandle, TypeOK
<1>2. ASSUME NEW c \in Candles, IngestWithoutDispatch(c) PROVE TaskIsConsistent'
  BY <1>2 DEF IngestWithoutDispatch, TypeOK
<1>3. ASSUME NEW r \in LateRows, ArriveLateRow(r) PROVE TaskIsConsistent'
  BY <1>3 DEF ArriveLateRow, TypeOK
<1>4. CASE CatchUp
  BY <1>4 DEF CatchUp, TypeOK
<1>5. ASSUME NEW w \in Workers, NEW m \in Messages, Receive(w, m) PROVE TaskIsConsistent'
  BY <1>5 DEF Receive, Goto, TypeOK
<1>6. ASSUME NEW w \in Workers, Guard(w) PROVE TaskIsConsistent'
  BY <1>6, RecordedType DEF Guard, AlreadyProcessed, Goto, TypeOK
<1>7. ASSUME NEW w \in Workers, ReadHistory(w) PROVE TaskIsConsistent'
  <2>1. job[w] \in Messages /\ [candle |-> job[w].candle, seen |-> history] \in Fingerprints
    BY <1>7 DEF ReadHistory, Messages, Fingerprints, TypeOK
  <2>2. fp'[w].candle = job[w].candle /\ fp'[w] \in Fingerprints
    BY <1>7, <2>1 DEF ReadHistory, TypeOK
  <2> SUFFICES ASSUME NEW v \in Workers PROVE ConsistentTask(v)'
    BY DEF TaskIsConsistent
  <2>3. CASE v = w
    BY <1>7, <2>1, <2>2, <2>3 DEF ReadHistory, Goto, TypeOK
  <2>4. CASE v # w
    BY <1>7, <2>4 DEF ReadHistory, Goto, TypeOK
  <2> QED
    BY <2>3, <2>4
<1>8. ASSUME NEW w \in Workers, SaveSignal(w) PROVE TaskIsConsistent'
  <2>1. fp[w] \in Fingerprints
    BY <1>8 DEF SaveSignal, Persisted, AfterSave
  <2> HIDE DEF Recorded
  <2>2. Recorded' = Recorded \cup {fp[w]}
    <3>1. CASE fp[w] \in Recorded /\ signals' = signals
      BY <3>1 DEF Recorded
    <3>2. CASE signals' = Append(signals, fp[w])
      BY <2>1, <3>2, AppendRecords DEF TypeOK
    <3> QED
      BY <1>8, <3>1, <3>2 DEF SaveSignal, Persisted, AfterSave
  <2> SUFFICES ASSUME NEW v \in Workers PROVE ConsistentTask(v)'
    BY DEF TaskIsConsistent
  <2>3. CASE v = w
    <3>1. /\ pc'[w] = IF Candidate[fp[w]] = "window" THEN "savePlan" ELSE "commit"
          /\ UNCHANGED <<job, fp, owes, plans, alert, sends>>
      BY <1>8 DEF SaveSignal, Persisted, AfterSave, Goto, TypeOK
    <3>2. fp'[w] \in Fingerprints /\ fp'[w] \in Recorded' /\ fp'[w].candle = job'[w].candle
      BY <1>8, <2>1, <2>2, <3>1 DEF SaveSignal, Persisted, AfterSave
    <3>3. job'[w] \in Messages /\ owes'[w] = None
      BY <1>8, <3>1 DEF SaveSignal, Persisted, AfterSave
    <3> QED
      BY <2>3, <3>1, <3>2, <3>3
  <2>4. CASE v # w
    BY <1>8, <2>2, <2>4 DEF SaveSignal, Persisted, AfterSave, Goto, TypeOK
  <2> QED
    BY <2>3, <2>4
<1>9. ASSUME NEW w \in Workers, SavePlan(w) PROVE TaskIsConsistent'
  BY <1>9 DEF SavePlan, Goto, TypeOK
<1>10. ASSUME NEW w \in Workers, CommitDecision(w) PROVE TaskIsConsistent'
  <2>1. /\ fp[w] \in Fingerprints
        /\ UNCHANGED <<signals, plans, sends>>
        /\ pc' = [pc EXCEPT ![w] = "hooks"]
    BY <1>10 DEF CommitDecision, NewAlert, Goto
  <2>2. \/ UNCHANGED <<alert, owes>>
        \/ /\ alert[fp[w]] = "NONE"
           /\ alert' = [alert EXCEPT ![fp[w]] = "PENDING"]
           /\ owes' = [owes EXCEPT ![w] = fp[w]]
    BY <1>10 DEF CommitDecision, NewAlert
  <2> SUFFICES ASSUME NEW v \in Workers PROVE ConsistentTask(v)'
    BY DEF TaskIsConsistent
  <2>3. CASE v = w
    BY <1>10, <2>1, <2>2, <2>3 DEF CommitDecision, NewAlert, TypeOK
  <2>4. CASE v # w
    <3>1. UNCHANGED <<job, fp>> /\ pc'[v] = pc[v] /\ owes'[v] = owes[v]
      BY <1>10, <2>1, <2>2, <2>4 DEF CommitDecision, NewAlert, TypeOK
    <3>2. owes[v] # None => alert'[owes[v]] = "PENDING"
      BY <2>1, <2>2 DEF TypeOK, NullableFingerprint
    <3>3. owes[v] # None => owes'[w] # owes[v]
      BY <2>1, <2>2, <2>4, <1>10 DEF TypeOK, CommitDecision, NewAlert
    <3>4. \A u \in Workers \ {v, w} : owes'[u] = owes[u]
      BY <2>2 DEF TypeOK
    <3> QED
      BY <2>1, <2>4, <3>1, <3>2, <3>3, <3>4
  <2> QED
    BY <2>3, <2>4
<1>11. ASSUME NEW w \in Workers, RunHooks(w) PROVE TaskIsConsistent'
  <2> SUFFICES ASSUME NEW v \in Workers PROVE ConsistentTask(v)'
    BY DEF TaskIsConsistent
  <2>1. CASE owes[w] = None /\ pc' = [pc EXCEPT ![w] = "handOn"] /\ UNCHANGED <<owes, alert, sends>>
    BY <1>11, <2>1 DEF RunHooks, TypeOK
  <2>2. CASE /\ owes[w] # None
             /\ alert' = [alert EXCEPT ![owes[w]] = "DISABLED"]
             /\ owes' = [owes EXCEPT ![w] = None]
             /\ pc' = [pc EXCEPT ![w] = "handOn"]
             /\ UNCHANGED sends
    BY <1>11, <2>2 DEF RunHooks, TypeOK
  <2>3. CASE /\ owes[w] # None
             /\ sends' = [sends EXCEPT ![owes[w]] = @ + 1]
             /\ pc' = [pc EXCEPT ![w] = "mark"]
             /\ UNCHANGED <<owes, alert>>
    BY <1>11, <2>3 DEF RunHooks, TypeOK, NullableFingerprint
  <2> QED
    BY <1>11, <2>1, <2>2, <2>3 DEF RunHooks, Goto
<1>12. ASSUME NEW w \in Workers, MarkAlert(w) PROVE TaskIsConsistent'
  BY <1>12 DEF MarkAlert, Goto, TypeOK
<1>13. ASSUME NEW w \in Workers, HandOn(w) PROVE TaskIsConsistent'
  BY <1>13 DEF HandOn, Goto, Finish, TypeOK
<1>14. ASSUME NEW w \in Workers, HandOnFails(w) PROVE TaskIsConsistent'
  BY <1>14 DEF HandOnFails, Goto, Finish, TypeOK
<1>15. ASSUME NEW w \in Workers, TaskFails(w) PROVE TaskIsConsistent'
  BY <1>15 DEF TaskFails, Retries, Goto, Finish, TypeOK
<1>16. ASSUME NEW w \in Workers, WorkerKilled(w) PROVE TaskIsConsistent'
  BY <1>16 DEF WorkerKilled, Goto, Finish, TypeOK
<1>17. CASE ReconstructRead
  BY <1>17, RecordedType DEF ReconstructRead, TypeOK
<1>18. CASE ReconstructWrite
  BY <1>18 DEF ReconstructWrite, TypeOK
<1>19. ASSUME NEW f \in Fingerprints, Observe(f) PROVE TaskIsConsistent'
  BY <1>19 DEF Observe, TypeOK
<1>20. ASSUME NEW f \in Fingerprints, LoseObservation(f) PROVE TaskIsConsistent'
  BY <1>20 DEF LoseObservation, TypeOK
<1>21. CASE UNCHANGED vars
  BY <1>21 DEF vars, TypeOK
<1>22. ASSUME NEW c \in Candles, BackfillCandle(c) PROVE TaskIsConsistent'
  BY <1>22 DEF BackfillCandle, TypeOK
<1> QED
  BY <1>1, <1>2, <1>3, <1>4, <1>5, <1>6, <1>7, <1>8, <1>9, <1>10, <1>11, <1>12, <1>13,
     <1>14, <1>15, <1>16, <1>17, <1>18, <1>19, <1>20, <1>21, <1>22
  DEF Next, WorkerStep, WorkerFault

\* A step keeps the rows consistent.
LEMMA NextRows == Consistent /\ [Next]_vars => RowsAreConsistent'
<1> SUFFICES ASSUME Consistent, [Next]_vars PROVE RowsAreConsistent'
  OBVIOUS
<1>t. TypeOK'
  BY NextType DEF Consistent
<1> USE NoneAssumption, CandidateAssumption DEF Consistent, TaskIsConsistent, ConsistentTask, RowsAreConsistent, ProjectionIsDurable,
        ReadsAreDurable, AlertAtMostOnce, AlertIsBacked, ObservationIsBacked, Decided, Recorded, Window, Quiet,
        rowVars, workVars, monVars, alertVars, obsVars, faultVars
<1>1. ASSUME NEW c \in Candles, IngestCandle(c) PROVE RowsAreConsistent'
  BY <1>1 DEF IngestCandle, TypeOK
<1>2. ASSUME NEW c \in Candles, IngestWithoutDispatch(c) PROVE RowsAreConsistent'
  BY <1>2 DEF IngestWithoutDispatch, TypeOK
<1>3. ASSUME NEW r \in LateRows, ArriveLateRow(r) PROVE RowsAreConsistent'
  BY <1>3 DEF ArriveLateRow, TypeOK
<1>4. CASE CatchUp
  BY <1>4 DEF CatchUp, TypeOK
<1>5. ASSUME NEW w \in Workers, NEW m \in Messages, Receive(w, m) PROVE RowsAreConsistent'
  BY <1>5 DEF Receive, Goto, TypeOK
<1>6. ASSUME NEW w \in Workers, Guard(w) PROVE RowsAreConsistent'
  BY <1>6, RecordedType DEF Guard, AlreadyProcessed, Goto, TypeOK
<1>7. ASSUME NEW w \in Workers, ReadHistory(w) PROVE RowsAreConsistent'
  BY <1>7 DEF ReadHistory, Goto, TypeOK
<1>8. ASSUME NEW w \in Workers, SaveSignal(w) PROVE RowsAreConsistent'
  <2>1. fp[w] \in Fingerprints
    BY <1>8 DEF SaveSignal, Persisted, AfterSave
  <2> HIDE DEF Recorded
  <2>2. Recorded' = Recorded \cup {fp[w]}
    <3>1. CASE fp[w] \in Recorded /\ signals' = signals
      BY <3>1 DEF Recorded
    <3>2. CASE signals' = Append(signals, fp[w])
      BY <2>1, <3>2, AppendRecords DEF TypeOK
    <3> QED
      BY <1>8, <3>1, <3>2 DEF SaveSignal, Persisted, AfterSave
  <2> QED
    <3>1. UNCHANGED <<plans, monitor, recon, alert, sends, toObserve, observed>>
      BY <1>8 DEF SaveSignal, Persisted, AfterSave
    <3> QED
      BY <2>2, <3>1
<1>9. ASSUME NEW w \in Workers, SavePlan(w) PROVE RowsAreConsistent'
  BY <1>9 DEF SavePlan, Goto, TypeOK
<1>10. ASSUME NEW w \in Workers, CommitDecision(w) PROVE RowsAreConsistent'
  BY <1>10 DEF CommitDecision, NewAlert, Goto, TypeOK
<1>11. ASSUME NEW w \in Workers, RunHooks(w) PROVE RowsAreConsistent'
  BY <1>11 DEF RunHooks, Goto, TypeOK
<1>12. ASSUME NEW w \in Workers, MarkAlert(w) PROVE RowsAreConsistent'
  BY <1>12 DEF MarkAlert, Goto, TypeOK
<1>13. ASSUME NEW w \in Workers, HandOn(w) PROVE RowsAreConsistent'
  BY <1>13 DEF HandOn, Goto, Finish, TypeOK
<1>14. ASSUME NEW w \in Workers, HandOnFails(w) PROVE RowsAreConsistent'
  BY <1>14 DEF HandOnFails, Goto, Finish, TypeOK
<1>15. ASSUME NEW w \in Workers, TaskFails(w) PROVE RowsAreConsistent'
  BY <1>15 DEF TaskFails, Retries, Goto, Finish, TypeOK
<1>16. ASSUME NEW w \in Workers, WorkerKilled(w) PROVE RowsAreConsistent'
  BY <1>16 DEF WorkerKilled, Goto, Finish, TypeOK
<1>17. CASE ReconstructRead
  BY <1>17, RecordedType DEF ReconstructRead, TypeOK
<1>18. CASE ReconstructWrite
  BY <1>18 DEF ReconstructWrite, TypeOK
<1>19. ASSUME NEW f \in Fingerprints, Observe(f) PROVE RowsAreConsistent'
  BY <1>19 DEF Observe, TypeOK
<1>20. ASSUME NEW f \in Fingerprints, LoseObservation(f) PROVE RowsAreConsistent'
  BY <1>20 DEF LoseObservation, TypeOK
<1>21. CASE UNCHANGED vars
  BY <1>21 DEF vars, TypeOK
<1>22. ASSUME NEW c \in Candles, BackfillCandle(c) PROVE RowsAreConsistent'
  BY <1>22 DEF BackfillCandle, TypeOK
<1> QED
  BY <1>1, <1>2, <1>3, <1>4, <1>5, <1>6, <1>7, <1>8, <1>9, <1>10, <1>11, <1>12, <1>13,
     <1>14, <1>15, <1>16, <1>17, <1>18, <1>19, <1>20, <1>21, <1>22
  DEF Next, WorkerStep, WorkerFault

-----------------------------------------------------------------------------
(* The safety theorems.                                                    *)

\* Consistent holds in every reachable state.
THEOREM Consistency == Spec => []Consistent
<1>1. Init => Consistent
  BY InitConsistent
<1>2. Consistent /\ [Next]_vars => Consistent'
  BY NextType, NextTask, NextRows DEF Consistent
<1> QED
  BY <1>1, <1>2, PTL DEF Spec

\* The state is well typed.
THEOREM TypeCorrect == Spec => []TypeOK
  BY Consistency, PTL DEF Consistent

\* What a task relies on between its statements holds whatever the others do.
THEOREM TasksSafe == Spec => []TaskIsConsistent
  BY Consistency, PTL DEF Consistent

\* What the dashboard shows is committed, whichever of the decision task and the
\* reconstruction wrote last.
THEOREM ProjectionSafe == Spec => []ProjectionIsDurable
  BY Consistency, PTL DEF Consistent, RowsAreConsistent

\* No alert is transported twice, and no status claims a transport that did not happen.
THEOREM AlertSafe == Spec => []AlertAtMostOnce
  BY Consistency, PTL DEF Consistent, RowsAreConsistent

\* Every alert has its signal, and a window alert its plan.
THEOREM AlertBacked == Spec => []AlertIsBacked
  BY Consistency, PTL DEF Consistent, RowsAreConsistent

-----------------------------------------------------------------------------
(* History, as an action property.                                         *)

\* Appending keeps everything that was there as a prefix.
LEMMA AppendKeepsPrefix ==
    ASSUME NEW S, NEW s \in Seq(S), NEW x \in S
    PROVE  Len(s) <= Len(Append(s, x)) /\ SubSeq(Append(s, x), 1, Len(s)) = s
<1> DEFINE t == SubSeq(Append(s, x), 1, Len(s))
<1>1. Len(Append(s, x)) = Len(s) + 1 /\ Append(s, x) \in Seq(S) /\ Len(s) \in Nat
  OBVIOUS
<1>2. t \in Seq(S) /\ Len(t) = Len(s) /\ \A i \in 1..Len(s) : t[i] = s[i]
  BY <1>1
<1> QED
  BY <1>1, <1>2

\* What one step does to the rows.
RowsKept ==
    /\ Len(signals) <= Len(signals') /\ SubSeq(signals', 1, Len(signals)) = signals
    /\ plans \subseteq plans'
    /\ observed \subseteq observed'
    /\ \A f \in Fingerprints :
         alert[f] \in {"DISPATCHED", "FAILED", "DISABLED"} => alert'[f] = alert[f]

LEMMA StepKeepsRows == Consistent /\ [Next]_vars => RowsKept
<1> SUFFICES ASSUME Consistent, [Next]_vars PROVE RowsKept
  OBVIOUS
<1>1. /\ Len(signals) <= Len(signals')
      /\ SubSeq(signals', 1, Len(signals)) = signals
  <2>1. CASE signals' = signals
    BY <2>1 DEF Consistent, TypeOK
  <2>2. CASE \E f \in Fingerprints : signals' = Append(signals, f)
    BY <2>2, AppendKeepsPrefix DEF Consistent, TypeOK
  <2>3. \A w \in Workers : SaveSignal(w) =>
          signals' = signals \/ \E f \in Fingerprints : signals' = Append(signals, f)
    BY DEF SaveSignal, Persisted, AfterSave, Consistent, TaskIsConsistent, ConsistentTask
  <2> QED
    BY <2>1, <2>2, <2>3
    DEF Next, WorkerStep, WorkerFault, IngestCandle, IngestWithoutDispatch, BackfillCandle, ArriveLateRow,
        CatchUp, Receive, Guard, ReadHistory, SavePlan, CommitDecision, RunHooks, MarkAlert,
        HandOn, HandOnFails, TaskFails, WorkerKilled, ReconstructRead, ReconstructWrite,
        Observe, LoseObservation, vars
<1>2. plans \subseteq plans' /\ observed \subseteq observed'
  BY DEF Next, WorkerStep, WorkerFault, IngestCandle, IngestWithoutDispatch, BackfillCandle, ArriveLateRow,
         CatchUp, Receive, Guard, ReadHistory, SaveSignal, SavePlan, CommitDecision, RunHooks,
         MarkAlert, HandOn, HandOnFails, TaskFails, WorkerKilled, ReconstructRead,
         ReconstructWrite, Observe, LoseObservation, vars, obsVars
<1>3. \A f \in Fingerprints :
        alert[f] \in {"DISPATCHED", "FAILED", "DISABLED"} => alert'[f] = alert[f]
  <2> DEFINE Kept == \A f \in Fingerprints :
                       alert[f] \in {"DISPATCHED", "FAILED", "DISABLED"} => alert'[f] = alert[f]
  <2>1. ASSUME NEW w \in Workers, CommitDecision(w) PROVE Kept
    BY <2>1 DEF CommitDecision, NewAlert, Consistent, TypeOK
  <2>2. ASSUME NEW w \in Workers, RunHooks(w) \/ MarkAlert(w) PROVE Kept
    <3>1. owes[w] # None => alert[owes[w]] = "PENDING"
      BY DEF Consistent, TaskIsConsistent, ConsistentTask
    <3>2. MarkAlert(w) => owes[w] # None
      BY DEF MarkAlert, Consistent, TaskIsConsistent, ConsistentTask
    <3>3. UNCHANGED alert \/ (owes[w] # None /\ \E s \in AlertStatuses :
                                alert' = [alert EXCEPT ![owes[w]] = s])
      BY <2>2, <3>2 DEF RunHooks, MarkAlert, AlertStatuses, alertVars
    <3>4. alert \in [Fingerprints -> AlertStatuses]
      BY DEF Consistent, TypeOK
    <3> QED
      BY <3>1, <3>3, <3>4
  <2>3. CASE UNCHANGED alert
    BY <2>3
  <2> QED
    BY <2>1, <2>2, <2>3
    DEF Next, WorkerStep, WorkerFault, IngestCandle, IngestWithoutDispatch, BackfillCandle, ArriveLateRow,
        CatchUp, Receive, Guard, ReadHistory, SaveSignal, SavePlan, HandOn, HandOnFails,
        TaskFails, WorkerKilled, ReconstructRead, ReconstructWrite, Observe, LoseObservation,
        vars, alertVars
<1> QED
  BY <1>1, <1>2, <1>3 DEF RowsKept

\* No step rewrites history: signals are appended to, plans and observations kept,
\* final alert statuses never changed.
THEOREM HistorySafe == Spec => HistoryIsImmutable
<1>1. Consistent /\ [Next]_vars => [RowsKept]_vars
  BY StepKeepsRows
<1>2. Spec => [][RowsKept]_vars
  BY <1>1, Consistency, PTL DEF Spec
<1> QED
  BY <1>2 DEF HistoryIsImmutable, RowsKept

-----------------------------------------------------------------------------
(* Refinement of the ledger.                                               *)

LEMMA InitLedger == Init => Ledger!LedgerInit
<1> SUFFICES ASSUME Init PROVE Ledger!LedgerInit
  OBVIOUS
<1>1. Recorded = {}
  BY DEF Init, Recorded
<1>2. {f \in Fingerprints : alert[f] # "NONE"} = {} /\ {f \in Fingerprints : sends[f] > 0} = {}
  BY DEF Init
<1> QED
  BY <1>1, <1>2 DEF Init, Ledger!LedgerInit

\* A step of the pipeline is a step of the ledger or changes nothing in it.
LEMMA StepLedger == Consistent /\ [Next]_vars => [Ledger!LedgerNext]_(Ledger!ledgerVars)
<1> SUFFICES ASSUME Consistent, [Next]_vars
             PROVE  Ledger!LedgerNext \/ UNCHANGED Ledger!ledgerVars
  OBVIOUS
<1> DEFINE announced == {f \in Fingerprints : alert[f] # "NONE"}
           told == {f \in Fingerprints : sends[f] > 0}
<1>t. /\ alert \in [Fingerprints -> AlertStatuses] /\ sends \in [Fingerprints -> Nat]
      /\ \A w \in Workers : ConsistentTask(w)
      /\ monitor = [signal |-> monitor.signal, plan |-> monitor.plan, sequence |-> monitor.sequence]
  BY DEF Consistent, TypeOK, TaskIsConsistent
<1>1. ASSUME NEW w \in Workers, SaveSignal(w) PROVE Ledger!LedgerNext \/ UNCHANGED Ledger!ledgerVars
  <2>1. fp[w] \in Fingerprints
    BY <1>1, <1>t DEF SaveSignal, Persisted, AfterSave, ConsistentTask
  <2>2. CASE fp[w] \in Recorded
    <3>1. Recorded' = Recorded
      BY <1>1, <2>2 DEF SaveSignal, Persisted, AfterSave, Recorded
    <3> QED
      BY <1>1, <3>1 DEF SaveSignal, Persisted, AfterSave, monVars, alertVars, Ledger!ledgerVars
  <2>3. CASE fp[w] \notin Recorded
    <3>1. Recorded' = Recorded \cup {fp[w]}
      BY <1>1, <2>1, <2>3, AppendRecords DEF SaveSignal, Persisted, AfterSave, Consistent, TypeOK
    <3>2. Ledger!Record(fp[w])
      BY <1>1, <2>3, <3>1 DEF SaveSignal, Persisted, AfterSave, monVars, alertVars, Ledger!Record
    <3> QED
      BY <2>1, <3>2 DEF Ledger!LedgerNext
  <2> QED
    BY <2>2, <2>3
<1>2. ASSUME NEW w \in Workers, SavePlan(w) PROVE Ledger!LedgerNext \/ UNCHANGED Ledger!ledgerVars
  <2>1. fp[w] \in Recorded /\ fp[w] \in Fingerprints /\ Window(fp[w]) /\ Recorded' = Recorded
    BY <1>2, <1>t DEF SavePlan, ConsistentTask, Decided, Recorded
  <2>2. CASE fp[w] \in plans
    BY <1>2, <2>1, <2>2 DEF SavePlan, monVars, alertVars, Ledger!ledgerVars
  <2>3. CASE fp[w] \notin plans
    <3>1. Ledger!Plan(fp[w])
      BY <1>2, <2>1, <2>3 DEF SavePlan, monVars, alertVars, Ledger!Plan
    <3> QED
      BY <2>1, <3>1 DEF Ledger!LedgerNext
  <2> QED
    BY <2>2, <2>3
<1>3. ASSUME NEW w \in Workers, CommitDecision(w) PROVE Ledger!LedgerNext \/ UNCHANGED Ledger!ledgerVars
  <2>1. /\ fp[w] \in Recorded /\ fp[w] \in Fingerprints /\ (Window(fp[w]) => fp[w] \in plans)
        /\ Recorded' = Recorded /\ UNCHANGED <<plans, sends>>
    BY <1>3, <1>t DEF CommitDecision, NewAlert, ConsistentTask, Decided, Recorded
  <2>2. /\ monitor'.signal = fp[w]
        /\ monitor'.plan = IF Window(fp[w]) THEN fp[w] ELSE None
    BY <1>3 DEF CommitDecision, NewAlert, Window
  <2>3. \/ announced' = announced
        \/ /\ fp[w] \notin announced /\ ~Quiet(fp[w])
           /\ announced' = announced \cup {fp[w]}
    <3>1. CASE alert' = alert
      BY <3>1
    <3>2. CASE /\ ~Quiet(fp[w]) /\ alert[fp[w]] = "NONE"
               /\ alert' = [alert EXCEPT ![fp[w]] = "PENDING"]
      BY <3>2, <2>1, <1>t
    <3> QED
      BY <1>3, <3>1, <3>2 DEF CommitDecision, NewAlert, Quiet
  <2>4. PICK f \in Fingerprints : f = fp[w]
    BY <2>1
  <2>5. Ledger!Decide(f)
    BY <2>1, <2>2, <2>3, <2>4 DEF Ledger!Decide
  <2> QED
    BY <2>5 DEF Ledger!LedgerNext
<1>4. ASSUME NEW w \in Workers, RunHooks(w) \/ MarkAlert(w)
      PROVE Ledger!LedgerNext \/ UNCHANGED Ledger!ledgerVars
  <2>1. /\ UNCHANGED <<monitor, plans>> /\ Recorded' = Recorded
    BY <1>4 DEF RunHooks, MarkAlert, monVars, Recorded
  <2>2. owes[w] # None => owes[w] \in Fingerprints /\ alert[owes[w]] = "PENDING"
    BY <1>t DEF ConsistentTask, Consistent, TypeOK, NullableFingerprint
  <2>3. announced' = announced
    <3>1. UNCHANGED alert \/ (owes[w] # None /\ \E s \in AlertStatuses \ {"NONE"} :
                                alert' = [alert EXCEPT ![owes[w]] = s])
      BY <1>4, <1>t DEF RunHooks, MarkAlert, AlertStatuses, ConsistentTask, alertVars
    <3> QED
      BY <3>1, <2>2, <1>t
  <2>4. CASE UNCHANGED sends
    BY <2>1, <2>3, <2>4 DEF Ledger!ledgerVars
  <2>5. CASE /\ pc[w] = "hooks" /\ owes[w] # None
             /\ sends' = [sends EXCEPT ![owes[w]] = @ + 1]
    <3>1. sends[owes[w]] = 0
      BY <2>5, <1>t DEF ConsistentTask
    <3>2. owes[w] \in announced \ told /\ told' = told \cup {owes[w]}
      BY <2>5, <2>2, <3>1, <1>t
    <3>3. PICK f \in Fingerprints : f = owes[w]
      BY <2>2, <2>5
    <3>4. Ledger!Tell(f)
      BY <2>1, <2>3, <3>2, <3>3 DEF Ledger!Tell
    <3> QED
      BY <3>4 DEF Ledger!LedgerNext
  <2> QED
    BY <1>4, <2>4, <2>5 DEF RunHooks, MarkAlert, alertVars
<1>5. CASE ReconstructWrite
  <2>1. UNCHANGED <<plans, alert, sends>> /\ Recorded' = Recorded
    BY <1>5 DEF ReconstructWrite, alertVars, Recorded
  <2>2. monitor'.signal \in Recorded \cup {monitor.signal}
    BY <1>5, <1>t DEF ReconstructWrite, Consistent, RowsAreConsistent, ReadsAreDurable
  <2>3. monitor'.plan \in {None} \cup ({monitor'.signal} \cap plans)
    <3>1. monitor'.plan = recon.plan
          /\ monitor'.signal = IF recon.signal = None THEN monitor.signal ELSE recon.signal
      BY <1>5, <1>t DEF ReconstructWrite
    <3>2. recon.plan # None => recon.plan = recon.signal /\ recon.plan \in plans
      BY <1>5 DEF ReconstructWrite, Consistent, RowsAreConsistent, ReadsAreDurable
    <3> QED
      BY <3>1, <3>2
  <2>4. Ledger!Rebuild
    BY <2>1, <2>2, <2>3 DEF Ledger!Rebuild
  <2> QED
    BY <2>4 DEF Ledger!LedgerNext
<1>6. CASE UNCHANGED <<signals, plans, monitor, alert, sends>>
  BY <1>6 DEF Ledger!ledgerVars, Recorded
<1> QED
  BY <1>1, <1>2, <1>3, <1>4, <1>5, <1>6
  DEF Next, WorkerStep, WorkerFault, IngestCandle, IngestWithoutDispatch, BackfillCandle, ArriveLateRow,
      CatchUp, Receive, Guard, ReadHistory, HandOn, HandOnFails, TaskFails, WorkerKilled,
      ReconstructRead, Observe, LoseObservation, vars, alertVars, monVars

\* The pipeline implements the ledger: decisions and plans are written once, only
\* what was written is shown, and no alert is told twice or before it is raised.
THEOREM LedgerImplemented == Spec => ImplementsLedger
<1>1. Spec => Ledger!LedgerInit /\ [][Ledger!LedgerNext]_(Ledger!ledgerVars)
  BY InitLedger, StepLedger, Consistency, PTL DEF Spec
<1> QED
  BY <1>1 DEF ImplementsLedger, Ledger!LedgerSpec

-----------------------------------------------------------------------------
(* Each candle is decided at most once per worker.                         *)

\* Tasks being evaluated are workers, of which there are finitely many.
LEMMA EvaluatingFinite ==
    ASSUME NEW c
    PROVE  /\ IsFiniteSet(Evaluating(c)) /\ Cardinality(Evaluating(c)) \in Nat
           /\ Cardinality(Evaluating(c)) <= Cardinality(Workers) /\ Cardinality(Workers) \in Nat
<1>1. Evaluating(c) \subseteq Workers
  BY DEF Evaluating, Working
<1> QED
  BY <1>1, FS_Subset, FS_CardinalityType, FiniteAssumption

\* The bound survives every step that starts no evaluation of c and finishes none.
LEMMA BoundKept ==
    ASSUME NEW c \in Candles, BoundedFor(c), evaluations \in [Candles -> Nat],
           UNCHANGED evaluations, Recorded' = Recorded,
           Evaluating(c)' \subseteq Evaluating(c)
    PROVE  BoundedFor(c)'
<1>1. /\ Cardinality(Evaluating(c)') \in Nat /\ Cardinality(Evaluating(c)) \in Nat
      /\ Cardinality(Evaluating(c)') <= Cardinality(Evaluating(c))
      /\ Cardinality(Workers) \in Nat
  BY EvaluatingFinite, FS_Subset, FS_CardinalityType
<1>2. HasSignal(c)' = HasSignal(c)
  BY DEF HasSignal
<1> QED
  BY <1>1, <1>2 DEF BoundedFor

LEMMA NextBounded == Consistent /\ EvaluationsBounded /\ [Next]_vars => EvaluationsBounded'
<1> SUFFICES ASSUME Consistent, EvaluationsBounded, [Next]_vars, NEW c \in Candles
             PROVE  BoundedFor(c)'
  BY DEF EvaluationsBounded
<1>t. /\ pc \in [Workers -> Steps] /\ evaluations \in [Candles -> Nat]
      /\ job \in [Workers -> Messages \cup {None}]
      /\ BoundedFor(c)
  BY DEF Consistent, TypeOK, EvaluationsBounded
<1>1. CASE UNCHANGED <<signals, evaluations, pc, job>>
  BY <1>1, <1>t, BoundKept DEF Evaluating, Working, Recorded
<1>2. ASSUME NEW w \in Workers, NEW m \in Messages, Receive(w, m) PROVE BoundedFor(c)'
  BY <1>2, <1>t, BoundKept DEF Receive, Goto, Evaluating, Working, Recorded, rowVars
<1>3. ASSUME NEW w \in Workers, Guard(w) PROVE BoundedFor(c)'
  <2>1. UNCHANGED <<evaluations, job>> /\ Recorded' = Recorded
    BY <1>3 DEF Guard, AlreadyProcessed, Recorded
  <2>2. CASE ~HasSignal(c)
    BY <2>1, <2>2, <1>t DEF BoundedFor, HasSignal
  <2>3. CASE HasSignal(c)
    <3>1. Evaluating(c)' \subseteq Evaluating(c)
      BY <1>3, <2>1, <2>3, <1>t DEF Guard, AlreadyProcessed, Goto, Evaluating, Working
    <3> QED
      BY <2>1, <3>1, <1>t, BoundKept
  <2> QED
    BY <2>2, <2>3
<1>4. ASSUME NEW w \in Workers, SaveSignal(w) PROVE BoundedFor(c)'
  <2>1. /\ fp[w] \in Fingerprints /\ fp[w].candle = job[w].candle
        /\ UNCHANGED <<evaluations, job>> /\ pc[w] = "saveSignal"
        /\ pc' = [pc EXCEPT ![w] = IF Candidate[fp[w]] = "window" THEN "savePlan" ELSE "commit"]
    BY <1>4 DEF SaveSignal, Persisted, AfterSave, Goto, Window, Consistent, TaskIsConsistent, ConsistentTask
  <2>2. Recorded' = Recorded \cup {fp[w]}
    <3>1. CASE fp[w] \in Recorded /\ signals' = signals
      BY <3>1 DEF Recorded
    <3>2. CASE signals' = Append(signals, fp[w])
      BY <2>1, <3>2, AppendRecords DEF Consistent, TypeOK
    <3> QED
      BY <1>4, <3>1, <3>2 DEF SaveSignal, Persisted, AfterSave
  <2>3. Evaluating(c)' = Evaluating(c)
    BY <2>1, <1>t DEF Evaluating, Working
  <2>4. CASE HasSignal(c)
    <3>1. HasSignal(c)'
      BY <2>2, <2>4 DEF HasSignal
    <3> QED
      BY <2>1, <2>3, <2>4, <3>1, <1>t DEF BoundedFor
  <2>5. CASE ~HasSignal(c)
    <3>1. evaluations'[c] = 0
      BY <2>1, <2>5, <1>t DEF BoundedFor
    <3>2. Cardinality(Evaluating(c)') \in Nat /\ Cardinality(Workers) \in Nat
          /\ Cardinality(Evaluating(c)') <= Cardinality(Workers)
      BY <2>3, EvaluatingFinite
    <3> QED
      BY <3>1, <3>2 DEF BoundedFor
  <2> QED
    BY <2>4, <2>5
<1>5. ASSUME NEW w \in Workers, CommitDecision(w) PROVE BoundedFor(c)'
  <2>1. /\ UNCHANGED job /\ Recorded' = Recorded /\ pc[w] = "commit"
        /\ pc' = [pc EXCEPT ![w] = "hooks"]
        /\ evaluations' = [evaluations EXCEPT ![job[w].candle] = @ + 1]
        /\ fp[w] \in Recorded /\ fp[w].candle = job[w].candle /\ job[w] \in Messages
    BY <1>5 DEF CommitDecision, NewAlert, Goto, Recorded, Consistent, TaskIsConsistent, ConsistentTask, Decided
  <2>2. CASE c = job[w].candle
    <3>1. HasSignal(c) /\ HasSignal(c)'
      BY <2>1, <2>2 DEF HasSignal
    <3>2. w \in Evaluating(c) /\ Evaluating(c)' = Evaluating(c) \ {w}
      BY <2>1, <2>2, <1>t DEF Evaluating, Working
    <3>3. Cardinality(Evaluating(c)') = Cardinality(Evaluating(c)) - 1
      BY <3>2, EvaluatingFinite, FS_RemoveElement
    <3>4. evaluations'[c] = evaluations[c] + 1
      BY <2>1, <2>2, <1>t
    <3> QED
      BY <3>1, <3>3, <3>4, <1>t, EvaluatingFinite DEF BoundedFor
  <2>3. CASE c # job[w].candle
    <3>1. evaluations'[c] = evaluations[c] /\ Evaluating(c)' = Evaluating(c)
      BY <2>1, <2>3, <1>t DEF Evaluating, Working
    <3>2. HasSignal(c)' = HasSignal(c)
      BY <2>1 DEF HasSignal
    <3> QED
      BY <3>1, <3>2, <1>t DEF BoundedFor
  <2> QED
    BY <2>2, <2>3
<1>6. ASSUME NEW w \in Workers,
             ReadHistory(w) \/ SavePlan(w) \/ RunHooks(w) \/ MarkAlert(w)
      PROVE  BoundedFor(c)'
  <2>1. UNCHANGED <<evaluations, job, signals>> /\ Recorded' = Recorded
    BY <1>6 DEF ReadHistory, SavePlan, RunHooks, MarkAlert, Recorded
  <2>2. Evaluating(c)' \subseteq Evaluating(c)
    BY <1>6, <2>1, <1>t DEF ReadHistory, SavePlan, RunHooks, MarkAlert, Goto, Evaluating, Working
  <2> QED
    BY <2>1, <2>2, <1>t, BoundKept
<1>7. ASSUME NEW w \in Workers, Finish(w), UNCHANGED <<signals, evaluations>>
      PROVE  BoundedFor(c)'
  BY <1>7, <1>t, BoundKept DEF Finish, Goto, Evaluating, Working, Recorded
<1> QED
  BY <1>1, <1>2, <1>3, <1>4, <1>5, <1>6, <1>7
  DEF Next, WorkerStep, WorkerFault, IngestCandle, IngestWithoutDispatch, BackfillCandle, ArriveLateRow,
      CatchUp, HandOn, HandOnFails, TaskFails, WorkerKilled, ReconstructRead,
      ReconstructWrite, Observe, LoseObservation, vars, workVars

\* However often a candle is queued, its decision is projected at most once per worker.
THEOREM EvaluationSafe == Spec => []EvaluationsBounded
<1>1. Init => EvaluationsBounded
  BY DEF Init, EvaluationsBounded, BoundedFor, HasSignal, Recorded
<1> QED
  BY <1>1, NextBounded, Consistency, PTL DEF Spec

-----------------------------------------------------------------------------
(* Only faults strand a candle.                                            *)

\* A fault strands no candle but that of the task it ends.
LEMMA StrandedWithin ==
    ASSUME NEW lost \in Candles, errors \in Nat, crashes \in Nat, StrandedOnlyByFaults,
           StatementRaises \/ ProcessDies, Stranded' \subseteq Stranded \cup {lost}
    PROVE  StrandedOnlyByFaults'
<1>1. IsFiniteSet(Stranded) /\ Cardinality(Stranded) \in Nat
  BY FiniteAssumption, FS_Subset, FS_CardinalityType DEF Stranded
<1>2. /\ IsFiniteSet(Stranded \cup {lost})
      /\ Cardinality(Stranded \cup {lost}) \in {Cardinality(Stranded), Cardinality(Stranded) + 1}
  BY <1>1, FS_AddElement
<1>3. Cardinality(Stranded') \in Nat /\ Cardinality(Stranded') <= Cardinality(Stranded \cup {lost})
  BY <1>2, FS_Subset, FS_CardinalityType
<1>4. Cardinality(Stranded') <= Cardinality(Stranded) + 1 /\ Cardinality(Stranded) <= errors + crashes
  BY <1>1, <1>2, <1>3 DEF StrandedOnlyByFaults
<1>5. CASE errors' = errors + 1 /\ crashes' = crashes
  <2>1. Cardinality(Stranded') <= (errors + 1) + crashes
    BY <1>1, <1>3, <1>4
  <2> QED
    BY <1>5, <2>1 DEF StrandedOnlyByFaults
<1>6. CASE errors' = errors /\ crashes' = crashes + 1
  <2>1. Cardinality(Stranded') <= errors + (crashes + 1)
    BY <1>1, <1>3, <1>4
  <2> QED
    BY <1>6, <2>1 DEF StrandedOnlyByFaults
<1> QED
  BY <1>5, <1>6 DEF StatementRaises, ProcessDies

LEMMA StrandedFewer ==
    ASSUME errors \in Nat, crashes \in Nat, StrandedOnlyByFaults,
           UNCHANGED <<errors, crashes>> \/ StatementRaises \/ ProcessDies,
           Stranded' \subseteq Stranded
    PROVE  StrandedOnlyByFaults'
<1>1. IsFiniteSet(Stranded) /\ Cardinality(Stranded) \in Nat
  BY FiniteAssumption, FS_Subset, FS_CardinalityType DEF Stranded
<1>2. Cardinality(Stranded') \in Nat /\ Cardinality(Stranded') <= Cardinality(Stranded)
  BY <1>1, FS_Subset, FS_CardinalityType
<1>3. Cardinality(Stranded) <= errors + crashes
  BY DEF StrandedOnlyByFaults
<1>4. /\ Cardinality(Stranded') <= errors + crashes
      /\ Cardinality(Stranded') <= (errors + 1) + crashes
      /\ Cardinality(Stranded') <= errors + (crashes + 1)
  BY <1>1, <1>2, <1>3
<1> QED
  BY <1>4 DEF StrandedOnlyByFaults, StatementRaises, ProcessDies

\* What a task has saved is the decision of its own candle.
LEMMA SavedOwn ==
    ASSUME Consistent, NEW w \in Workers, SaveSignal(w)
    PROVE  /\ Recorded' = Recorded \cup {fp[w]}
           /\ fp[w] \in Fingerprints /\ fp[w].candle = job[w].candle
<1>1. fp[w] \in Fingerprints /\ fp[w].candle = job[w].candle
  BY DEF SaveSignal, Consistent, TaskIsConsistent, ConsistentTask
<1>2. CASE fp[w] \in Recorded
  BY <1>1, <1>2 DEF SaveSignal, Persisted, Recorded
<1>3. CASE fp[w] \notin Recorded
  BY <1>1, <1>3, AppendRecords DEF SaveSignal, Persisted, Consistent, TypeOK
<1> QED
  BY <1>1, <1>2, <1>3

LEMMA NextStranded == Consistent /\ StrandedOnlyByFaults /\ [Next]_vars => StrandedOnlyByFaults'
<1> SUFFICES ASSUME Consistent, StrandedOnlyByFaults, [Next]_vars
             PROVE  StrandedOnlyByFaults'
  OBVIOUS
<1>t. /\ pc \in [Workers -> Steps] /\ evaluations \in [Candles -> Nat]
      /\ job \in [Workers -> Messages \cup {None}]
      /\ errors \in Nat /\ crashes \in Nat
  BY BoundsAssumption DEF Consistent, TypeOK
<1>1. ASSUME UNCHANGED <<signals, evaluations, pc, job>>, UNCHANGED <<errors, crashes>> \/ StatementRaises \/ ProcessDies
      PROVE  StrandedOnlyByFaults'
  <2>1. Stranded' = Stranded
    BY <1>1 DEF Stranded, HasSignal, Recorded, Evaluating, Working
  <2> QED
    BY <2>1, <1>1, <1>t, StrandedFewer
<1>2. ASSUME NEW w \in Workers, UNCHANGED <<signals, evaluations, errors, crashes>>,
             \A c \in Candles : Evaluating(c) \subseteq Evaluating(c)' \/ ~HasSignal(c)
      PROVE  StrandedOnlyByFaults'
  <2>1. Stranded' \subseteq Stranded
    BY <1>2 DEF Stranded, HasSignal, Recorded
  <2> QED
    BY <2>1, <1>2, <1>t, StrandedFewer
<1>3. ASSUME NEW w \in Workers, NEW m \in Messages, Receive(w, m) PROVE StrandedOnlyByFaults'
  <2>1. \A c \in Candles : Evaluating(c) \subseteq Evaluating(c)'
    BY <1>3, <1>t DEF Receive, Goto, Evaluating, Working
  <2> QED
    BY <2>1, <1>2, <1>3 DEF Receive, faultVars
<1>4. ASSUME NEW w \in Workers, Guard(w) \/ ReadHistory(w) \/ SavePlan(w) \/ RunHooks(w) \/ MarkAlert(w) \/ HandOn(w)
      PROVE  StrandedOnlyByFaults'
  <2>1. UNCHANGED <<signals, evaluations, errors, crashes>>
    BY <1>4 DEF Guard, ReadHistory, SavePlan, RunHooks, MarkAlert, HandOn, faultVars
  <2>2. /\ \A v \in Workers \ {w} : pc'[v] = pc[v] /\ job'[v] = job[v]
        /\ pc[w] \in {"read", "saveSignal", "savePlan", "commit"} =>
             pc'[w] \in {"read", "saveSignal", "savePlan", "commit"} /\ job'[w] = job[w]
    BY <1>4, <1>t DEF Guard, ReadHistory, SavePlan, RunHooks, MarkAlert, HandOn, Finish, Goto
  <2>3. \A c \in Candles : Evaluating(c) \subseteq Evaluating(c)'
    BY <2>2 DEF Evaluating, Working
  <2> QED
    BY <2>1, <2>3, <1>2
<1>5. ASSUME NEW w \in Workers, SaveSignal(w) PROVE StrandedOnlyByFaults'
  <2>1. /\ pc[w] = "saveSignal" /\ pc' = [pc EXCEPT ![w] = AfterSave(fp[w])]
        /\ UNCHANGED <<job, evaluations, errors, crashes>>
    BY <1>5 DEF SaveSignal, Goto, faultVars
  <2>2. AfterSave(fp[w]) \in {"savePlan", "commit"}
    BY DEF AfterSave
  <2>3. \A c \in Candles : Evaluating(c)' = Evaluating(c)
    BY <2>1, <2>2, <1>t DEF Evaluating, Working
  <2>4. ASSUME NEW c \in Candles, c = fp[w].candle PROVE w \in Evaluating(c)'
    <3>1. w \in Workers /\ pc'[w] \in {"savePlan", "commit"} /\ job'[w] = job[w]
      BY <2>1, <2>2, <1>t
    <3>2. fp[w].candle = job[w].candle
      BY <1>5, SavedOwn
    <3> QED
      BY <2>4, <3>1, <3>2 DEF Evaluating, Working
  <2>5. \A c \in Candles : HasSignal(c)' => HasSignal(c) \/ c = fp[w].candle
    BY <1>5, SavedOwn DEF HasSignal
  <2>6. Stranded' \subseteq Stranded
    <3> SUFFICES ASSUME NEW c \in Candles, HasSignal(c)', evaluations[c] = 0, Evaluating(c)' = {}
                 PROVE  c \in Stranded
      BY <2>1 DEF Stranded
    <3> QED
      BY <2>3, <2>4, <2>5 DEF Stranded
  <2> QED
    BY <2>1, <2>6, <1>t, StrandedFewer
<1>6. ASSUME NEW w \in Workers, CommitDecision(w) PROVE StrandedOnlyByFaults'
  <2>1. /\ UNCHANGED <<job, signals, errors, crashes>> /\ pc[w] = "commit"
        /\ pc' = [pc EXCEPT ![w] = "hooks"]
        /\ evaluations' = [evaluations EXCEPT ![job[w].candle] = @ + 1]
        /\ job[w] \in Messages
    BY <1>6 DEF CommitDecision, NewAlert, Goto, faultVars, Consistent, TaskIsConsistent, ConsistentTask
  <2>2. job[w].candle \in Candles /\ evaluations'[job[w].candle] # 0
    BY <2>1, <1>t DEF Messages
  <2>3. \A c \in Candles \ {job[w].candle} : Evaluating(c)' = Evaluating(c) /\ evaluations'[c] = evaluations[c]
    BY <2>1, <1>t DEF Evaluating, Working
  <2>4. Stranded' \subseteq Stranded
    BY <2>1, <2>2, <2>3 DEF Stranded, HasSignal, Recorded
  <2> QED
    BY <2>1, <2>4, <1>t, StrandedFewer
<1>7. ASSUME NEW w \in Workers, WorkerFault(w) PROVE StrandedOnlyByFaults'
  <2> DEFINE lost == job[w].candle
  <2>1. /\ pc[w] # "idle" /\ Finish(w) /\ UNCHANGED <<signals, evaluations>>
        /\ StatementRaises \/ ProcessDies
    BY <1>7, <1>t DEF WorkerFault, HandOnFails, TaskFails, WorkerKilled
  <2>2. lost \in Candles
    BY <2>1 DEF Consistent, TaskIsConsistent, ConsistentTask, Messages
  <2>3. \A c \in Candles \ {lost} : Evaluating(c)' = Evaluating(c)
    BY <2>1, <1>t DEF Finish, Goto, Evaluating, Working
  <2>4. Stranded' \subseteq Stranded \cup {lost}
    BY <2>1, <2>3 DEF Stranded, HasSignal, Recorded
  <2> QED
    BY <2>1, <2>2, <2>4, <1>t, StrandedWithin
<1>8. ASSUME NEW c \in Candles, IngestCandle(c) \/ IngestWithoutDispatch(c) \/ BackfillCandle(c)
      PROVE  StrandedOnlyByFaults'
  BY <1>8, <1>1, <1>t DEF IngestCandle, IngestWithoutDispatch, BackfillCandle, workVars, faultVars
<1>9. ASSUME NEW f \in Fingerprints, Observe(f) \/ LoseObservation(f) PROVE StrandedOnlyByFaults'
  BY <1>9, <1>1, <1>t DEF Observe, LoseObservation, workVars, faultVars
<1>10. CASE \/ \E r \in LateRows : ArriveLateRow(r)
            \/ CatchUp \/ ReconstructRead \/ ReconstructWrite \/ UNCHANGED vars
  BY <1>10, <1>1, <1>t DEF ArriveLateRow, CatchUp, ReconstructRead, ReconstructWrite, vars, workVars, faultVars
<1> QED
  BY <1>3, <1>4, <1>5, <1>6, <1>7, <1>8, <1>9, <1>10 DEF Next, WorkerStep

\* StrandedOnlyByFaults (the guards of process_xauusd_closed_candle_task): whatever is queued,
\* retried or caught up, a decision is left half done by failed statements and kills alone, and
\* at most one by each.
THEOREM OnlyFaultsStrand == Spec => []StrandedOnlyByFaults
<1>1. Init => StrandedOnlyByFaults
  <2> SUFFICES ASSUME Init PROVE StrandedOnlyByFaults
    OBVIOUS
  <2>1. Stranded = {}
    BY DEF Init, Stranded, HasSignal, Recorded
  <2> QED
    BY <2>1, FS_EmptySet DEF Init, StrandedOnlyByFaults
<1> QED
  BY <1>1, NextStranded, Consistency, PTL DEF Spec

-----------------------------------------------------------------------------
(* Without faults every ingested candle gets all that is made of it.       *)

Queued(c) == \E m \in Messages : m.candle = c /\ queue[m] > 0
Finishing(c) == \E w \in Working(c) : pc[w] \in {"savePlan", "commit"}
HandedOn(c) == \E f \in Recorded : f.candle = c /\ f \in toObserve \cup observed
PlanComing(f) == \E w \in Workers : pc[w] = "savePlan" /\ fp[w] = f

\* No task is about a candle in market closure, nor is a message that ingestion sent.
OpenMarket ==
    /\ \A w \in Workers : pc[w] # "idle" => job[w].candle \notin ClosureCandles
    /\ stored \ backfilled \subseteq Candles \ ClosureCandles
    /\ \A f \in Recorded : f.candle \notin ClosureCandles

\* Where an ingested candle is on its way: queued, in a task, or decided; a decided one is
\* projected and handed on, or a task still will.
OnItsWay(c) ==
    /\ c \in stored \ backfilled => Queued(c) \/ Working(c) # {} \/ HasSignal(c)
    /\ HasSignal(c) => evaluations[c] >= 1 \/ Finishing(c)
    /\ HasSignal(c) => HandedOn(c) \/ \E w \in Working(c) : pc[w] \in Decided

Progress ==
    errors = 0 /\ crashes = 0 =>
        /\ \A c \in Candles : OnItsWay(c)
        /\ \A f \in Recorded : Window(f) => f \in plans \/ PlanComing(f)

LEMMA NextOpen == Consistent /\ OpenMarket /\ [Next]_vars => OpenMarket'
<1> SUFFICES ASSUME Consistent, OpenMarket, [Next]_vars PROVE OpenMarket'
  OBVIOUS
<1>t. /\ pc \in [Workers -> Steps] /\ job \in [Workers -> Messages \cup {None}]
      /\ stored \subseteq Candles /\ backfilled \subseteq stored
  BY DEF Consistent, TypeOK
<1>1. ASSUME UNCHANGED <<pc, job, signals>>, (stored \ backfilled)' \subseteq stored \ backfilled
      PROVE  OpenMarket'
  BY <1>1 DEF OpenMarket, Recorded
<1>2. ASSUME NEW c \in Candles, IngestCandle(c) \/ IngestWithoutDispatch(c) PROVE OpenMarket'
  BY <1>2, <1>t DEF IngestCandle, IngestWithoutDispatch, OpenMarket, Recorded, workVars
<1>3. ASSUME NEW c \in Candles, BackfillCandle(c) PROVE OpenMarket'
  BY <1>3, <1>1 DEF BackfillCandle, workVars
<1>4. ASSUME NEW w \in Workers, NEW m \in Messages, Receive(w, m) PROVE OpenMarket'
  BY <1>4, <1>t DEF Receive, Suppressed, Goto, OpenMarket, Recorded, rowVars
<1>5. ASSUME NEW w \in Workers, SaveSignal(w) PROVE OpenMarket'
  <2>1. /\ pc[w] = "saveSignal" /\ UNCHANGED <<stored, backfilled, job>>
        /\ \A v \in Workers : pc'[v] # "idle" => pc[v] # "idle"
    BY <1>5, <1>t DEF SaveSignal, Goto, rowVars
  <2>2. fp[w].candle \notin ClosureCandles
    BY <2>1, <1>5, SavedOwn DEF OpenMarket
  <2> QED
    BY <2>1, <2>2, <1>5, SavedOwn DEF OpenMarket
<1>6. ASSUME NEW w \in Workers, \/ Guard(w) \/ ReadHistory(w) \/ SavePlan(w) \/ CommitDecision(w)
                                \/ RunHooks(w) \/ MarkAlert(w)
      PROVE  OpenMarket'
  <2>1. /\ UNCHANGED <<stored, backfilled, job, signals>>
        /\ \A v \in Workers : pc'[v] # "idle" => pc[v] # "idle"
    BY <1>6, <1>t DEF Guard, ReadHistory, SavePlan, CommitDecision, RunHooks, MarkAlert, Goto, rowVars
  <2> QED
    BY <2>1 DEF OpenMarket, Recorded
<1>7. ASSUME NEW w \in Workers, Finish(w), UNCHANGED <<stored, backfilled, signals>> PROVE OpenMarket'
  BY <1>7, <1>t DEF Finish, Goto, OpenMarket, Recorded
<1>8. ASSUME NEW w \in Workers, HandOn(w) \/ WorkerFault(w) PROVE OpenMarket'
  BY <1>7, <1>8 DEF HandOn, WorkerFault, HandOnFails, TaskFails, WorkerKilled, rowVars
<1>9. CASE \/ \E r \in LateRows : ArriveLateRow(r)
           \/ \E f \in Fingerprints : Observe(f) \/ LoseObservation(f)
           \/ CatchUp \/ ReconstructRead \/ ReconstructWrite \/ UNCHANGED vars
  BY <1>9, <1>1 DEF ArriveLateRow, Observe, LoseObservation, CatchUp, ReconstructRead, ReconstructWrite,
     vars, workVars, rowVars
<1> QED
  BY <1>2, <1>3, <1>4, <1>5, <1>6, <1>8, <1>9 DEF Next, WorkerStep

\* What is on its way stays so while no task moves.
LEMMA NoTaskMoves ==
    ASSUME Progress, errors = 0, crashes = 0, UNCHANGED <<pc, job, fp, signals, evaluations>>,
           \A c \in Candles : c \in (stored \ backfilled)' /\ c \notin stored \ backfilled => Queued(c)',
           \A m \in Messages : queue[m] > 0 => queue'[m] > 0,
           Recorded \cap (toObserve \cup observed) \subseteq (toObserve \cup observed)',
           plans \subseteq plans'
    PROVE  Progress'
<1>1. \A c \in Candles : OnItsWay(c)'
  <2> SUFFICES ASSUME NEW c \in Candles PROVE OnItsWay(c)'
    OBVIOUS
  <2>1. OnItsWay(c)
    BY DEF Progress
  <2>2. /\ Queued(c) => Queued(c)'
        /\ Working(c)' = Working(c) /\ HasSignal(c)' = HasSignal(c) /\ Finishing(c)' = Finishing(c)
    BY DEF Queued, Working, HasSignal, Finishing, Recorded
  <2>3. HandedOn(c) => HandedOn(c)'
    BY DEF HandedOn, Recorded
  <2> QED
    BY <2>1, <2>2, <2>3 DEF OnItsWay
<1>2. \A f \in Recorded' : Window(f) => f \in plans' \/ PlanComing(f)'
  BY DEF Progress, PlanComing, Recorded, Window
<1> QED
  BY <1>1, <1>2 DEF Progress

\* A task moves within its work.
LEMMA TaskMoves ==
    ASSUME Progress, errors = 0, crashes = 0, NEW w \in Workers,
           pc \in [Workers -> Steps], pc[w] # "idle", pc'[w] # "idle",
           \A v \in Workers \ {w} : pc'[v] = pc[v] /\ fp'[v] = fp[v],
           UNCHANGED <<job, signals, stored, backfilled, queue, toObserve, observed>>,
           pc[w] \in Decided => pc'[w] \in Decided /\ fp'[w] = fp[w],
           \A c \in Candles : evaluations'[c] >= 1 \/ evaluations'[c] = evaluations[c],
           pc[w] \in {"savePlan", "commit"} =>
               pc'[w] = "commit" \/ \A c \in Candles : c = job[w].candle => evaluations'[c] >= 1,
           plans \subseteq plans', pc[w] = "savePlan" => fp[w] \in plans'
    PROVE  Progress'
<1>1. \A c \in Candles : OnItsWay(c)'
  <2> SUFFICES ASSUME NEW c \in Candles PROVE OnItsWay(c)'
    OBVIOUS
  <2>1. OnItsWay(c)
    BY DEF Progress
  <2>2. /\ Queued(c)' = Queued(c) /\ HasSignal(c)' = HasSignal(c) /\ HandedOn(c)' = HandedOn(c)
        /\ Working(c)' = Working(c)
    BY DEF Queued, Working, HasSignal, HandedOn, Recorded
  <2>3. evaluations[c] >= 1 \/ Finishing(c) => evaluations'[c] >= 1 \/ Finishing(c)'
    BY <2>2 DEF Finishing, Working
  <2>4. ASSUME NEW v \in Working(c), pc[v] \in Decided PROVE pc'[v] \in Decided
    BY <2>4 DEF Working
  <2> QED
    BY <2>1, <2>2, <2>3, <2>4 DEF OnItsWay
<1>2. \A f \in Recorded' : Window(f) => f \in plans' \/ PlanComing(f)'
  BY DEF Progress, PlanComing, Recorded, Window
<1> QED
  BY <1>1, <1>2 DEF Progress

LEMMA NextProgress == Consistent /\ OpenMarket /\ Progress /\ [Next]_vars => Progress'
<1> SUFFICES ASSUME Consistent, OpenMarket, Progress, [Next]_vars, errors' = 0, crashes' = 0
             PROVE  Progress'
  BY DEF Progress
<1>t. /\ pc \in [Workers -> Steps] /\ evaluations \in [Candles -> Nat]
      /\ job \in [Workers -> Messages \cup {None}] /\ fp \in [Workers -> NullableFingerprint]
      /\ queue \in [Messages -> 0..MaxCopies]
      /\ errors \in Nat /\ crashes \in Nat /\ stored \subseteq Candles /\ backfilled \subseteq stored
  BY BoundsAssumption DEF Consistent, TypeOK
<1>e. ~StatementRaises /\ ~ProcessDies
  BY <1>t DEF StatementRaises, ProcessDies
<1>f. errors = 0 /\ crashes = 0
  BY <1>e, <1>t DEF Next, WorkerStep, WorkerFault, IngestCandle, IngestWithoutDispatch, BackfillCandle,
     ArriveLateRow, CatchUp, Receive, Guard, ReadHistory, SaveSignal, SavePlan, CommitDecision, RunHooks,
     MarkAlert, HandOn, HandOnFails, TaskFails, WorkerKilled, ReconstructRead, ReconstructWrite, Observe,
     LoseObservation, vars, faultVars
<1>1. ASSUME NEW c \in Candles, IngestCandle(c) PROVE Progress'
  <2>1. /\ UNCHANGED <<pc, job, fp, signals, evaluations, backfilled, toObserve, observed, plans>>
        /\ stored' = stored \cup {c} /\ EnqueueFirst({c})
    BY <1>1 DEF IngestCandle, workVars, obsVars
  <2>2. First(c) \in Messages /\ First(c).attempt = 0 /\ First(c).candle = c
    BY BoundsAssumption DEF First, Messages
  <2>3. \A m \in Messages : queue'[m] = (IF m.attempt = 0 /\ m.candle = c THEN queue[m] + 1 ELSE queue[m])
    BY <2>1 DEF EnqueueFirst
  <2>4. queue[First(c)] \in Nat /\ queue'[First(c)] = queue[First(c)] + 1
    BY <2>2, <2>3, <1>t, BoundsAssumption
  <2>5. queue'[First(c)] > 0
    BY <2>4
  <2>6. \A d \in Candles : d \in (stored \ backfilled)' /\ d \notin stored \ backfilled => Queued(d)'
    BY <2>1, <2>2, <2>5 DEF Queued
  <2>7. \A m \in Messages : queue[m] > 0 => queue'[m] > 0
    BY <2>3, <1>t, BoundsAssumption
  <2> QED
    BY <2>1, <2>6, <2>7, <1>f, NoTaskMoves
<1>2. ASSUME NEW c \in Candles, BackfillCandle(c) PROVE Progress'
  BY <1>2, <1>f, <1>t, NoTaskMoves DEF BackfillCandle, workVars, obsVars
<1>3. CASE CatchUp
  <2>1. \A m \in Messages : queue[m] > 0 => queue'[m] > 0
    BY <1>3, <1>t, BoundsAssumption DEF CatchUp, EnqueueFirst
  <2> QED
    BY <2>1, <1>3, <1>f, NoTaskMoves DEF CatchUp, workVars, obsVars, rowVars
<1>4. ASSUME NEW f \in Fingerprints, Observe(f) PROVE Progress'
  BY <1>4, <1>f, NoTaskMoves DEF Observe, workVars, rowVars
<1>5. CASE \/ \E r \in LateRows : ArriveLateRow(r)
           \/ ReconstructRead \/ ReconstructWrite \/ UNCHANGED vars
  BY <1>5, <1>f, NoTaskMoves DEF ArriveLateRow, ReconstructRead, ReconstructWrite, vars, workVars, obsVars, rowVars
<1>6. ASSUME NEW w \in Workers, NEW m \in Messages, Receive(w, m) PROVE Progress'
  <2>1. /\ pc[w] = "idle" /\ queue[m] > 0 /\ queue' = [queue EXCEPT ![m] = @ - 1]
        /\ UNCHANGED <<fp, signals, evaluations, stored, backfilled, toObserve, observed, plans>>
        /\ \A v \in Workers \ {w} : pc'[v] = pc[v] /\ job'[v] = job[v]
        /\ \/ (m.candle \in ClosureCandles \/ HasSignal(m.candle)) /\ pc' = pc /\ job' = job
           \/ pc'[w] = "guard" /\ job'[w] = m
    BY <1>6, <1>t DEF Receive, Suppressed, AlreadyProcessed, Goto, rowVars, obsVars
  <2>2. \A c \in Candles : OnItsWay(c)'
    <3> SUFFICES ASSUME NEW c \in Candles PROVE OnItsWay(c)'
      OBVIOUS
    <3>1. OnItsWay(c)
      BY <1>f DEF Progress
    <3>2. HasSignal(c)' = HasSignal(c) /\ HandedOn(c)' = HandedOn(c)
      BY <2>1 DEF HasSignal, HandedOn, Recorded
    <3>3. Working(c) \subseteq Working(c)' /\ \A v \in Working(c) : pc'[v] = pc[v]
      BY <2>1 DEF Working
    <3>4. Finishing(c) => Finishing(c)'
      BY <3>3 DEF Finishing
    <3>5. c \in stored \ backfilled /\ Queued(c) => Queued(c)' \/ Working(c)' # {} \/ HasSignal(c)
      <4> SUFFICES ASSUME c \in stored \ backfilled, NEW n \in Messages, n.candle = c, queue[n] > 0
                   PROVE  Queued(c)' \/ Working(c)' # {} \/ HasSignal(c)
        BY DEF Queued
      <4>1. CASE n # m
        BY <4>1, <2>1, <1>t DEF Queued
      <4>2. CASE n = m
        <5>1. c \notin ClosureCandles
          BY DEF OpenMarket
        <5>2. CASE pc'[w] = "guard" /\ job'[w] = m
          BY <4>2, <5>2 DEF Working
        <5> QED
          BY <2>1, <4>2, <5>1, <5>2
      <4> QED
        BY <4>1, <4>2
    <3> QED
      BY <2>1, <3>1, <3>2, <3>3, <3>4, <3>5 DEF OnItsWay
  <2>3. \A f \in Recorded' : Window(f) => f \in plans' \/ PlanComing(f)'
    BY <2>1, <1>f DEF Progress, PlanComing, Recorded, Window
  <2> QED
    BY <2>2, <2>3 DEF Progress
<1>7. ASSUME NEW w \in Workers, Guard(w) \/ ReadHistory(w) PROVE Progress'
  <2>1. /\ pc[w] \in {"guard", "read"} /\ pc'[w] \in {"read", "saveSignal", "handOn"}
        /\ \A v \in Workers \ {w} : pc'[v] = pc[v] /\ fp'[v] = fp[v]
        /\ UNCHANGED <<job, signals, stored, backfilled, queue, toObserve, observed, evaluations, plans>>
    BY <1>7, <1>t DEF Guard, ReadHistory, Goto, rowVars, obsVars
  <2> QED
    BY <2>1, <1>t, <1>f, TaskMoves DEF Decided
<1>8. ASSUME NEW w \in Workers, SavePlan(w) PROVE Progress'
  <2>1. /\ pc[w] = "savePlan" /\ pc'[w] = "commit" /\ plans' = plans \cup {fp[w]}
        /\ \A v \in Workers \ {w} : pc'[v] = pc[v]
        /\ UNCHANGED <<fp, job, signals, stored, backfilled, queue, toObserve, observed, evaluations>>
    BY <1>8, <1>t DEF SavePlan, Goto, rowVars, obsVars
  <2> QED
    BY <2>1, <1>t, <1>f, TaskMoves DEF Decided
<1>9. ASSUME NEW w \in Workers, CommitDecision(w) PROVE Progress'
  <2>1. /\ pc[w] = "commit" /\ pc'[w] = "hooks"
        /\ \A v \in Workers \ {w} : pc'[v] = pc[v]
        /\ evaluations' = [evaluations EXCEPT ![job[w].candle] = @ + 1]
        /\ UNCHANGED <<fp, job, signals, stored, backfilled, queue, toObserve, observed, plans>>
    BY <1>9, <1>t DEF CommitDecision, Goto, rowVars, obsVars
  <2>2. \A c \in Candles : (c = job[w].candle /\ evaluations'[c] >= 1) \/ (c # job[w].candle /\ evaluations'[c] = evaluations[c])
    BY <2>1, <1>t
  <2> QED
    BY <2>1, <2>2, <1>t, <1>f, TaskMoves DEF Decided
<1>10. ASSUME NEW w \in Workers, RunHooks(w) \/ MarkAlert(w) PROVE Progress'
  <2>1. /\ pc[w] \in {"hooks", "mark"} /\ pc'[w] \in {"mark", "handOn"}
        /\ \A v \in Workers \ {w} : pc'[v] = pc[v]
        /\ UNCHANGED <<fp, job, signals, stored, backfilled, queue, toObserve, observed, evaluations, plans>>
    BY <1>10, <1>t DEF RunHooks, MarkAlert, Goto, rowVars, obsVars
  <2> QED
    BY <2>1, <1>t, <1>f, TaskMoves DEF Decided
<1>11. ASSUME NEW w \in Workers, SaveSignal(w) PROVE Progress'
  <2>1. /\ pc[w] = "saveSignal" /\ pc'[w] = AfterSave(fp[w])
        /\ \A v \in Workers \ {w} : pc'[v] = pc[v]
        /\ UNCHANGED <<fp, job, evaluations, stored, backfilled, queue, toObserve, observed, plans>>
    BY <1>11, <1>t DEF SaveSignal, Goto, rowVars, obsVars
  <2>2. Recorded' = Recorded \cup {fp[w]} /\ fp[w] \in Fingerprints /\ fp[w].candle = job[w].candle
    BY <1>11, SavedOwn
  <2>3. pc'[w] \in {"savePlan", "commit"} /\ (Window(fp[w]) => pc'[w] = "savePlan")
    BY <2>1 DEF AfterSave
  <2>4. \A c \in Candles : OnItsWay(c)'
    <3> SUFFICES ASSUME NEW c \in Candles PROVE OnItsWay(c)'
      OBVIOUS
    <3>1. OnItsWay(c)
      BY <1>f DEF Progress
    <3>2. Queued(c)' = Queued(c) /\ Working(c)' = Working(c) /\ (HandedOn(c) => HandedOn(c)')
      BY <2>1, <2>2, <2>3 DEF Queued, Working, HandedOn
    <3>3. \A v \in Working(c) : /\ pc[v] \in {"savePlan", "commit"} => pc'[v] \in {"savePlan", "commit"}
                                /\ pc[v] \in Decided => pc'[v] \in Decided
      BY <2>1 DEF Working, Decided
    <3>4. CASE c = job[w].candle
      <4>1. w \in Working(c)
        BY <2>1, <3>4 DEF Working
      <4> QED
        BY <2>3, <3>1, <3>2, <3>3, <4>1 DEF OnItsWay, Finishing, Decided
    <3>5. CASE c # job[w].candle
      <4>1. HasSignal(c)' = HasSignal(c)
        BY <2>2, <3>5 DEF HasSignal
      <4> QED
        BY <2>1, <3>1, <3>2, <3>3, <4>1 DEF OnItsWay, Finishing
    <3> QED
      BY <3>4, <3>5
  <2>5. \A f \in Recorded' : Window(f) => f \in plans' \/ PlanComing(f)'
    <3> SUFFICES ASSUME NEW f \in Recorded', Window(f), f \notin plans PROVE PlanComing(f)'
      BY <2>1 DEF Window
    <3>1. CASE f = fp[w]
      BY <3>1, <2>1, <2>3 DEF PlanComing
    <3>2. CASE f \in Recorded
      BY <3>2, <2>1, <1>f DEF Progress, PlanComing
    <3> QED
      BY <3>1, <3>2, <2>2
  <2> QED
    BY <2>4, <2>5 DEF Progress
<1>12. ASSUME NEW w \in Workers, HandOn(w) PROVE Progress'
  <2>1. /\ pc[w] = "handOn" /\ pc'[w] = "idle"
        /\ \A v \in Workers \ {w} : pc'[v] = pc[v] /\ job'[v] = job[v] /\ fp'[v] = fp[v]
        /\ toObserve' = toObserve \cup {fp[w]}
        /\ UNCHANGED <<signals, evaluations, stored, backfilled, queue, observed, plans>>
    BY <1>12, <1>t DEF HandOn, Finish, Goto, rowVars
  <2>2. fp[w] \in Recorded /\ fp[w].candle = job[w].candle
    BY <2>1 DEF Consistent, TaskIsConsistent, ConsistentTask, Decided
  <2>3. \A c \in Candles : OnItsWay(c)'
    <3> SUFFICES ASSUME NEW c \in Candles PROVE OnItsWay(c)'
      OBVIOUS
    <3>1. OnItsWay(c)
      BY <1>f DEF Progress
    <3>2. Queued(c)' = Queued(c) /\ HasSignal(c)' = HasSignal(c) /\ (HandedOn(c) => HandedOn(c)')
      BY <2>1 DEF Queued, HasSignal, HandedOn, Recorded
    <3>3. Working(c) \ {w} \subseteq Working(c)' /\ \A v \in Working(c) \ {w} : pc'[v] = pc[v]
      BY <2>1 DEF Working
    <3>4. Finishing(c) => Finishing(c)'
      BY <2>1, <3>3 DEF Finishing
    <3>5. w \in Working(c) => HasSignal(c) /\ HandedOn(c)'
      BY <2>1, <2>2 DEF Working, HasSignal, HandedOn, Recorded
    <3> QED
      BY <2>1, <3>1, <3>2, <3>3, <3>4, <3>5 DEF OnItsWay
  <2>4. \A f \in Recorded' : Window(f) => f \in plans' \/ PlanComing(f)'
    BY <2>1, <1>f DEF Progress, PlanComing, Recorded, Window
  <2> QED
    BY <2>3, <2>4 DEF Progress
<1> QED
  BY <1>1, <1>2, <1>3, <1>4, <1>5, <1>6, <1>7, <1>8, <1>9, <1>10, <1>11, <1>12, <1>e
  DEF Next, WorkerStep, WorkerFault, IngestWithoutDispatch, HandOnFails, TaskFails, WorkerKilled, LoseObservation

\* CompleteWhenQuiet: without a fault, once nothing is queued or under way, every ingested candle
\* is decided, projected and handed on, every window decision has its plan, and no candle in market
\* closure was decided, for any candles, workers and catch-ups.
THEOREM QuietIsComplete == Spec => []CompleteWhenQuiet
<1>1. Init => OpenMarket /\ Progress
  <2> SUFFICES ASSUME Init PROVE OpenMarket /\ Progress
    OBVIOUS
  <2>1. Recorded = {}
    BY DEF Init, Recorded
  <2> QED
    BY <2>1 DEF Init, OpenMarket, Progress, OnItsWay, HasSignal
<1>2. TypeOK /\ OpenMarket /\ Progress => CompleteWhenQuiet
  <2> SUFFICES ASSUME TypeOK, OpenMarket, Progress, errors = 0, crashes = 0,
                      \A w \in Workers : pc[w] = "idle", \A m \in Messages : queue[m] = 0
               PROVE  /\ \A c \in stored \ backfilled : evaluations[c] >= 1 /\ HandedOn(c)
                      /\ \A f \in Recorded : f.candle \notin ClosureCandles /\ (Window(f) => f \in plans)
    BY DEF CompleteWhenQuiet, HandedOn
  <2>1. \A c : Working(c) = {} /\ ~Queued(c) /\ ~Finishing(c)
    BY DEF Working, Queued, Finishing
  <2>2. ASSUME NEW c \in stored \ backfilled PROVE evaluations[c] >= 1 /\ HandedOn(c)
    <3>1. OnItsWay(c)
      BY DEF TypeOK, Progress
    <3> QED
      BY <2>1, <3>1 DEF OnItsWay
  <2>3. ASSUME NEW f \in Recorded, Window(f) PROVE f \in plans
    BY <2>3 DEF Progress, PlanComing
  <2> QED
    BY <2>2, <2>3 DEF OpenMarket
<1>3. Consistent => TypeOK
  BY DEF Consistent
<1> QED
  BY <1>1, <1>2, <1>3, NextOpen, NextProgress, Consistency, PTL DEF Spec
=============================================================================
