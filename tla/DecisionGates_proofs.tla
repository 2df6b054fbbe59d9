------------------------ MODULE DecisionGates_proofs -------------------------
(***************************************************************************)
(* Theorems about what stands before a decision and what watches over it.  *)
(* Phase8Gate: every process works on a copy of the row it read earlier    *)
(* and saves the copy as a whole, so what the row promises has to hold of  *)
(* every copy that may be saved: the inductive invariants are about the    *)
(* row and about all the copies.  CycleSnapshot: a snapshot outlives the   *)
(* worker that stored it, so the invariant is about what is stored, what   *)
(* workers hold and what was decided.                                      *)
(***************************************************************************)
EXTENDS Phase8Gate, CycleSnapshot, FiniteSetTheorems, TLAPS

-----------------------------------------------------------------------------
(* Types, and times that are not of the future.                            *)

Past(r) == r.start # Null => r.start <= now

PastTask(t) ==
    task[t] # Idle =>
        /\ task[t].at <= now
        /\ Past(task[t].read)
        /\ task[t].kind = "observe" => task[t].signal.close \in candles

PastAudit ==
    audit # Idle =>
        /\ audit.at <= now
        /\ Past(audit.read)
        /\ audit.kind = "interrupt" => Past(audit.fresh)

Typed ==
    /\ GateTypeOK
    /\ IsFiniteSet(records)
    /\ \A t \in Tasks : PastTask(t)
    /\ PastAudit

\* Which copies a process holds follows from what it is doing.
LEMMA TaskShapes ==
    ASSUME GateTypeOK, NEW t \in Tasks
    PROVE  /\ task[t].kind = "observe" => task[t] \in Observing
           /\ task[t].kind \in {"open", "interrupt"} => task[t] \in Emptying
           /\ task[t] # Idle => task[t] \in Observing \cup Emptying
           /\ task[t].kind \in {"open", "interrupt", "observe"} => task[t] # Idle
<1>1. task[t] \in {Idle} \cup Observing \cup Emptying
  BY DEF GateTypeOK
<1>2. Idle.kind = "idle"
  BY DEF Idle
<1>3. \A x \in Observing : x.kind = "observe"
  BY DEF Observing
<1>4. \A x \in Emptying : x.kind \in {"open", "interrupt"}
  BY DEF Emptying
<1> QED
  BY <1>1, <1>2, <1>3, <1>4

LEMMA AuditShapes ==
    ASSUME GateTypeOK
    PROVE  /\ audit.kind \in {"count", "missed", "refresh", "save"} =>
                audit \in [kind: {"count", "missed", "refresh", "save"}, read: Rows, at: Times]
           /\ audit.kind = "interrupt" =>
                audit \in [kind: {"interrupt"}, read: Rows, at: Times, fresh: Rows]
           /\ audit.kind \in {"count", "missed", "refresh", "save", "interrupt"} => audit # Idle
<1>1. audit \in {Idle} \cup Auditing
  BY DEF GateTypeOK
<1>2. Idle.kind = "idle"
  BY DEF Idle
<1>3. \A x \in Auditing : x.kind = "interrupt" \/ x.kind \in {"count", "missed", "refresh", "save"}
  BY DEF Auditing
<1>4. \A x \in [kind: {"interrupt"}, read: Rows, at: Times, fresh: Rows] : x.kind = "interrupt"
  OBVIOUS
<1>5. \A x \in [kind: {"count", "missed", "refresh", "save"}, read: Rows, at: Times] :
          x.kind \in {"count", "missed", "refresh", "save"}
  OBVIOUS
<1> QED
  BY <1>1, <1>2, <1>3, <1>4, <1>5 DEF Auditing

LEMMA StatusType == \A r, t : GateStatus(r, t) \in Statuses
  BY DEF GateStatus, Statuses

\* The saved rows are rows again, and keep what they do not assign.
LEMMA OpenedType ==
    ASSUME NEW r \in Rows, NEW t \in Times
    PROVE  /\ Opened(r, t) \in Rows
           /\ Opened(r, t).start = IF r.start = Null THEN t ELSE r.start
           /\ Opened(r, t).observed = r.observed
           /\ Opened(r, t).expected = r.expected
<1> DEFINE o == [r EXCEPT !.start = t, !.status = "OBSERVING", !.failures = 0]
<1>1. 0 \in 0..MaxCount
  BY TimeAssumption
<1>2. o \in Rows /\ o.start = t /\ o.observed = r.observed /\ o.expected = r.expected
  BY <1>1, Zenon DEF Rows, Statuses
<1> QED
  BY <1>2 DEF Opened

LEMMA InterruptedType ==
    ASSUME NEW r \in Rows
    PROVE  /\ Interrupted(r) \in Rows
           /\ Interrupted(r).start = r.start
           /\ Interrupted(r).observed = r.observed
           /\ Interrupted(r).expected = r.expected
           /\ Interrupted(r).status = "INTERRUPTED"
<1>1. Bump(r.failures) \in 0..MaxCount
  BY TimeAssumption DEF Rows, Bump
<1> QED
  BY <1>1, Zenon DEF Rows, Statuses, Interrupted

\* What an observation saves: after a duplicate the row as it was read, opened if
\* need be; otherwise one observation more and the gate's verdict on it.
LEMMA ObservedCases ==
    ASSUME NEW j \in Observing
    PROVE  LET r == Opened(j.read, j.at)
           IN  /\ Observed(j) \in Rows
               /\ Observed(j).start = IF j.read.start = Null THEN j.at ELSE j.read.start
               /\ ~j.created => Observed(j) = r
               /\ j.created =>
                    /\ Observed(j).observed = r.observed + 1
                    /\ Observed(j).expected = AtLeast(r.expected, r.observed + 1)
                    /\ Observed(j).status = GateStatus(Observed(j), j.at)
<1> DEFINE r == Opened(j.read, j.at)
           n == [r EXCEPT !.observed = r.observed + 1,
                          !.expected = AtLeast(r.expected, r.observed + 1),
                          !.lastEval = j.at]
           m == [n EXCEPT !.status = GateStatus(n, j.at)]
<1>1. j.read \in Rows /\ j.at \in Times
  BY DEF Observing
<1>2. r \in Rows /\ r.start = IF j.read.start = Null THEN j.at ELSE j.read.start
  BY <1>1, OpenedType
<1>3. r.observed + 1 \in Nat /\ AtLeast(r.expected, r.observed + 1) \in Nat
  BY <1>2 DEF Rows, AtLeast
<1>4. GateStatus(n, j.at) \in Statuses
  BY StatusType
<1>5. Observed(j) = IF j.created THEN m ELSE r
  BY Zenon DEF Observed
<1> HIDE DEF r
<1>6. /\ n \in Rows
      /\ n.start = r.start
      /\ n.observed = r.observed + 1 /\ n.expected = AtLeast(r.expected, r.observed + 1)
  <2> DEFINE o == r.observed + 1
             e == AtLeast(r.expected, r.observed + 1)
  <2>1. o \in Nat /\ e \in Nat
    BY <1>3
  <2>2. n = [r EXCEPT !.observed = o, !.expected = e, !.lastEval = j.at]
    OBVIOUS
  <2> HIDE DEF n, o, e
  <2>3. n \in Rows /\ n.start = r.start /\ n.observed = o /\ n.expected = e
    BY <1>1, <1>2, <2>1, <2>2, Zenon DEF Rows
  <2> QED
    BY <2>3 DEF o, e
<1> HIDE DEF n
<1>7. /\ m \in Rows
      /\ m.start = n.start /\ m.failures = n.failures /\ m.missing = n.missing
      /\ m.observed = n.observed /\ m.expected = n.expected /\ m.lastEval = n.lastEval
      /\ m.status = GateStatus(n, j.at)
  BY <1>4, <1>6, Zenon DEF Rows
<1> HIDE DEF m
<1>8. GateStatus(n, j.at) = GateStatus(m, j.at)
  BY <1>7 DEF GateStatus, Covered, Fresh
<1> QED
  BY <1>2, <1>5, <1>6, <1>8, <1>7 DEF r

\* The watchdog counts finitely many candles.
LEMMA UnobservedFinite ==
    ASSUME GateTypeOK, NEW a, NEW t
    PROVE  Cardinality(Unobserved(a, t)) \in Nat
<1>1. IsFiniteSet(Slots) /\ candles \subseteq Slots
  BY TimeAssumption, FS_Interval DEF Slots, GateTypeOK
<1>2. Unobserved(a, t) \subseteq candles
  BY DEF Unobserved
<1> QED
  BY <1>1, <1>2, FS_Subset, FS_CardinalityType

LEMMA InitTyped == GateInit => Typed
<1> SUFFICES ASSUME GateInit PROVE Typed
  OBVIOUS
<1>1. now \in Times /\ kills \in 0..MaxKills /\ 0 \in 0..MaxCount
  BY TimeAssumption DEF GateInit, Times
<1>2. row \in Rows /\ row.start = Null
  BY <1>1, Zenon DEF GateInit, InitialRow, Rows, Statuses
<1>3. GateTypeOK
  BY <1>1, <1>2 DEF GateInit, GateTypeOK
<1> QED
  BY <1>3, FS_EmptySet DEF GateInit, Typed, PastTask, PastAudit

\* Time and the candles only grow, so what was past stays past.
LEMMA PastStays ==
    ASSUME Typed, now' \in Times, now <= now', candles \subseteq candles',
           UNCHANGED <<task, audit>>
    PROVE  (\A t \in Tasks : PastTask(t)') /\ PastAudit'
<1>1. \A r \in Rows : Past(r) => Past(r)'
  BY TimeAssumption, NullAssumption DEF Typed, GateTypeOK, Past, Rows, Times
<1>2. ASSUME NEW t \in Tasks PROVE PastTask(t)'
  <2>1. task[t] # Idle => task[t].read \in Rows /\ task[t].at \in Times
    BY TaskShapes DEF Typed, Observing, Emptying
  <2> QED
    BY <1>1, <2>1, TimeAssumption DEF Typed, GateTypeOK, PastTask, Times
<1>3. PastAudit'
  <2>1. audit # Idle => audit.read \in Rows /\ audit.at \in Times
    BY DEF Typed, GateTypeOK, Auditing
  <2>2. audit.kind = "interrupt" => audit.fresh \in Rows
    BY AuditShapes DEF Typed
  <2> QED
    BY <1>1, <2>1, <2>2, TimeAssumption DEF Typed, GateTypeOK, PastAudit, Times
<1> QED
  BY <1>2, <1>3

\* A process takes up or drops a copy.
LEMMA TaskChanges ==
    ASSUME Typed, NEW t \in Tasks, NEW x,
           \/ x = Idle
           \/ /\ x \in Observing \cup Emptying
              /\ x.at <= now
              /\ Past(x.read)
              /\ x.kind = "observe" => x.signal.close \in candles,
           task' = [task EXCEPT ![t] = x], UNCHANGED <<now, candles>>
    PROVE  /\ task' \in [Tasks -> {Idle} \cup Observing \cup Emptying]
           /\ \A u \in Tasks : PastTask(u)'
<1>1. task' \in [Tasks -> {Idle} \cup Observing \cup Emptying]
  BY DEF Typed, GateTypeOK
<1>2. ASSUME NEW u \in Tasks PROVE PastTask(u)'
  <2>1. task'[u] = IF u = t THEN x ELSE task[u]
    BY DEF Typed, GateTypeOK
  <2> QED
    BY <2>1 DEF Typed, PastTask, Past
<1> QED
  BY <1>1, <1>2

LEMMA NextTyped == Typed /\ [GateNext]_gateVars => Typed'
<1> SUFFICES ASSUME Typed, [GateNext]_gateVars PROVE Typed'
  OBVIOUS
<1> USE DEF Typed
<1>1. CASE Tick
  <2>1. now' \in Times /\ now <= now'
    BY <1>1, TimeAssumption DEF Tick, GateTypeOK, Times
  <2>2. row'.start # Null => row'.start <= now'
    BY <1>1, <2>1, TimeAssumption DEF Tick, GateTypeOK, Rows, Times
  <2> QED
    BY <1>1, <2>1, <2>2, PastStays DEF Tick, GateTypeOK
<1>2. ASSUME NEW c \in Slots, StoreCandle(c) PROVE Typed'
  BY <1>2, PastStays, TimeAssumption DEF StoreCandle, GateTypeOK, Times
<1>3. ASSUME NEW t \in Tasks, NEW s \in Signals, BeginObservation(t, s) PROVE Typed'
  <2> DEFINE x == [kind |-> "observe", signal |-> s, created |-> s \notin records, read |-> row, at |-> now]
  <2>1. x \in Observing /\ x.at = now /\ x.read = row /\ x.signal = s
    BY DEF GateTypeOK, Observing
  <2>2. task' = [task EXCEPT ![t] = x]
    BY <1>3 DEF BeginObservation
  <2> HIDE DEF x
  <2>3. UNCHANGED <<now, candles, records, row, audit, kills, failed>> /\ s.close \in candles 
    BY <1>3 DEF BeginObservation
  <2>4. now <= now /\ Past(row)
    BY TimeAssumption DEF GateTypeOK, Past, Times
  <2>5. /\ task' \in [Tasks -> {Idle} \cup Observing \cup Emptying]
        /\ \A u \in Tasks : PastTask(u)'
    BY <2>1, <2>2, <2>3, <2>4, TaskChanges
  <2> QED
    BY <2>3, <2>5 DEF GateTypeOK, Past, PastAudit
<1>4. ASSUME NEW t \in Tasks, BeginEmptyCycle(t) PROVE Typed'
  <2> DEFINE x == [kind |-> IF now \in Closed THEN "open" ELSE "interrupt", read |-> row, at |-> now]
  <2>1. x \in Emptying /\ x.kind # "observe" /\ x.at = now /\ x.read = row
    BY DEF GateTypeOK, Emptying
  <2>2. task' = [task EXCEPT ![t] = x]
    BY <1>4 DEF BeginEmptyCycle
  <2> HIDE DEF x
  <2>3. UNCHANGED <<now, candles, records, row, audit, kills, failed>>
    BY <1>4 DEF BeginEmptyCycle
  <2>4. now <= now /\ Past(row)
    BY TimeAssumption DEF GateTypeOK, Past, Times
  <2>5. /\ task' \in [Tasks -> {Idle} \cup Observing \cup Emptying]
        /\ \A u \in Tasks : PastTask(u)'
    BY <2>1, <2>2, <2>3, <2>4, TaskChanges
  <2> QED
    BY <2>3, <2>5 DEF GateTypeOK, Past, PastAudit
<1>5. ASSUME NEW t \in Tasks, EndObservation(t) PROVE Typed'
  <2>1. task[t] \in Observing /\ PastTask(t) /\ task[t] # Idle
    BY <1>5, TaskShapes DEF EndObservation
  <2>2. /\ row' \in Rows
        /\ row'.start = IF task[t].read.start = Null THEN task[t].at ELSE task[t].read.start
    BY <1>5, <2>1, ObservedCases DEF EndObservation
  <2>3. row'.start <= now
    BY <2>1, <2>2 DEF PastTask, Past
  <2>4. IsFiniteSet(records') /\ records' \subseteq Signals /\ \A s \in records' : s.close \in candles
    BY <1>5, <2>1, FS_AddElement DEF EndObservation, GateTypeOK, Observing, PastTask
  <2>5. /\ task' \in [Tasks -> {Idle} \cup Observing \cup Emptying]
        /\ \A u \in Tasks : PastTask(u)'
    BY <1>5, TaskChanges DEF EndObservation
  <2> QED
    BY <1>5, <2>2, <2>3, <2>4, <2>5 DEF EndObservation, GateTypeOK, PastAudit, Past
<1>6. ASSUME NEW t \in Tasks, EndOpening(t) PROVE Typed'
  <2>1. task[t] \in Emptying /\ PastTask(t) /\ task[t] # Idle
    BY <1>6, TaskShapes DEF EndOpening
  <2> DEFINE r == task[t].read
             o == [r EXCEPT !.start = task[t].at, !.status = "OBSERVING"]
  <2>2. r \in Rows /\ task[t].at \in Times
    BY <2>1 DEF Emptying
  <2>3. o \in Rows /\ o.start = task[t].at
    BY <2>2, Zenon DEF Rows, Statuses
  <2>4. row' \in Rows /\ (row'.start # Null => row'.start <= now)
    BY <1>6, <2>1, <2>3 DEF EndOpening, GateTypeOK, PastTask
  <2>5. /\ task' \in [Tasks -> {Idle} \cup Observing \cup Emptying]
        /\ \A u \in Tasks : PastTask(u)'
    BY <1>6, TaskChanges DEF EndOpening
  <2> QED
    BY <1>6, <2>4, <2>5 DEF EndOpening, GateTypeOK, PastAudit, Past
<1>7. ASSUME NEW t \in Tasks, EndInterruption(t) PROVE Typed'
  <2>1. task[t] \in Emptying /\ PastTask(t) /\ task[t] # Idle
    BY <1>7, TaskShapes DEF EndInterruption
  <2>2. row' \in Rows /\ row'.start = task[t].read.start
    BY <1>7, <2>1, InterruptedType DEF EndInterruption, Emptying
  <2>3. /\ task' \in [Tasks -> {Idle} \cup Observing \cup Emptying]
        /\ \A u \in Tasks : PastTask(u)'
    BY <1>7, TaskChanges DEF EndInterruption
  <2> QED
    BY <1>7, <2>1, <2>2, <2>3 DEF EndInterruption, GateTypeOK, PastTask, PastAudit, Past
<1>8. ASSUME NEW t \in Tasks, TaskKilled(t) PROVE Typed'
  <2>1. kills' \in 0..MaxKills
    BY <1>8, TimeAssumption DEF TaskKilled, ObserverDies, GateTypeOK
  <2>2. /\ task' \in [Tasks -> {Idle} \cup Observing \cup Emptying]
        /\ \A u \in Tasks : PastTask(u)'
    BY <1>8, TaskChanges DEF TaskKilled
  <2> QED
    BY <1>8, <2>1, <2>2 DEF TaskKilled, GateTypeOK, PastAudit, Past
<1>9. CASE BeginAudit
  <2> DEFINE x == [kind |-> "count", read |-> row, at |-> now]
  <2>1. x \in Auditing /\ x.kind = "count"
    BY DEF GateTypeOK, Auditing
  <2>2. audit' = x
    BY <1>9 DEF BeginAudit
  <2>3. PastAudit'
    BY <1>9, <2>2, TimeAssumption DEF BeginAudit, PastAudit, Past, GateTypeOK, Times
  <2> QED
    BY <1>9, <2>1, <2>2, <2>3 DEF BeginAudit, GateTypeOK, PastTask, Past
<1>10. CASE AuditCounts
  <2>1. /\ audit \in [kind: {"count", "missed", "refresh", "save"}, read: Rows, at: Times]
        /\ PastAudit /\ audit # Idle
    BY <1>10, AuditShapes DEF AuditCounts
  <2> DEFINE n == Cardinality(Unobserved(audit.read.start, audit.at))
             b == AtLeast(audit.read.observed, Cardinality(records))
             r == [audit.read EXCEPT !.observed = b]
             m == [r EXCEPT !.missing = n]
  <2>2. n \in Nat /\ b \in Nat
    BY <2>1, UnobservedFinite, FS_CardinalityType DEF AtLeast, Rows
  <2> HIDE DEF n, b
  <2>3. r \in Rows /\ r.start = audit.read.start
    BY <2>1, <2>2, Zenon DEF Rows
  <2> HIDE DEF r
  <2>4. m \in Rows /\ m.start = r.start
    BY <2>2, <2>3, Zenon DEF Rows
  <2> HIDE DEF m
  <2>5. audit' \in {[audit EXCEPT !.kind = "missed", !.read = m],
                    [audit EXCEPT !.kind = "save", !.read = r]}
    BY <1>10 DEF AuditCounts, n, b, r, m
  <2>6. /\ audit' \in Auditing /\ audit'.kind # "interrupt"
        /\ audit'.at = audit.at /\ audit'.read.start = audit.read.start
    BY <2>1, <2>3, <2>4, <2>5, Zenon DEF Auditing
  <2> QED
    BY <1>10, <2>1, <2>6 DEF AuditCounts, GateTypeOK, PastTask, PastAudit, Past
<1>11. CASE AuditInterrupts
  <2> DEFINE x == [kind |-> "interrupt", read |-> audit.read, at |-> audit.at, fresh |-> row]
  <2>1. /\ audit \in [kind: {"count", "missed", "refresh", "save"}, read: Rows, at: Times]
        /\ PastAudit /\ audit # Idle
    BY <1>11, AuditShapes DEF AuditInterrupts
  <2>2. x \in Auditing /\ x.at = audit.at /\ x.read = audit.read /\ x.fresh = row
    BY <2>1 DEF Auditing, GateTypeOK
  <2>3. audit' = x
    BY <1>11 DEF AuditInterrupts
  <2> HIDE DEF x
  <2> QED
    BY <1>11, <2>1, <2>2, <2>3 DEF AuditInterrupts, GateTypeOK, PastTask, PastAudit, Past
<1>12. CASE AuditSavesInterruption
  <2> DEFINE x == [kind |-> "refresh", read |-> audit.read, at |-> audit.at]
  <2>1. /\ audit \in [kind: {"interrupt"}, read: Rows, at: Times, fresh: Rows]
        /\ PastAudit /\ audit # Idle
    BY <1>12, AuditShapes DEF AuditSavesInterruption
  <2>2. x \in Auditing /\ x.at = audit.at /\ x.read = audit.read /\ x.kind = "refresh"
    BY <2>1 DEF Auditing
  <2>3. audit' = x
    BY <1>12 DEF AuditSavesInterruption
  <2>4. /\ Interrupted(audit.fresh) \in Rows
        /\ Interrupted(audit.fresh).start = audit.fresh.start
    BY <2>1, InterruptedType
  <2>5. row' \in Rows /\ (row'.start # Null => row'.start <= now) /\ failed' \in BOOLEAN
    BY <1>12, <2>1, <2>4 DEF AuditSavesInterruption, PastAudit, Past, GateTypeOK
  <2> HIDE DEF x
  <2> QED
    BY <1>12, <2>1, <2>2, <2>3, <2>5 DEF AuditSavesInterruption, GateTypeOK, PastTask, PastAudit, Past
<1>13. CASE AuditRefreshes
  <2> DEFINE r == [row EXCEPT !.missing = audit.read.missing]
  <2>1. /\ audit \in [kind: {"count", "missed", "refresh", "save"}, read: Rows, at: Times]
        /\ PastAudit /\ audit # Idle
    BY <1>13, AuditShapes DEF AuditRefreshes
  <2>2. audit.read.missing \in Nat
    BY <2>1, Zenon DEF Rows
  <2>3. r \in Rows /\ r.start = row.start
    BY <2>2, Zenon DEF GateTypeOK, Rows
  <2> HIDE DEF r
  <2>4. audit' = [audit EXCEPT !.kind = "save", !.read = r]
    BY <1>13 DEF AuditRefreshes, r
  <2>5. audit' \in Auditing /\ audit'.kind = "save" /\ audit'.at = audit.at /\ audit'.read = r
    BY <2>1, <2>3, <2>4, Zenon DEF Auditing
  <2> QED
    BY <1>13, <2>1, <2>3, <2>5 DEF AuditRefreshes, GateTypeOK, PastTask, PastAudit, Past
<1>14. CASE EndAudit
  <2> DEFINE r == [audit.read EXCEPT !.status = GateStatus(audit.read, audit.at)]
  <2>1. /\ audit \in [kind: {"count", "missed", "refresh", "save"}, read: Rows, at: Times]
        /\ PastAudit /\ audit # Idle
    BY <1>14, AuditShapes DEF EndAudit
  <2>2. r \in Rows /\ r.start = audit.read.start
    BY <2>1, StatusType, Zenon DEF Rows
  <2> QED
    BY <1>14, <2>1, <2>2 DEF EndAudit, GateTypeOK, PastTask, PastAudit, Past
<1>15. CASE AuditKilled
  <2>1. kills' \in 0..MaxKills
    BY <1>15, TimeAssumption DEF AuditKilled, ObserverDies, GateTypeOK
  <2> QED
    BY <1>15, <2>1 DEF AuditKilled, GateTypeOK, PastTask, PastAudit, Past
<1>16. CASE UNCHANGED gateVars
  BY <1>16 DEF gateVars, GateTypeOK, PastTask, PastAudit, Past
<1> QED
  BY <1>1, <1>2, <1>3, <1>4, <1>5, <1>6, <1>7, <1>8, <1>9, <1>10, <1>11, <1>12, <1>13, <1>14, <1>15, <1>16
  DEF GateNext, EndTask, AuditStep

\* The row, what every process holds of it, and the records stay well typed, and no
\* time in them is of the future.
THEOREM TypeCorrect == GateSpec => []GateTypeOK
<1>1. Typed => GateTypeOK
  BY DEF Typed
<1> QED
  BY InitTyped, NextTyped, <1>1, PTL DEF GateSpec

-----------------------------------------------------------------------------
(* COMPLETE is earned by the row it stands in.                             *)

EarnedBy(r) ==
    r.status = "COMPLETE" =>
        /\ r.start # Null /\ now - r.start >= WindowLength
        /\ r.failures = 0 /\ r.missing = 0
        /\ Covered(r)

\* A copy held by an observation is saved with its old status when the record is a
\* duplicate; every other save computes the status anew or takes COMPLETE away.
Earned == EarnedBy(row) /\ \A t \in Tasks : task[t].kind = "observe" => EarnedBy(task[t].read)

\* The gate's verdict is earned at the time it was computed, and later too.
LEMMA GateEarns ==
    ASSUME GateTypeOK, NEW r \in Rows, NEW t \in Times, t <= now, r.status = GateStatus(r, t)
    PROVE  EarnedBy(r)
<1>1. /\ now \in Int /\ t \in Int /\ WindowLength \in Int
      /\ r.start # Null => r.start \in Int
      /\ r.failures \in Nat /\ r.missing \in Nat
  BY TimeAssumption DEF GateTypeOK, Times, Rows
<1> QED
  BY <1>1 DEF GateStatus, EarnedBy

\* The window only gets older.
LEMMA EarnedStays ==
    ASSUME GateTypeOK, now' \in Times, now <= now', NEW r \in Rows, EarnedBy(r)
    PROVE  EarnedBy(r)'
<1>1. /\ now \in Int /\ now' \in Int /\ WindowLength \in Int
      /\ r.start # Null => r.start \in Int
  BY TimeAssumption DEF GateTypeOK, Times, Rows
<1> QED
  BY <1>1 DEF EarnedBy, Covered

LEMMA NextEarned == Typed /\ Earned /\ [GateNext]_gateVars => Earned'
<1> SUFFICES ASSUME Typed, Earned, [GateNext]_gateVars PROVE Earned'
  OBVIOUS
<1> USE DEF Typed
<1>0. Typed'
  BY NextTyped
<1>1. CASE Tick
  <2>1. now' \in Times /\ now <= now'
    BY <1>1, TimeAssumption DEF Tick, GateTypeOK, Times
  <2>2. row \in Rows /\ \A t \in Tasks : task[t].kind = "observe" => task[t].read \in Rows
    BY TaskShapes DEF GateTypeOK, Observing
  <2> QED
    BY <1>1, <2>1, <2>2, EarnedStays DEF Tick, Earned
<1>2. ASSUME NEW c \in Slots, StoreCandle(c) PROVE Earned'
  BY <1>2 DEF StoreCandle, Earned, EarnedBy
<1>3. ASSUME NEW t \in Tasks, NEW s \in Signals, BeginObservation(t, s) PROVE Earned'
  <2>1. \A u \in Tasks : task'[u] = task[u] \/ task'[u].read = row
    BY <1>3 DEF BeginObservation, GateTypeOK
  <2> QED
    BY <1>3, <2>1 DEF BeginObservation, Earned, EarnedBy
<1>4. ASSUME NEW t \in Tasks, BeginEmptyCycle(t) PROVE Earned'
  <2>1. \A u \in Tasks : task'[u] = task[u] \/ task'[u].read = row
    BY <1>4 DEF BeginEmptyCycle, GateTypeOK
  <2> QED
    BY <1>4, <2>1 DEF BeginEmptyCycle, Earned, EarnedBy
\* Dropping a copy leaves the others.
<1>5. ASSUME NEW t \in Tasks, task' = [task EXCEPT ![t] = Idle], now' = now,
             EarnedBy(row)'
      PROVE  Earned'
  <2>1. \A u \in Tasks : task'[u].kind = "observe" => task'[u] = task[u]
    BY <1>5 DEF GateTypeOK, Idle
  <2> QED
    BY <1>5, <2>1 DEF Earned, EarnedBy
<1>6. ASSUME NEW t \in Tasks, EndObservation(t) PROVE Earned'
  <2> SUFFICES EarnedBy(row)'
    BY <1>5, <1>6 DEF EndObservation
  <2> DEFINE j == task[t]
  <2>1. j \in Observing /\ j.at <= now /\ j.at \in Times /\ EarnedBy(j.read) /\ j.read \in Rows
    BY <1>6, TaskShapes DEF EndObservation, PastTask, Earned, Observing
  <2> HIDE DEF j
  <2>2. row' = Observed(j) /\ now' = now
    BY <1>6 DEF EndObservation, j
  <2>3. CASE j.created
    <3>1. Observed(j) \in Rows /\ Observed(j).status = GateStatus(Observed(j), j.at)
      BY <2>1, <2>3, ObservedCases
    <3>2. EarnedBy(Observed(j))
      BY <2>1, <3>1, GateEarns
    <3> QED
      BY <2>2, <3>2 DEF EarnedBy
  <2>4. CASE ~j.created
    <3>1. Observed(j) = Opened(j.read, j.at)
      BY <2>1, <2>4, ObservedCases
    <3>2. CASE j.read.start = Null
      <4>1. Opened(j.read, j.at).status = "OBSERVING"
        BY <2>1, <3>2, Zenon DEF Opened, Rows
      <4> QED
        BY <2>2, <3>1, <4>1 DEF EarnedBy
    <3>3. CASE j.read.start # Null
      BY <2>1, <2>2, <3>1, <3>3 DEF Opened, EarnedBy
    <3> QED
      BY <3>2, <3>3
  <2> QED
    BY <2>3, <2>4
<1>7. ASSUME NEW t \in Tasks, EndOpening(t) PROVE Earned'
  <2>1. task[t].read \in Rows
    BY <1>7, TaskShapes DEF EndOpening, Emptying
  <2>2. row' = row \/ row'.status = "OBSERVING"
    BY <1>7, <2>1, Zenon DEF EndOpening, Rows
  <2> QED
    BY <1>5, <1>7, <2>2 DEF EndOpening, Earned, EarnedBy
<1>8. ASSUME NEW t \in Tasks, EndInterruption(t) PROVE Earned'
  <2>1. task[t].read \in Rows
    BY <1>8, TaskShapes DEF EndInterruption, Emptying
  <2>2. row'.status = "INTERRUPTED"
    BY <1>8, <2>1, InterruptedType DEF EndInterruption
  <2> QED
    BY <1>5, <1>8, <2>2 DEF EndInterruption, EarnedBy
<1>9. ASSUME NEW t \in Tasks, TaskKilled(t) PROVE Earned'
  BY <1>5, <1>9 DEF TaskKilled, Earned, EarnedBy
<1>10. CASE AuditSavesInterruption
  <2>1. audit.fresh \in Rows
    BY <1>10, AuditShapes DEF AuditSavesInterruption
  <2>2. row' = row \/ row'.status = "INTERRUPTED"
    BY <1>10, <2>1, InterruptedType DEF AuditSavesInterruption
  <2> QED
    BY <1>10, <2>2 DEF AuditSavesInterruption, Earned, EarnedBy
<1>11. CASE EndAudit
  <2> DEFINE g == GateStatus(audit.read, audit.at)
             r == [audit.read EXCEPT !.status = g]
  <2>1. /\ audit.read \in Rows /\ audit.at \in Times
        /\ audit.at <= now
    BY <1>11, AuditShapes DEF EndAudit, PastAudit
  <2>2. g \in Statuses
    BY StatusType
  <2> HIDE DEF g
  <2>3. /\ r \in Rows /\ r.status = g
        /\ r.start = audit.read.start /\ r.failures = audit.read.failures
        /\ r.missing = audit.read.missing /\ r.expected = audit.read.expected
        /\ r.observed = audit.read.observed /\ r.lastEval = audit.read.lastEval
    BY <2>1, <2>2, Zenon DEF Rows
  <2>4. row' = r /\ now' = now /\ task' = task
    BY <1>11 DEF EndAudit, g
  <2> HIDE DEF r
  <2>5. r.status = GateStatus(r, audit.at)
    BY <2>3 DEF g, GateStatus, Covered, Fresh
  <2>6. EarnedBy(r)
    BY <2>1, <2>3, <2>5, GateEarns
  <2> QED
    BY <2>4, <2>6 DEF Earned, EarnedBy
\* The other steps of the audit, and stuttering, change neither the row nor a task.
<1>12. ASSUME UNCHANGED <<now, row, task>> PROVE Earned'
  BY <1>12 DEF Earned, EarnedBy
<1> QED
  BY <1>1, <1>2, <1>3, <1>4, <1>6, <1>7, <1>8, <1>9, <1>10, <1>11, <1>12
  DEF GateNext, EndTask, AuditStep, BeginAudit, AuditCounts, AuditInterrupts, AuditRefreshes, AuditKilled, gateVars

\* Whole-row saves of stale copies never put COMPLETE beside failures, missing cycles,
\* uncovered cycles or a window that is too young.
THEOREM CompleteSafe == GateSpec => []CompleteIsConsistent
<1>1. GateInit => Earned
  <2>1. GateInit => row.status = "NOT_STARTED"
    BY DEF GateInit, InitialRow
  <2>2. GateInit => \A t \in Tasks : task[t].kind = "idle"
    BY DEF GateInit, Idle
  <2> QED
    BY <2>1, <2>2 DEF Earned, EarnedBy
<1>2. Earned => CompleteIsConsistent
  BY DEF Earned, EarnedBy, CompleteIsConsistent
<1> QED
  BY InitTyped, NextTyped, NextEarned, <1>1, <1>2, PTL DEF GateSpec

-----------------------------------------------------------------------------
(* The counters never claim more than the records show.                    *)

BackedBy(r, n) == r.observed <= n /\ r.expected <= n

Creating(t) == task[t].kind = "observe" /\ task[t].created

\* Every copy is backed by the committed records, those of a duplicate are among
\* them, and a signal whose record is being created is nobody else's.
Backed ==
    /\ BackedBy(row, Cardinality(records))
    /\ \A t \in Tasks :
         /\ task[t].kind \in {"observe", "open", "interrupt"} => BackedBy(task[t].read, Cardinality(records))
         /\ task[t].kind = "observe" => (task[t].created <=> task[t].signal \notin records)
         /\ \A u \in Tasks \ {t} :
              Creating(t) /\ task[u].kind = "observe" => task[u].signal # task[t].signal
    /\ audit.kind \in {"count", "missed", "refresh", "save", "interrupt"} =>
         BackedBy(audit.read, Cardinality(records))
    /\ audit.kind = "interrupt" => BackedBy(audit.fresh, Cardinality(records))

\* What an observation saves is backed once its record is committed.
LEMMA ObservedBacked ==
    ASSUME Typed, Backed, NEW t \in Tasks, task[t].kind = "observe"
    PROVE  /\ BackedBy(Observed(task[t]), Cardinality(records \cup {task[t].signal}))
           /\ Cardinality(records) <= Cardinality(records \cup {task[t].signal})
           /\ Cardinality(records) \in Nat
           /\ Cardinality(records \cup {task[t].signal}) \in Nat
<1> DEFINE j == task[t]
           n == Cardinality(records)
           m == Cardinality(records \cup {j.signal})
           r == Opened(j.read, j.at)
<1>1. j \in Observing /\ j.read \in Rows /\ j.at \in Times
  BY TaskShapes DEF Typed, Observing
<1>2. BackedBy(j.read, n) /\ (j.created <=> j.signal \notin records)
  BY DEF Backed
<1>3. n \in Nat /\ m = IF j.created THEN n + 1 ELSE n
  BY <1>2, FS_CardinalityType, FS_AddElement DEF Typed
<1> HIDE DEF j, n, m
<1>4. r \in Rows /\ r.observed = j.read.observed /\ r.expected = j.read.expected
  BY <1>1, OpenedType
<1>5. r.observed \in Nat /\ r.expected \in Nat
  BY <1>4, Zenon DEF Rows
<1> HIDE DEF r
<1>6. CASE j.created
  <2>1. Observed(j).observed = r.observed + 1 /\ Observed(j).expected = AtLeast(r.expected, r.observed + 1)
    BY <1>1, <1>6, ObservedCases DEF r
  <2> QED
    BY <1>2, <1>3, <1>4, <1>5, <1>6, <2>1 DEF BackedBy, AtLeast, j, n, m
<1>7. CASE ~j.created
  <2>1. Observed(j) = r
    BY <1>1, <1>7, ObservedCases DEF r
  <2> QED
    BY <1>2, <1>3, <1>4, <1>5, <1>7, <2>1 DEF BackedBy, j, n, m
<1> QED
  BY <1>6, <1>7

LEMMA NextBacked == Typed /\ Backed /\ [GateNext]_gateVars => Backed'
<1> SUFFICES ASSUME Typed, Backed, [GateNext]_gateVars PROVE Backed'
  OBVIOUS
<1> USE DEF Typed
<1> DEFINE n == Cardinality(records)
<1>1. ASSUME NEW t \in Tasks, NEW s \in Signals, BeginObservation(t, s) PROVE Backed'
  <2> DEFINE x == [kind |-> "observe", signal |-> s, created |-> s \notin records, read |-> row, at |-> now]
  <2>1. /\ x.kind = "observe" /\ x.signal = s /\ x.read = row
        /\ x.created <=> s \notin records
    OBVIOUS
  <2>2. task' = [task EXCEPT ![t] = x] /\ UNCHANGED <<records, row, audit>> /\ ~Uncommitted(s)
    BY <1>1 DEF BeginObservation
  <2> HIDE DEF x
  <2>3. \A u \in Tasks : task'[u] = IF u = t THEN x ELSE task[u]
    BY <2>2 DEF GateTypeOK
  <2>4. \A u \in Tasks : Creating(u) => task[u].signal # s
    BY <2>2 DEF Uncommitted, Creating
  <2>5. \A u \in Tasks \ {t} : x.created /\ task[u].kind = "observe" => task[u].signal # s
    BY <2>1, <2>4 DEF Backed, Creating
  <2> QED
    BY <2>1, <2>2, <2>3, <2>4, <2>5 DEF Backed, Creating, BackedBy
<1>2. ASSUME NEW t \in Tasks, BeginEmptyCycle(t) PROVE Backed'
  <2> DEFINE x == [kind |-> IF now \in Closed THEN "open" ELSE "interrupt", read |-> row, at |-> now]
  <2>1. x.kind # "observe" /\ x.read = row
    OBVIOUS
  <2>2. task' = [task EXCEPT ![t] = x] /\ UNCHANGED <<records, row, audit>>
    BY <1>2 DEF BeginEmptyCycle
  <2> HIDE DEF x
  <2>3. \A u \in Tasks : task'[u] = IF u = t THEN x ELSE task[u]
    BY <2>2 DEF GateTypeOK
  <2> QED
    BY <2>1, <2>2, <2>3 DEF Backed, Creating, BackedBy
\* Dropping a copy leaves the others.
<1>3. ASSUME NEW t \in Tasks, task' = [task EXCEPT ![t] = Idle], UNCHANGED <<records, audit>>,
             BackedBy(row', n)
      PROVE  Backed'
  <2>1. Idle.kind = "idle"
    BY DEF Idle
  <2>2. \A u \in Tasks : task'[u] = IF u = t THEN Idle ELSE task[u]
    BY <1>3 DEF GateTypeOK
  <2> QED
    BY <1>3, <2>1, <2>2 DEF Backed, Creating, BackedBy
<1>4. ASSUME NEW t \in Tasks, EndObservation(t) PROVE Backed'
  <2> DEFINE s == task[t].signal
             m == Cardinality(records \cup {s})
  <2>1. task[t].kind = "observe" /\ row' = Observed(task[t]) /\ records' = records \cup {s}
        /\ task' = [task EXCEPT ![t] = Idle] /\ audit' = audit
    BY <1>4 DEF EndObservation
  <2>2. BackedBy(Observed(task[t]), m) /\ n <= m /\ n \in Nat /\ m \in Nat
    BY <2>1, ObservedBacked
  <2>3. \A r \in Rows : BackedBy(r, n) => BackedBy(r, m)
    <3>1. \A r \in Rows : r.observed \in Nat /\ r.expected \in Nat
      BY Zenon DEF Rows
    <3> HIDE DEF n, m
    <3> QED
      BY <2>2, <3>1 DEF BackedBy
  <2>4. Idle.kind = "idle"
    BY DEF Idle
  <2>5. \A u \in Tasks : task'[u] = IF u = t THEN Idle ELSE task[u]
    BY <2>1 DEF GateTypeOK
  <2>6. Cardinality(records') = m
    BY <2>1
  <2> HIDE DEF m
  <2>7. BackedBy(row', m)
    BY <2>1, <2>2
  <2>8. ASSUME NEW u \in Tasks
        PROVE  /\ task'[u].kind \in {"observe", "open", "interrupt"} => BackedBy(task'[u].read, m)
               /\ task'[u].kind = "observe" => (task'[u].created <=> task'[u].signal \notin records')
    <3>1. task[u].kind \in {"observe", "open", "interrupt"} => task[u].read \in Rows
      BY TaskShapes DEF Observing, Emptying
    <3>2. CASE u = t
      BY <2>4, <2>5, <3>2
    <3>3. CASE u # t
      <4>1. task'[u] = task[u]
        BY <2>5, <3>3
      <4>2. task[u].kind = "observe" => (task[u].signal # s \/ s \in records)
        BY <2>1, <3>3 DEF Backed, Creating
      <4> QED
        BY <2>1, <2>3, <3>1, <4>1, <4>2 DEF Backed
    <3> QED
      BY <3>2, <3>3
  <2>9. \A u \in Tasks : \A v \in Tasks \ {u} :
            Creating(u)' /\ task'[v].kind = "observe" => task'[v].signal # task'[u].signal
    BY <2>4, <2>5 DEF Backed, Creating
  <2>10. audit.kind \in {"count", "missed", "refresh", "save", "interrupt"} => audit.read \in Rows
    BY AuditShapes
  <2>11. audit.kind = "interrupt" => audit.fresh \in Rows
    BY AuditShapes
  <2>12. /\ audit'.kind \in {"count", "missed", "refresh", "save", "interrupt"} => BackedBy(audit'.read, m)
         /\ audit'.kind = "interrupt" => BackedBy(audit'.fresh, m)
    BY <2>1, <2>3, <2>10, <2>11 DEF Backed
  <2> QED
    BY <2>6, <2>7, <2>8, <2>9, <2>12 DEF Backed, BackedBy
<1>5. ASSUME NEW t \in Tasks, EndOpening(t) PROVE Backed'
  <2>1. task[t].read \in Rows /\ BackedBy(task[t].read, n)
    BY <1>5, TaskShapes DEF EndOpening, Emptying, Backed
  <2>2. row' = row \/ (row'.observed = task[t].read.observed /\ row'.expected = task[t].read.expected)
    BY <1>5, <2>1, Zenon DEF EndOpening, Rows
  <2> QED
    BY <1>3, <1>5, <2>1, <2>2 DEF EndOpening, Backed, BackedBy
<1>6. ASSUME NEW t \in Tasks, EndInterruption(t) PROVE Backed'
  <2>1. task[t].read \in Rows /\ BackedBy(task[t].read, n)
    BY <1>6, TaskShapes DEF EndInterruption, Emptying, Backed
  <2>2. row'.observed = task[t].read.observed /\ row'.expected = task[t].read.expected
    BY <1>6, <2>1, InterruptedType DEF EndInterruption
  <2> QED
    BY <1>3, <1>6, <2>1, <2>2 DEF EndInterruption, BackedBy
<1>7. ASSUME NEW t \in Tasks, TaskKilled(t) PROVE Backed'
  BY <1>3, <1>7 DEF TaskKilled, Backed
\* A step of the watchdog leaves the records and the tasks alone.
<1>8. ASSUME UNCHANGED <<records, task>>, BackedBy(row', n),
             audit'.kind \in {"count", "missed", "refresh", "save", "interrupt"} => BackedBy(audit'.read, n),
             audit'.kind = "interrupt" => BackedBy(audit'.fresh, n)
      PROVE  Backed'
  BY <1>8 DEF Backed, Creating, BackedBy
<1>9. CASE BeginAudit
  BY <1>8, <1>9 DEF BeginAudit, Backed
<1>10. CASE AuditCounts
  <2> DEFINE b == AtLeast(audit.read.observed, n)
             r == [audit.read EXCEPT !.observed = b]
             c == Cardinality(Unobserved(audit.read.start, audit.at))
             m == [r EXCEPT !.missing = c]
  <2>1. /\ audit \in [kind: {"count", "missed", "refresh", "save"}, read: Rows, at: Times]
        /\ BackedBy(audit.read, n) /\ n \in Nat
    BY <1>10, AuditShapes, FS_CardinalityType DEF AuditCounts, Backed
  <2> HIDE DEF n
  <2>2. b <= n /\ audit.read.expected <= n /\ b \in Nat
    <3>1. audit.read.observed \in Nat
      BY <2>1, Zenon DEF Rows
    <3> QED
      BY <2>1, <3>1 DEF BackedBy, AtLeast
  <2> HIDE DEF b, c
  <2>3. /\ r.observed = b /\ r.expected = audit.read.expected
        /\ m.observed = b /\ m.expected = audit.read.expected
    BY <2>1, Zenon DEF Rows
  <2>4. BackedBy(r, n) /\ BackedBy(m, n)
    BY <2>2, <2>3 DEF BackedBy
  <2> HIDE DEF r, m
  <2>5. audit' \in {[audit EXCEPT !.kind = "missed", !.read = m],
                    [audit EXCEPT !.kind = "save", !.read = r]}
    BY <1>10 DEF AuditCounts, n, b, r, c, m
  <2>6. audit'.kind # "interrupt" /\ (audit'.read = r \/ audit'.read = m)
    BY <2>1, <2>5, Zenon
  <2> QED
    BY <1>8, <1>10, <2>4, <2>6 DEF AuditCounts, Backed, n
<1>11. CASE AuditInterrupts
  BY <1>8, <1>11 DEF AuditInterrupts, Backed
<1>12. CASE AuditSavesInterruption
  <2>1. audit.fresh \in Rows /\ BackedBy(audit.fresh, n) /\ BackedBy(row, n) /\ BackedBy(audit.read, n)
    BY <1>12, AuditShapes DEF AuditSavesInterruption, Backed
  <2>2. row' = row \/ (row'.observed = audit.fresh.observed /\ row'.expected = audit.fresh.expected)
    BY <1>12, <2>1, InterruptedType DEF AuditSavesInterruption
  <2> QED
    BY <1>8, <1>12, <2>1, <2>2 DEF AuditSavesInterruption, BackedBy
<1>13. CASE AuditRefreshes
  <2> DEFINE r == [row EXCEPT !.missing = audit.read.missing]
  <2>1. audit \in [kind: {"count", "missed", "refresh", "save"}, read: Rows, at: Times]
    BY <1>13, AuditShapes DEF AuditRefreshes
  <2>2. r.observed = row.observed /\ r.expected = row.expected
    BY Zenon DEF GateTypeOK, Rows
  <2> HIDE DEF r
  <2>3. audit' = [audit EXCEPT !.kind = "save", !.read = r]
    BY <1>13 DEF AuditRefreshes, r
  <2>4. audit'.kind = "save" /\ audit'.read = r
    BY <2>1, <2>3, Zenon
  <2> QED
    BY <1>8, <1>13, <2>2, <2>4 DEF AuditRefreshes, Backed, BackedBy
<1>14. CASE EndAudit
  <2>1. audit.read \in Rows /\ BackedBy(audit.read, n)
    BY <1>14, AuditShapes DEF EndAudit, Backed
  <2>2. row'.observed = audit.read.observed /\ row'.expected = audit.read.expected /\ audit' = Idle
    BY <1>14, <2>1, Zenon DEF EndAudit, Rows
  <2>3. Idle.kind = "idle"
    BY DEF Idle
  <2> QED
    BY <1>8, <1>14, <2>1, <2>2, <2>3 DEF EndAudit, BackedBy
<1>15. CASE AuditKilled
  <2>1. Idle.kind = "idle"
    BY DEF Idle
  <2> QED
    BY <1>8, <1>15, <2>1 DEF AuditKilled, Backed
<1>16. ASSUME UNCHANGED <<records, row, task, audit>> PROVE Backed'
  BY <1>16 DEF Backed, Creating, BackedBy
<1> QED
  BY <1>1, <1>2, <1>4, <1>5, <1>6, <1>7, <1>9, <1>10, <1>11, <1>12, <1>13, <1>14, <1>15, <1>16
  DEF GateNext, EndTask, AuditStep, Tick, StoreCandle, gateVars

\* Duplicate deliveries, interleaved saves and kills never make the counters claim more
\* observations than there are records.
THEOREM CountsSafe == GateSpec => []CountsAreBacked
<1>1. GateInit => Backed
  <2>1. GateInit => Cardinality(records) = 0 /\ row.observed = 0 /\ row.expected = 0
    BY FS_EmptySet DEF GateInit, InitialRow
  <2>2. GateInit => audit.kind = "idle" /\ \A t \in Tasks : task[t].kind = "idle"
    BY DEF GateInit, Idle
  <2> QED
    BY <2>1, <2>2 DEF Backed, BackedBy, Creating
<1>2. Backed => CountsAreBacked
  BY DEF Backed, BackedBy, CountsAreBacked
<1> QED
  BY InitTyped, NextTyped, NextBacked, <1>1, <1>2, PTL DEF GateSpec

-----------------------------------------------------------------------------
(* The cycle snapshot of a decision.                                       *)

\* A score is worth something only from a complete profile and outside its blackout.
Honest(x) == x # NoRow => x.score = 0 \/ (IsComplete(x.by) /\ ~x.context.blackout)

\* A snapshot is of its close, which a schedule known by then covered.
OfItsClose(x, c) == x # NoRow => x.at = c /\ CoveredAt(c)

\* What a worker holds.
Holding(j) ==
    \E step \in {"analyse", "decide"}, at \in Closes : \E profile, snapshot, context, events :
        j = [step |-> step, at |-> at, profile |-> profile, snapshot |-> snapshot,
             context |-> context, events |-> events]

\* A worker that may answer without waiting has the snapshot of its close, or is about to
\* compute it.
WellHeld(j) ==
    /\ Holding(j)
    /\ j.profile # Unset => IsComplete(j.profile)
    /\ Honest(j.snapshot)
    /\ j.step = "analyse" => CoveredAt(j.at)
    /\ j.step = "decide" /\ j.context # Unset /\ j.context.healthy =>
           j.snapshot # NoRow /\ j.snapshot.at = j.at /\ CoveredAt(j.at)

SnapshotInv ==
    /\ known \subseteq Vintages
    /\ DOMAIN snapshots = Closes /\ snapshots = [c \in Closes |-> snapshots[c]]
    /\ DOMAIN decider = Deciders /\ decider = [d \in Deciders |-> decider[d]]
    /\ \A c \in Closes : Honest(snapshots[c]) /\ OfItsClose(snapshots[c], c)
    /\ \A d \in Deciders : decider[d] # Free => WellHeld(decider[d])
    /\ PointsAreAuthorised /\ NoTradeOnOldEvidence

\* A close that is covered stays so, whatever is listed later.
LEMMA CoverLasts == known \subseteq known' => \A c : CoveredAt(c) => CoveredAt(c)'
  BY DEF CoveredAt, ListedBy

\* What covers a close covers it for the closes after it, too, as far as being listed goes.
LEMMA ListedStays ==
    ASSUME SnapshotInv, NEW c \in Closes, NEW d \in Closes, d <= c, CoveredAt(d)
    PROVE  ListedBy(c) # {}
<1>1. PICK v \in known : v.known <= d
  BY DEF CoveredAt, ListedBy
<1>2. v.known \in Int /\ c \in Int /\ d \in Int
  BY SnapshotAssumption DEF SnapshotAssumption, SnapshotInv
<1>3. v.known <= c
  BY <1>1, <1>2
<1> QED
  BY <1>1, <1>3 DEF ListedBy

\* The members of S from x on.
ClosesFrom(x, S) == {c \in S : c >= x}

\* Closes up to one of them have a latest.
LEMMA LatestIsThere ==
    ASSUME NEW S \in SUBSET Nat, NEW n \in Nat, \A d \in S : d <= n, S # {}
    PROVE  Max(S) \in S /\ \A y \in S : Max(S) >= y
<1> DEFINE T == {ClosesFrom(x, S) : x \in S}
<1>1. IsFiniteSet(S) /\ \A x \in S : ClosesFrom(x, S) \in SUBSET S
  BY FS_BoundedSetOfNaturals DEF ClosesFrom
<1>2. T \subseteq FiniteSubsetsOf(S)
  BY <1>1, FS_FiniteSubsetsOfFinite
<1>3. T # {}
  OBVIOUS
<1>4. PICK t \in T : \A u \in T : ~(<<u, t>> \in StrictSubsetOrdering(S))
  BY <1>2, <1>3, FS_StrictSubsetOrderingWellFounded, WFMin
<1>5. PICK x \in S : t = ClosesFrom(x, S)
  OBVIOUS
<1>6. ASSUME NEW y \in S, x < y PROVE FALSE
  <2>1. x \in Nat /\ y \in Nat /\ S \subseteq Nat
    OBVIOUS
  <2>2. ASSUME NEW d \in ClosesFrom(y, S) PROVE d \in ClosesFrom(x, S)
    <3>1. d \in S /\ d \in Nat /\ d >= y
      BY <2>1 DEF ClosesFrom
    <3>2. d >= x
      BY <1>6, <2>1, <3>1
    <3> QED
      BY <3>1, <3>2 DEF ClosesFrom
  <2>3. x \in ClosesFrom(x, S) /\ x \notin ClosesFrom(y, S)
    BY <1>6, <2>1 DEF ClosesFrom
  <2> QED
    BY <1>1, <1>4, <1>5, <2>2, <2>3 DEF StrictSubsetOrdering
<1>7. \A y \in S : x >= y
  BY <1>6
<1> QED
  BY <1>7 DEF Max

LEMMA LatestHere ==
    ASSUME NEW c \in Closes, NEW S \in SUBSET Closes, c \in S, \A d \in S : d <= c
    PROVE  Max(S) = c
<1>1. Closes \subseteq Nat
  BY SnapshotAssumption DEF SnapshotAssumption
<1>2. Max(S) \in S /\ \A y \in S : Max(S) >= y
  BY <1>1, LatestIsThere
<1>3. PICK m \in S : m = Max(S)
  BY <1>2
<1>4. m \in Nat /\ c \in Nat /\ m >= c /\ m <= c
  BY <1>1, <1>2, <1>3
<1> QED
  BY <1>3, <1>4

\* The stored snapshot a worker finds.
LEMMA StoredIsOwn ==
    ASSUME SnapshotInv, NEW c \in Closes
    PROVE  /\ Honest(StoredFor(c))
           /\ snapshots[c] # NoRow => StoredFor(c) = snapshots[c]
           /\ StoredFor(c) # NoRow => ListedBy(c) # {}
<1> DEFINE have == {d \in Closes : d <= c /\ snapshots[d] # NoRow}
<1>1. Closes \subseteq Nat
  BY SnapshotAssumption DEF SnapshotAssumption
<1>2. snapshots[c] # NoRow => c \in have
  BY <1>1
<1>3. snapshots[c] # NoRow => StoredFor(c) = snapshots[c]
  <2>1. have \in SUBSET Closes /\ \A d \in have : d <= c
    OBVIOUS
  <2>2. SUFFICES ASSUME snapshots[c] # NoRow PROVE StoredFor(c) = snapshots[c]
    OBVIOUS
  <2>3. Max(have) = c /\ have # {}
    <3> HIDE DEF have
    <3> QED
      BY <1>2, <2>1, <2>2, LatestHere
  <2> QED
    BY <2>3 DEF StoredFor
<1>4. Honest(StoredFor(c))
  <2>1. CASE have = {}
    BY <2>1 DEF StoredFor, Honest
  <2>2. CASE have # {}
    <3>1. have \in SUBSET Nat /\ (\A d \in have : d <= c) /\ c \in Nat /\ have \subseteq Closes
      BY <1>1
    <3>2. Max(have) \in have
      <4> HIDE DEF have
      <4> QED
        BY <2>2, <3>1, LatestIsThere
    <3>3. PICK d \in Closes : d = Max(have)
      BY <3>1, <3>2
    <3>4. StoredFor(c) = snapshots[d]
      BY <2>2, <3>3 DEF StoredFor
    <3> QED
      BY <3>4 DEF SnapshotInv
  <2> QED
    BY <2>1, <2>2
<1>5. StoredFor(c) # NoRow => ListedBy(c) # {}
  <2>1. SUFFICES ASSUME StoredFor(c) # NoRow PROVE ListedBy(c) # {}
    OBVIOUS
  <2>2. have # {}
    BY <2>1 DEF StoredFor
  <2>3. PICK d \in Closes : d <= c /\ snapshots[d] # NoRow
    BY <2>2
  <2>4. CoveredAt(d)
    BY <2>3 DEF SnapshotInv, OfItsClose
  <2> QED
    BY <2>3, <2>4, ListedStays
<1> QED
  BY <1>3, <1>4, <1>5

\* An analysis is honest, and of the close it is for.
LEMMA AnalysisIsHonest ==
    ASSUME NEW profile, profile # Unset => IsComplete(profile), NEW c \in Closes, NEW events
    PROVE  LET x == Analysed3A(profile, c, events)
           IN  Honest(x) /\ x # NoRow /\ x.at = c
<1> DEFINE p == IF profile = Unset THEN Uncalibrated ELSE profile
           context == MacroContext(c, events, p.set["pre"], p.set["post"], FALSE)
           points == SessionPoints(p, c) + SwingPoints(p, c) + CalendarPoints(p, c) + ClearBonus(p, context)
           x == Analysed3A(profile, c, events)
<1>1. x = [at |-> c, context |-> context, by |-> p,
           score |-> IF context.blackout \/ ~Enabled(p) THEN 0 ELSE points]
  BY DEF Analysed3A
<1>2. Enabled(p) => profile # Unset /\ p = profile
  BY DEF Enabled, Uncalibrated
<1> HIDE DEF p, context, points, x
<1>3. x.at = c /\ x.context = context /\ x.by = p
      /\ x.score = IF context.blackout \/ ~Enabled(p) THEN 0 ELSE points
  BY <1>1
<1>4. Honest(x)
  BY <1>2, <1>3 DEF Honest
<1>5. x # NoRow
  BY <1>3, SnapshotAssumption DEF NoRow, SnapshotAssumption
<1> QED
  BY <1>3, <1>4, <1>5 DEF x

LEMMA ResolvedIsComplete ==
    Resolved3A(artifact) # Unset => IsComplete(Resolved3A(artifact))
  BY DEF Resolved3A

\* The gate lets a close through only on a snapshot of it, or on a schedule that covers it.
LEMMA GateKnows ==
    ASSUME SnapshotInv, NEW c \in Closes, GateContext(c) # Unset, GateContext(c).healthy
    PROVE  CoveredAt(c)
<1>1. ListedBy(c) # {}
  BY StoredIsOwn DEF GateContext
<1>2. CASE snapshots[c] # NoRow
  BY <1>2 DEF SnapshotInv, OfItsClose
<1>3. CASE snapshots[c] = NoRow
  <2>1. GateContext(c) = MacroContext(c, IF CoveredAt(c) THEN EventsAsOf(c) ELSE {},
                           DefaultWindow, DefaultWindow, CoveredAt(c))
    BY <1>1, <1>3 DEF GateContext
  <2> DEFINE events == IF CoveredAt(c) THEN EventsAsOf(c) ELSE {}
  <2> HIDE DEF events
  <2>2. MacroContext(c, events, DefaultWindow, DefaultWindow, CoveredAt(c)).healthy = (events # {} \/ CoveredAt(c))
    BY DEF MacroContext
  <2>3. events # {} \/ CoveredAt(c)
    BY <2>1, <2>2 DEF events
  <2> QED
    BY <2>3 DEF events
<1> QED
  BY <1>2, <1>3

\* The parts of the invariant that a step leaves alone.
LEMMA DecisionsStand ==
    ASSUME SnapshotInv, known \subseteq known', decisions' = decisions
    PROVE  PointsAreAuthorised' /\ NoTradeOnOldEvidence'
<1>1. PointsAreAuthorised'
  BY DEF SnapshotInv, PointsAreAuthorised
<1>2. NoTradeOnOldEvidence'
  BY CoverLasts DEF SnapshotInv, NoTradeOnOldEvidence
<1> QED
  BY <1>1, <1>2

LEMMA SnapshotsStand ==
    ASSUME SnapshotInv, known \subseteq known', snapshots' = snapshots
    PROVE  /\ DOMAIN snapshots' = Closes /\ snapshots' = [c \in Closes |-> snapshots'[c]]
           /\ \A c \in Closes : Honest(snapshots[c])' /\ OfItsClose(snapshots[c], c)'
<1>1. /\ DOMAIN snapshots' = Closes /\ snapshots' = [c \in Closes |-> snapshots'[c]]
  BY DEF SnapshotInv
<1>2. ASSUME NEW c \in Closes PROVE Honest(snapshots[c])' /\ OfItsClose(snapshots[c], c)'
  <2>1. Honest(snapshots[c]) /\ OfItsClose(snapshots[c], c)
    BY DEF SnapshotInv
  <2>2. CoveredAt(c) => CoveredAt(c)'
    BY CoverLasts
  <2> QED
    BY <2>1, <2>2 DEF OfItsClose
<1> QED
  BY <1>1, <1>2

\* What a worker holds stays backed, whatever is listed.
LEMMA StaysWellHeld ==
    ASSUME known \subseteq known', NEW j, WellHeld(j)
    PROVE  WellHeld(j)'
<1>1. CoveredAt(j.at) => CoveredAt(j.at)'
  BY CoverLasts
<1> QED
  BY <1>1 DEF WellHeld, Holding, Honest

\* One worker changes what it holds.
LEMMA WorkersStay ==
    ASSUME SnapshotInv, known \subseteq known', NEW d \in Deciders, NEW j, j = Free \/ WellHeld(j)',
           decider' = [decider EXCEPT ![d] = j]
    PROVE  /\ DOMAIN decider' = Deciders /\ decider' = [e \in Deciders |-> decider'[e]]
           /\ \A e \in Deciders : decider'[e] # Free => WellHeld(decider[e])'
<1>1. /\ DOMAIN decider' = Deciders /\ decider' = [e \in Deciders |-> decider'[e]]
      /\ \A e \in Deciders : decider'[e] = IF e = d THEN j ELSE decider[e]
  BY DEF SnapshotInv
<1>2. ASSUME NEW e \in Deciders, NEW k, k = decider'[e], k # Free PROVE WellHeld(k)'
  <2>1. CASE e = d
    BY <1>1, <1>2, <2>1
  <2>2. CASE e # d
    <3>1. k = decider[e]
      BY <1>1, <1>2, <2>2
    <3>2. WellHeld(k)
      BY <1>2, <3>1 DEF SnapshotInv
    <3> QED
      BY <3>2, StaysWellHeld
  <2> QED
    BY <2>1, <2>2
<1>3. ASSUME NEW e \in Deciders, decider'[e] # Free PROVE WellHeld(decider[e])'
  BY <1>2, <1>3
<1> QED
  BY <1>1, <1>3

LEMMA NextSnapshotInv == SnapshotInv /\ [SnapshotNext]_snapshotVars => SnapshotInv'
<1> SUFFICES ASSUME SnapshotInv, [SnapshotNext]_snapshotVars PROVE SnapshotInv'
  OBVIOUS
<1>1. ASSUME NEW d \in Deciders, NEW c \in Closes, LookUp(d, c) PROVE SnapshotInv'
  <2> DEFINE step == IF CoveredAt(c) /\ snapshots[c] = NoRow THEN "analyse" ELSE "decide"
             j == [step |-> step, at |-> c, profile |-> Resolved3A(artifact), snapshot |-> StoredFor(c),
                   context |-> GateContext(c), events |-> IF CoveredAt(c) THEN EventsAsOf(c) ELSE {}]
  <2>1. /\ known' = known /\ snapshots' = snapshots /\ decisions' = decisions
        /\ decider' = [decider EXCEPT ![d] = j]
    BY <1>1 DEF LookUp
  <2>2. Holding(j)
    BY DEF Holding
  <2>3. Honest(StoredFor(c)) /\ (snapshots[c] # NoRow => StoredFor(c) = snapshots[c])
    BY StoredIsOwn
  <2>4. step = "decide" /\ GateContext(c) # Unset /\ GateContext(c).healthy =>
           StoredFor(c) # NoRow /\ StoredFor(c).at = c /\ CoveredAt(c)
    BY <2>3, GateKnows DEF SnapshotInv, OfItsClose
  <2>5. step = "analyse" => CoveredAt(c)
    OBVIOUS
  <2>6. /\ j.step = step /\ j.at = c /\ j.profile = Resolved3A(artifact) /\ j.snapshot = StoredFor(c)
        /\ j.context = GateContext(c)
    OBVIOUS
  <2> HIDE DEF j, step
  <2>7. PICK k : k = j
    OBVIOUS
  <2>8. WellHeld(k)
    BY <2>2, <2>3, <2>4, <2>5, <2>6, <2>7, ResolvedIsComplete DEF WellHeld
  <2>9. WellHeld(k)'
    BY <2>1, <2>8, StaysWellHeld
  <2>10. /\ DOMAIN decider' = Deciders /\ decider' = [e \in Deciders |-> decider'[e]]
         /\ \A e \in Deciders : decider'[e] # Free => WellHeld(decider[e])'
    BY <2>1, <2>7, <2>9, WorkersStay
  <2>11. PointsAreAuthorised' /\ NoTradeOnOldEvidence'
    BY <2>1, DecisionsStand
  <2>12. /\ DOMAIN snapshots' = Closes /\ snapshots' = [e \in Closes |-> snapshots'[e]]
         /\ \A e \in Closes : Honest(snapshots[e])' /\ OfItsClose(snapshots[e], e)'
    BY <2>1, SnapshotsStand
  <2> QED
    BY <2>1, <2>10, <2>11, <2>12 DEF SnapshotInv
<1>2. ASSUME NEW d \in Deciders, NEW stores \in BOOLEAN, Analyse(d, stores) PROVE SnapshotInv'
  <2> DEFINE j == decider[d]
             fresh == Analysed3A(j.profile, j.at, j.events)
  <2>1. /\ known' = known /\ decisions' = decisions /\ j.step = "analyse"
        /\ snapshots' = (IF stores THEN [snapshots EXCEPT ![j.at] = fresh] ELSE snapshots)
        /\ decider' = [decider EXCEPT ![d].step = "decide", ![d].snapshot = fresh]
    BY <1>2 DEF Analyse
  <2>2. WellHeld(j)
    BY <2>1 DEF SnapshotInv, Free
  <2>3. PICK c \in Closes, step \in {"analyse", "decide"} : \E profile, snapshot, context, events :
           j = [step |-> step, at |-> c, profile |-> profile, snapshot |-> snapshot,
                context |-> context, events |-> events]
    BY <2>2 DEF WellHeld, Holding
  <2>4. PICK profile, snapshot, context, events :
           j = [step |-> step, at |-> c, profile |-> profile, snapshot |-> snapshot,
                context |-> context, events |-> events]
    BY <2>3
  <2>5. (profile # Unset => IsComplete(profile)) /\ CoveredAt(c) /\ fresh = Analysed3A(profile, c, events)
    BY <2>1, <2>2, <2>4 DEF WellHeld
  <2>6. PICK x : x = fresh
    OBVIOUS
  <2>7. Honest(x) /\ x # NoRow /\ x.at = c
    BY <2>5, <2>6, AnalysisIsHonest
  <2>8. PICK k : k = [step |-> "decide", at |-> c, profile |-> profile, snapshot |-> x,
                      context |-> context, events |-> events]
    OBVIOUS
  <2>9. decider' = [decider EXCEPT ![d] = k]
    <3>1. [j EXCEPT !.step = "decide", !.snapshot = x] = k
      <4>1. PICK i : i = j
        OBVIOUS
      <4> HIDE DEF j
      <4>2. [i EXCEPT !.step = "decide", !.snapshot = x] = k
        <5>1. i = [step |-> step, at |-> c, profile |-> profile, snapshot |-> snapshot,
                   context |-> context, events |-> events]
          BY <2>4, <4>1
        <5>2. DOMAIN i = {"step", "at", "profile", "snapshot", "context", "events"}
          BY <5>1
        <5>3. PICK m : m = [i EXCEPT !.step = "decide", !.snapshot = x]
          OBVIOUS
        <5>4. m = [f \in {"step", "at", "profile", "snapshot", "context", "events"} |->
                      IF f = "snapshot" THEN x ELSE IF f = "step" THEN "decide" ELSE i[f]]
          BY <5>2, <5>3
        <5>5. m = k
          BY <2>8, <5>1, <5>4
        <5> QED
          BY <5>3, <5>5
      <4> QED
        BY <4>1, <4>2
    <3>2. decider' = [decider EXCEPT ![d] = [j EXCEPT !.step = "decide", !.snapshot = x]]
      <4> HIDE DEF fresh
      <4> QED
        BY <2>1, <2>6
    <3> QED
      BY <3>1, <3>2
  <2>10. WellHeld(k)
    <3>1. Holding(k)
      BY <2>8 DEF Holding
    <3> QED
      BY <2>5, <2>7, <2>8, <3>1 DEF WellHeld
  <2>11. WellHeld(k)'
    BY <2>1, <2>10, StaysWellHeld
  <2>12. /\ DOMAIN decider' = Deciders /\ decider' = [e \in Deciders |-> decider'[e]]
         /\ \A e \in Deciders : decider'[e] # Free => WellHeld(decider[e])'
    BY <2>1, <2>9, <2>11, WorkersStay
  <2>13. PointsAreAuthorised' /\ NoTradeOnOldEvidence'
    BY <2>1, DecisionsStand
  <2>14. /\ DOMAIN snapshots' = Closes /\ snapshots' = [e \in Closes |-> snapshots'[e]]
         /\ \A e \in Closes : Honest(snapshots[e])' /\ OfItsClose(snapshots[e], e)'
    <3>1. CASE ~stores
      BY <2>1, <3>1, SnapshotsStand
    <3>2. CASE stores
      <4>1. snapshots' = [snapshots EXCEPT ![c] = x]
        <5> HIDE DEF fresh
        <5> QED
          BY <2>1, <2>4, <2>6, <3>2
      <4>2. /\ DOMAIN snapshots' = Closes /\ snapshots' = [e \in Closes |-> snapshots'[e]]
            /\ \A e \in Closes : snapshots'[e] = IF e = c THEN x ELSE snapshots[e]
        BY <4>1 DEF SnapshotInv
      <4>3. \A e \in Closes : Honest(snapshots'[e]) /\ (snapshots'[e] # NoRow => snapshots'[e].at = e /\ CoveredAt(e))
        BY <2>5, <2>7, <4>2 DEF SnapshotInv, OfItsClose
      <4>4. \A e : CoveredAt(e)' <=> CoveredAt(e)
        BY <2>1 DEF CoveredAt, ListedBy
      <4> QED
        BY <4>2, <4>3, <4>4 DEF Honest, OfItsClose
    <3> QED
      BY <3>1, <3>2
  <2> QED
    BY <2>1, <2>12, <2>13, <2>14 DEF SnapshotInv
<1>3. ASSUME NEW d \in Deciders, Decide(d) PROVE SnapshotInv'
  <2>1. /\ known' = known /\ snapshots' = snapshots /\ decider[d].step = "decide"
        /\ decisions' = decisions \cup {Decision(decider[d])}
        /\ decider' = [decider EXCEPT ![d] = Free]
    BY <1>3 DEF Decide
  <2>2. PICK j : j = decider[d]
    OBVIOUS
  <2>3. WellHeld(j) /\ j.step = "decide"
    BY <2>1, <2>2 DEF SnapshotInv, Free
  <2>4. PICK s : s = Decision(j)
    OBVIOUS
  <2>5. /\ s.at = j.at /\ s.points = Contribution(j.snapshot, j.profile)
        /\ s.profile = j.profile /\ s.snapshot = j.snapshot
        /\ s.waits = (j.context = Unset \/ j.context.blackout \/ ~j.context.healthy)
    BY <2>4 DEF Decision
  <2>6. s.points > 0 =>
            /\ s.profile # Unset /\ IsComplete(s.profile)
            /\ IsComplete(s.snapshot.by) /\ s.snapshot.by.name = s.profile.name
            /\ ~s.snapshot.context.blackout
    <3>1. SUFFICES ASSUME s.points > 0
                   PROVE  /\ j.profile # Unset /\ IsComplete(j.profile)
                          /\ IsComplete(j.snapshot.by) /\ j.snapshot.by.name = j.profile.name
                          /\ ~j.snapshot.context.blackout
      BY <2>5
    <3>2. CASE j.snapshot = NoRow \/ j.profile = Unset \/ j.snapshot.by.name # j.profile.name
      <4>1. s.points = 0
        BY <2>5, <3>2 DEF Contribution
      <4> QED
        BY <3>1, <4>1
    <3>3. CASE j.snapshot # NoRow /\ j.profile # Unset /\ j.snapshot.by.name = j.profile.name
      <4>1. CASE j.snapshot.score = 0
        <5>1. s.points = 0
          BY <2>5, <4>1 DEF Contribution, AtMost
        <5> QED
          BY <3>1, <5>1
      <4>2. CASE j.snapshot.score # 0
        BY <2>3, <3>3, <4>2 DEF WellHeld, Honest
      <4> QED
        BY <4>1, <4>2
    <3> QED
      BY <3>2, <3>3
  <2>7. ~s.waits => s.snapshot # NoRow /\ s.snapshot.at = s.at /\ CoveredAt(s.at)
    BY <2>3, <2>5 DEF WellHeld
  <2>8. decisions' = decisions \cup {s}
    BY <2>1, <2>2, <2>4
  <2>9. PointsAreAuthorised'
    BY <2>6, <2>8 DEF SnapshotInv, PointsAreAuthorised
  <2>10. NoTradeOnOldEvidence'
    <3>1. \A e : CoveredAt(e)' <=> CoveredAt(e)
      BY <2>1 DEF CoveredAt, ListedBy
    <3> QED
      BY <2>7, <2>8, <3>1 DEF SnapshotInv, NoTradeOnOldEvidence
  <2>11. /\ DOMAIN decider' = Deciders /\ decider' = [e \in Deciders |-> decider'[e]]
         /\ \A e \in Deciders : decider'[e] # Free => WellHeld(decider[e])'
    BY <2>1, WorkersStay
  <2>12. /\ DOMAIN snapshots' = Closes /\ snapshots' = [e \in Closes |-> snapshots'[e]]
         /\ \A e \in Closes : Honest(snapshots[e])' /\ OfItsClose(snapshots[e], e)'
    BY <2>1, SnapshotsStand
  <2> QED
    BY <2>1, <2>9, <2>10, <2>11, <2>12 DEF SnapshotInv
<1>4. ASSUME NEW d \in Deciders, LoseDecision(d) PROVE SnapshotInv'
  <2>1. known' = known /\ snapshots' = snapshots /\ decisions' = decisions /\ decider' = [decider EXCEPT ![d] = Free]
    BY <1>4 DEF LoseDecision
  <2>2. /\ DOMAIN decider' = Deciders /\ decider' = [e \in Deciders |-> decider'[e]]
        /\ \A e \in Deciders : decider'[e] # Free => WellHeld(decider[e])'
    BY <2>1, WorkersStay
  <2>3. /\ PointsAreAuthorised' /\ NoTradeOnOldEvidence'
        /\ DOMAIN snapshots' = Closes /\ snapshots' = [e \in Closes |-> snapshots'[e]]
        /\ \A e \in Closes : Honest(snapshots[e])' /\ OfItsClose(snapshots[e], e)'
    BY <2>1, DecisionsStand, SnapshotsStand
  <2> QED
    BY <2>1, <2>2, <2>3 DEF SnapshotInv
<1>5. CASE (\E v \in Vintages : ListEvent(v)) \/ (\E a \in Artifacts : Configure(a)) \/ UNCHANGED snapshotVars
  <2>1. /\ known \subseteq known' /\ known' \subseteq Vintages
        /\ snapshots' = snapshots /\ decisions' = decisions /\ decider' = decider
    BY <1>5 DEF ListEvent, Configure, snapshotVars, SnapshotInv
  <2>2. /\ DOMAIN decider' = Deciders /\ decider' = [e \in Deciders |-> decider'[e]]
        /\ \A e \in Deciders : decider'[e] # Free => WellHeld(decider[e])'
    <3>1. ASSUME NEW e \in Deciders, NEW k, k = decider[e], k # Free PROVE WellHeld(k)'
      <4>1. WellHeld(k)
        BY <3>1 DEF SnapshotInv
      <4> QED
        BY <2>1, <4>1, StaysWellHeld
    <3> QED
      BY <2>1, <3>1 DEF SnapshotInv
  <2>3. /\ PointsAreAuthorised' /\ NoTradeOnOldEvidence'
        /\ DOMAIN snapshots' = Closes /\ snapshots' = [e \in Closes |-> snapshots'[e]]
        /\ \A e \in Closes : Honest(snapshots[e])' /\ OfItsClose(snapshots[e], e)'
    BY <2>1, DecisionsStand, SnapshotsStand
  <2> QED
    BY <2>1, <2>2, <2>3 DEF SnapshotInv
<1> QED
  BY <1>1, <1>2, <1>3, <1>4, <1>5 DEF SnapshotNext

LEMMA SnapshotStarts == SnapshotInit => SnapshotInv
<1> SUFFICES ASSUME SnapshotInit PROVE SnapshotInv
  OBVIOUS
<1>1. \A c \in Closes : snapshots[c] = NoRow
  BY DEF SnapshotInit
<1>2. \A c \in Closes : Honest(snapshots[c]) /\ OfItsClose(snapshots[c], c)
  BY <1>1 DEF Honest, OfItsClose
<1>3. \A d \in Deciders : decider[d] = Free
  BY DEF SnapshotInit
<1> QED
  BY <1>2, <1>3 DEF SnapshotInit, SnapshotInv, PointsAreAuthorised, NoTradeOnOldEvidence

\* What a decision takes from the cycle comes from a complete profile of its own name,
\* whatever artifacts were configured while closes were tried and retried.
THEOREM CyclePointsNeedAuthority == SnapshotSpec => []PointsAreAuthorised
<1>1. SnapshotInv => PointsAreAuthorised
  BY DEF SnapshotInv
<1> QED
  BY <1>1, SnapshotStarts, NextSnapshotInv, PTL DEF SnapshotSpec

\* A decision that need not wait has a snapshot of its own close and a schedule that covers it.
THEOREM FreshEvidenceOnly == SnapshotSpec => []NoTradeOnOldEvidence
<1>1. SnapshotInv => NoTradeOnOldEvidence
  BY DEF SnapshotInv
<1> QED
  BY <1>1, SnapshotStarts, NextSnapshotInv, PTL DEF SnapshotSpec
=============================================================================
